----------------------------- MODULE PtmchTop_proofs -----------------------------
(***************************************************************************)
(* Proof that the whole detector logs every command it watches: the front  *)
(* end, with the bus master and the two clocks, is an implementation of    *)
(* the environment that PtmchReg assumes, so that what is proved of        *)
(* PtmchReg holds of the composition.                                      *)
(*                                                                         *)
(* The argument.  Captured and Bus follow the bits of a frame and the fall *)
(* of CS through the synchronisers, as in PtmchTrg_proofs but without the  *)
(* torn samples.  A loaded instruction and the pulse it starts are in one  *)
(* of PlsTop + 7 positions (At), one edge of CLK160M apart.  Each position *)
(* bounds the edges of CLK100M that have passed since the page or the      *)
(* pulse began, from the time in skew: eight units to an edge of CLK100M,  *)
(* five to one of CLK160M.  That gives every guard of PtmchReg's front end *)
(* (TopStepReg), and RegInv of PtmchReg_proofs comes with it.              *)
(***************************************************************************)
EXTENDS PtmchTop, PtmchReg_proofs

(* What the theorems assume of the constants: a pulse of five edges and    *)
(* more that is over before the next instruction can be loaded, an         *)
(* instruction long enough for the gap between two pages, and no fewer     *)
(* pulses of the environment than there are frames.                        *)
TimesAssumed ==
    /\ LogAssumed
    /\ PageLead = 3 /\ PlsTop >= 5 /\ PlsTop < InstLen + 4
    /\ 8 * (PageGap - 1) < 5 * InstLen + 12
    /\ Pages = Page /\ MaxFrames <= MaxPulses /\ FrameGap >= 10

(* The word sent is a command of some class.                               *)
Hit == \E c \in Channels : Command(c)
Drive(c) == Front!Opcode(Front!SentWord) \in CmdOf[c]

FrontTypes ==
    /\ SPI_CS \in Bit /\ PTMCH_RST_N \in Bit /\ RESET_N \in Bit
    /\ ar_spi_cs_1d \in Bit /\ sr_spi_cs_2d \in Bit /\ sr_spi_cs_3d \in Bit
    /\ sr_cs_edge_n \in Bit
    /\ sr_inst_cnt \in 0..InstLen
    /\ ar_inst_cnt_160M_1d \in 0..InstLen /\ sr_inst_cnt_160M_2d \in 0..InstLen
    /\ sr_inst_cnt_160M_3d \in 0..InstLen /\ sr_inst_cnt_160M_sync \in 0..InstLen
    /\ sr_inst_edge_n \in Bit /\ sr_pls_cnt \in 0..PlsTop /\ sr_trg_pls \in Bit
    /\ csAge \in 0..CsSetup /\ spiAge \in Bit
    /\ sent \in Seq(Bit) /\ Len(sent) <= InstLen
    /\ fresh \in BOOLEAN /\ clean \in BOOLEAN /\ (clean <=> sent # <<>>)
    /\ window = Front!ResetWindows

(* Until RESET_N is released.                                              *)
Dark ==
    RESET_N = 0 =>
      /\ SPI_CS = 1 /\ ~fresh /\ sent = <<>> /\ PTMCH_RST_N = 0 /\ sr_cs_edge_n = 1
      /\ ar_spi_cs_1d = 0 /\ sr_spi_cs_2d = 0 /\ sr_spi_cs_3d = 0
      /\ sr_inst_edge_n = 1 /\ sr_pls_cnt = 1 /\ sr_trg_pls = 0

(* Where a change of CS has got to, and that the reset of the frame is     *)
(* over before its first bit.                                              *)
CsWay ==
    /\ sr_cs_edge_n = 0 <=> SPI_CS = 0 /\ csAge = 3
    /\ SPI_CS = 0 /\ csAge = 4 => PTMCH_RST_N = 0
    /\ PTMCH_RST_N = 0 => \/ SPI_CS = 0 /\ csAge = 4
                          \/ SPI_CS = 1 /\ csAge = 0 /\ ~fresh /\ sent = <<>>
    /\ sr_spi_cs_3d = 1 => sr_spi_cs_2d = 1 \/ (SPI_CS = 0 /\ csAge = 2)
    /\ sr_spi_cs_2d = 1 => ar_spi_cs_1d = 1 \/ (SPI_CS = 0 /\ csAge = 1)
    /\ SPI_CS = 1 /\ csAge >= 1 => ar_spi_cs_1d = 1
    /\ SPI_CS = 0 =>
         /\ ar_spi_cs_1d = 1 <=> csAge = 0
         /\ csAge = 1 => sr_spi_cs_2d = 1
         /\ csAge >= 2 => sr_spi_cs_2d = 0
         /\ csAge = 2 => sr_spi_cs_3d = 1
         /\ csAge >= 3 => sr_spi_cs_3d = 0
Bus ==
    /\ fresh \/ sent # <<>> \/ SPI_CS = 1
    /\ SPI_CS = 0 /\ csAge <= 4 => fresh
    /\ RESET_N = 1 => CsWay

Still  == sr_inst_cnt = 0 /\ sr_inst_sht = Front!Zero
InStep == sr_inst_cnt = Len(sent) /\ sr_inst_sht = Front!SentWord

(* The registers hold the bits of the frame, and a full count is followed  *)
(* by the whole word.                                                      *)
Piped ==
    /\ ar_inst_cnt_160M_1d = InstLen => sr_inst_cnt = InstLen
    /\ sr_inst_cnt_160M_2d = InstLen =>
         ar_inst_cnt_160M_1d = InstLen /\ ar_inst_sht_160M_1d = sr_inst_sht
    /\ sr_inst_cnt_160M_3d = InstLen =>
         sr_inst_cnt_160M_2d = InstLen /\ sr_inst_sht_160M_2d = sr_inst_sht
    /\ sr_inst_cnt_160M_sync = InstLen =>
         sr_inst_cnt_160M_3d = InstLen /\ sr_inst_sht_160M_3d = sr_inst_sht
    /\ sr_inst_chk # Front!Zero =>
         sr_inst_cnt_160M_sync = InstLen /\ sr_inst_chk = sr_inst_sht
Captured ==
    /\ PTMCH_RST_N = 0 =>
         /\ Still /\ sr_inst_chk = Front!Zero
         /\ ar_inst_cnt_160M_1d = 0 /\ sr_inst_cnt_160M_2d = 0
         /\ sr_inst_cnt_160M_3d = 0 /\ sr_inst_cnt_160M_sync = 0
         /\ ar_inst_mch_n_1d = 1 /\ sr_inst_mch_n_2d = 1 /\ sr_inst_mch_n_3d = 1
    /\ IF fresh THEN Still \/ (SPI_CS = 0 /\ csAge <= 3 /\ InStep) ELSE InStep
    /\ Piped

(* The windows have passed their synchronisers before a command can.       *)
Passed(k) == sent # <<>> \/ (fresh /\ (SPI_CS = 1 \/ csAge >= k))
Windowed ==
    RESET_N = 1 =>
      /\ csAge >= 1 \/ Passed(0) => ar_win_1d = window
      /\ Passed(1) => sr_win_2d = window
      /\ Passed(2) => sr_win_3d = window
      /\ Passed(3) => sr_win_sync = window

FrontInv == FrontTypes /\ Dark /\ Bus /\ Captured /\ Windowed

(* How far the instruction on its way is, in edges of CLK160M since the    *)
(* frame reset.                                                            *)
Stage ==
    IF sr_inst_cnt_160M_sync = InstLen THEN 4
    ELSE IF sr_inst_cnt_160M_3d = InstLen THEN 3
    ELSE IF sr_inst_cnt_160M_2d = InstLen THEN 2
    ELSE IF ar_inst_cnt_160M_1d = InstLen THEN 1 ELSE 0
Way ==
    IF sr_inst_cnt = InstLen THEN InstLen + Stage
    ELSE IF sr_inst_cnt > 0 THEN sr_inst_cnt + spiAge
    ELSE IF SPI_CS = 0 /\ csAge >= 5 THEN 1 ELSE 0

InClear ==
    phase = "clear" =>
      /\ sr_inst_chk = Front!Zero /\ TRG_PLS = Low
      /\ phaseAge >= PageGap \/ 8 * phaseAge >= skew + 5 * Way - 8
      /\ sr_inst_edge_n = 0 => Way = 0
      /\ sr_pls_cnt < PlsTop => Way <= sr_pls_cnt + 1
      /\ sr_inst_cnt = InstLen /\ Hit => doneAge <= Stage

InCut ==
    phase = "cut" =>
      /\ sr_inst_chk = Front!Zero /\ SPI_CS = 0 /\ csAge = 4 /\ RESET_N = 1
      /\ Front!Complete /\ Hit
      /\ \A c \in Channels : TRG_PLS[c] = 1 <=> Drive(c)
      /\ phaseAge = 0 \/ skew > 0
      /\ doneAge >= FrameGap => highAge = 3 \/ 8 * highAge >= skew + 12

(* The match and the pulse, p edges after the word was loaded.             *)
Last == PlsTop + 6
Place(p) ==
    /\ p > 0 => Hit
    /\ ar_inst_mch_n_1d = IF p >= 1 THEN 0 ELSE 1
    /\ sr_inst_mch_n_2d = IF p >= 2 THEN 0 ELSE 1
    /\ sr_inst_mch_n_3d = IF p >= 3 THEN 0 ELSE 1
    /\ sr_inst_edge_n = IF p = 3 THEN 0 ELSE 1
    /\ sr_pls_cnt = IF 4 <= p /\ p <= PlsTop + 3 THEN p - 4 ELSE PlsTop
    /\ sr_trg_pls = IF 5 <= p /\ p <= PlsTop + 4 THEN 1 ELSE 0
    /\ \A c \in Channels : TRG_PLS[c] = 1 <=> 6 <= p /\ p <= PlsTop + 5 /\ Drive(c)
PhaseAt(p) == IF p <= 5 THEN "held" ELSE IF p <= PlsTop + 5 THEN "pulse" ELSE "after"
Timed(p) ==
    /\ p <= 5 => phaseAge >= 3 \/ 8 * phaseAge >= skew + 5 * p - 3
    /\ 6 <= p /\ p <= PlsTop + 5 => highAge = 3 \/ 8 * highAge >= skew + 5 * (p - 6) - 3
    /\ Hit => doneAge <= p + 5 \/ p = Last
    /\ Hit /\ fresh /\ doneAge >= FrameGap => p >= 5 + csAge \/ p = Last
At(p) == Place(p) /\ phase = PhaseAt(p) /\ Timed(p)

InHeld ==
    /\ phase \in {"held", "pulse", "after"} <=> sr_inst_chk # Front!Zero
    /\ sr_inst_chk # Front!Zero =>
         /\ RESET_N = 1 /\ Front!Complete
         /\ \E p \in 0..Last : At(p)
    /\ sr_inst_chk = Front!Zero =>
         ar_inst_mch_n_1d = 1 /\ sr_inst_mch_n_2d = 1 /\ sr_inst_mch_n_3d = 1

PageKept ==
    /\ PAGE_ADDR = PageOut
    /\ sr_inst_chk # Front!Zero => held = Front!AddrOf(Front!SentWord)

(* A command that may still be counted.                                    *)
Open(c) ==
    /\ Front!Complete /\ Command(c)
    /\ \/ phase = "clear" /\ sr_inst_cnt = InstLen
       \/ phase = "held"
       \/ phase \in {"pulse", "cut"} /\ highAge <= 1
Owed(c) == Open(c) /\ (fresh => doneAge >= FrameGap)
TallyTypes ==
    /\ skew \in (-5)..8 /\ doneAge \in 0..DoneTop /\ frames \in 0..MaxFrames
    /\ watched \in [Channels -> Nat] /\ hurried \in [Channels -> Nat] /\ bus = Idle
Tallied ==
    /\ lowAge > 0 => highAge = 0
    /\ ~fresh /\ ~Front!Complete => doneAge = 0
    /\ \A c \in Channels :
         /\ watched[c] <= frames
         /\ fresh \/ (sent # <<>> /\ ~Front!Complete) => watched[c] < frames
         /\ Open(c) => seen[c] < watched[c]
         /\ seen[c] <= watched[c]
         /\ watched[c] <= seen[c] + hurried[c] + 1
         /\ ~Owed(c) => watched[c] <= seen[c] + hurried[c]

PulseInv == InClear /\ InCut /\ InHeld /\ PageKept /\ TallyTypes /\ Tallied
TopInv == TimesAssumed /\ RegInv /\ FrontInv /\ PulseInv
-----------------------------------------------------------------------------
(* Operators                                                               *)

(* The constants as numbers.                                               *)
LEMMA Sizes ==
    /\ InstLen \in Nat /\ InstLen >= 2 /\ OpLen \in Nat /\ OpLen > 0
    /\ PageLen = InstLen - OpLen /\ PageLen \in Nat /\ PageLen > 0
    /\ PlsTop \in Nat /\ PlsTop > 1 /\ CsSetup \in Nat /\ CsSetup >= 5
    /\ CsHigh \in Nat /\ CsHigh >= 1 /\ MaxFrames \in Nat /\ FrameGap \in Nat
BY TopAssumption

(* The empty word and the windows of the reset do not depend on the state. *)
LEMMA ZeroFixed == (Front!Zero)' = Front!Zero
BY DEF Front!Zero, Front!AllZero

(* The windows are those of the reset in both halves.                      *)
LEMMA WindowsFixed ==
    /\ (Front!ResetWindows)' = Front!ResetWindows
    /\ Front!ResetWindows = [c \in Channels |-> [s \in Sides |-> Front!ResetWindows[c][s]]]
    /\ Front!ResetWindows = [c \in Channels |-> [s \in Sides |->
                               IF s = "low" THEN NoPage ELSE AllOne(PageLen)]]
BY Sizes DEF Front!ResetWindows, Front!AllZero, Front!AllOne, Front!AddrLen, Front!Sides, Sides,
             AllZero, AllOne, NoPage

(* The word sent, and what it is a command of, depend on the bus alone.    *)
LEMMA SameWord ==
    ASSUME sent' = sent, window' = window
    PROVE  /\ (Front!SentWord)' = Front!SentWord
           /\ (Front!Complete)' <=> Front!Complete
           /\ (Front!AddrOf(Front!SentWord))' = Front!AddrOf(Front!SentWord)
           /\ \A c \in Channels : (Command(c)' <=> Command(c)) /\ (Drive(c)' <=> Drive(c))
           /\ Hit' <=> Hit
<1>1. /\ (Front!SentWord)' = Front!SentWord
      /\ (Front!Complete)' <=> Front!Complete
    BY DEF Front!SentWord, Front!Complete
<1>2. (Front!AddrOf(Front!SentWord))' = Front!AddrOf(Front!SentWord)
    BY DEF Front!SentWord, Front!AddrOf, Front!AddrLen, Slice, Received
<1>3. ASSUME NEW c
      PROVE  (Command(c)' <=> Command(c)) /\ (Drive(c)' <=> Drive(c))
    BY DEF Command, Drive, Front!InWindow, Front!SentWord, Front!Opcode, Front!AddrOf,
           Front!AddrLen, Slice, Received, Geq
<1>4. Hit' <=> Hit
    BY <1>3 DEF Hit
<1> QED
    BY <1>1, <1>2, <1>3, <1>4

(* Shifting one more bit in is receiving one more bit.                     *)
LEMMA ShiftReceived ==
    ASSUME NEW s \in Seq(Bit), NEW b \in Bit
    PROVE  Front!ShiftIn(Front!Received(s, InstLen), b) = Front!Received(Append(s, b), InstLen)
<1> DEFINE l == Front!ShiftIn(Front!Received(s, InstLen), b)
           r == Front!Received(Append(s, b), InstLen)
<1>1. DOMAIN l = 0..(InstLen - 1) /\ DOMAIN r = 0..(InstLen - 1)
    BY DEF Front!ShiftIn, Front!Received
<1>2. ASSUME NEW i \in 0..(InstLen - 1) PROVE l[i] = r[i]
  <2>1. CASE i = 0
      BY <2>1, Sizes DEF Front!ShiftIn, Front!Received
  <2>2. CASE i # 0
    <3>1. l[i] = Front!Received(s, InstLen)[i - 1]
        BY <2>2, Sizes DEF Front!ShiftIn, Front!Received
    <3>2. i - 1 \in 0..(InstLen - 1)
        BY <2>2, Sizes
    <3>3. l[i] = IF i - 1 < Len(s) THEN s[Len(s) - (i - 1)] ELSE 0
        BY <3>1, <3>2 DEF Front!Received
    <3>4. r[i] = IF i < Len(s) + 1 THEN Append(s, b)[Len(s) + 1 - i] ELSE 0
        BY Sizes DEF Front!Received
    <3>5. i < Len(s) + 1 => Append(s, b)[Len(s) + 1 - i] = s[Len(s) + 1 - i]
        BY <2>2, Sizes
    <3> QED
        BY <3>3, <3>4, <3>5, Sizes
  <2> QED
      BY <2>1, <2>2
<1>3. l = [i \in 0..(InstLen - 1) |-> l[i]] /\ r = [i \in 0..(InstLen - 1) |-> r[i]]
    BY <1>1 DEF Front!ShiftIn, Front!Received
<1> HIDE DEF l, r
<1>4. l = r
    BY <1>2, <1>3
<1> QED
    BY <1>4 DEF l, r

(* Before the first bit the shift register is clear.                       *)
LEMMA ReceivedNone == Front!Received(<<>>, InstLen) = Front!Zero
BY Sizes DEF Front!Received, Front!Zero, Front!AllZero, AllZero

(* The clear register belongs to no class, and no page is on it.           *)
LEMMA NoCommand ==
    /\ \A c \in Channels : Front!Opcode(Front!Zero) \notin CmdOf[c]
    /\ Front!AddrOf(Front!Zero) = NoPage
<1>1. Front!Opcode(Front!Zero) = AllZero(OpLen)
    BY Sizes DEF Front!Opcode, Front!Slice, Front!Zero, Front!AllZero, AllZero, Front!AddrLen
<1>2. Front!AddrOf(Front!Zero) = NoPage
    BY Sizes DEF Front!AddrOf, Front!Slice, Front!Zero, Front!AllZero, AllZero, Front!AddrLen,
                 NoPage
<1> QED
    BY <1>1, <1>2, TopAssumption

(* A command sets off the trigger of its own class and no other.           *)
LEMMA OneClass ==
    /\ \A c \in Channels : Command(c) => Drive(c)
    /\ \A c \in Channels, d \in Channels : Drive(c) /\ Drive(d) => c = d
    /\ Hit => \E c \in Channels : Command(c) /\ Drive(c)
    /\ \A c \in Channels : Hit /\ Drive(c) => Command(c)
<1>1. \A c \in Channels : Command(c) => Drive(c)
    BY DEF Command, Drive, Front!InWindow
<1>2. \A c \in Channels, d \in Channels : Drive(c) /\ Drive(d) => c = d
    BY TopAssumption DEF Drive
<1> QED
    BY <1>1, <1>2 DEF Hit

(* The page of a complete instruction is a page.                           *)
LEMMA SentPage ==
    ASSUME sent \in Seq(Bit)
    PROVE  Front!SentWord \in Vector(InstLen) /\ Front!AddrOf(Front!SentWord) \in Page
<1>1. Front!SentWord \in Vector(InstLen)
    BY Sizes DEF Front!SentWord, Front!Received, Vector, Bit, Front!Bit
<1>2. \A i \in 0..(PageLen - 1) : i + 0 \in 0..(InstLen - 1)
    BY Sizes
<1> QED
    BY <1>1, <1>2, Sizes DEF Front!AddrOf, Front!AddrLen, Front!Slice, Page, Vector

-----------------------------------------------------------------------------
(* One edge of CLK160M                                                     *)

(* The registers of the frame are cleared at this edge.                    *)
Clears == PTMCH_RST_N = 0 \/ RESET_N = 0 \/ sr_cs_edge_n = 0

(* What every edge does.                                                   *)
LEMMA TickOf ==
    ASSUME Front!Tick160
    PROVE  /\ spiAge' = 1 /\ csAge' = Older(csAge, CsSetup)
           /\ RESET_N' = RESET_N /\ SPI_CS' = SPI_CS /\ window' = window
           /\ sent' = sent /\ fresh' = fresh /\ clean' = clean
           /\ PTMCH_RST_N' = IF RESET_N = 0 \/ sr_cs_edge_n = 0 THEN 0 ELSE 1
BY DEF Front!Tick160, Front!Edge160, Front!InstEdge, Front!FrameReset, Front!pins,
       Front!history, Older, Front!Older

(* An edge in the reset of the frame.                                      *)
LEMMA ClearingTick ==
    ASSUME Front!Tick160, Clears
    PROVE  /\ sr_inst_cnt' = 0 /\ sr_inst_sht' = Front!Zero /\ sr_inst_chk' = Front!Zero
           /\ ar_inst_cnt_160M_1d' = 0 /\ sr_inst_cnt_160M_2d' = 0
           /\ sr_inst_cnt_160M_3d' = 0 /\ sr_inst_cnt_160M_sync' = 0
           /\ ar_inst_mch_n_1d' = 1 /\ sr_inst_mch_n_2d' = 1 /\ sr_inst_mch_n_3d' = 1
BY DEF Front!Tick160, Front!Edge160, Front!InstEdge, Front!Cleared, Front!FrameReset, Clears

(* Any other edge.                                                         *)
LEMMA PassingTick ==
    ASSUME Front!Tick160, ~Clears
    PROVE  /\ sr_inst_cnt' = sr_inst_cnt /\ sr_inst_sht' = sr_inst_sht
           /\ ar_inst_cnt_160M_1d' = sr_inst_cnt /\ ar_inst_sht_160M_1d' = sr_inst_sht
           /\ sr_inst_cnt_160M_2d' = ar_inst_cnt_160M_1d
           /\ sr_inst_sht_160M_2d' = ar_inst_sht_160M_1d
           /\ sr_inst_cnt_160M_3d' = sr_inst_cnt_160M_2d
           /\ sr_inst_sht_160M_3d' = sr_inst_sht_160M_2d
           /\ sr_inst_cnt_160M_sync' = IF sr_inst_cnt_160M_2d = sr_inst_cnt_160M_3d
                                       THEN sr_inst_cnt_160M_3d ELSE sr_inst_cnt_160M_sync
           /\ sr_inst_chk' = IF sr_inst_cnt_160M_sync = InstLen
                                /\ sr_inst_sht_160M_2d = sr_inst_sht_160M_3d
                             THEN sr_inst_sht_160M_3d ELSE sr_inst_chk
           /\ ar_inst_mch_n_1d' =
                IF \E c \in Channels : Front!InWindow(sr_inst_chk, c, sr_win_sync) THEN 0 ELSE 1
           /\ sr_inst_mch_n_2d' = ar_inst_mch_n_1d
           /\ sr_inst_mch_n_3d' = sr_inst_mch_n_2d
BY DEF Front!Tick160, Front!Edge160, Front!InstEdge, Front!Cleared, Front!FrameReset, Clears,
       DiffDetect, Front!DiffDetect, Front!CountFull, Front!c_inst_mch_n

(* The registers that only RESET_N clears.                                 *)
LEMMA RunningTick ==
    ASSUME Front!Tick160, RESET_N # 0
    PROVE  /\ ar_spi_cs_1d' = SPI_CS /\ sr_spi_cs_2d' = ar_spi_cs_1d
           /\ sr_spi_cs_3d' = sr_spi_cs_2d
           /\ sr_cs_edge_n' = IF sr_spi_cs_2d = 0 /\ sr_spi_cs_3d = 1 THEN 0 ELSE 1
           /\ sr_inst_edge_n' = IF sr_inst_mch_n_2d = 0 /\ sr_inst_mch_n_3d = 1
                                THEN 0 ELSE 1
           /\ sr_pls_cnt' = IF sr_inst_edge_n = 0 THEN 0
                            ELSE IF sr_pls_cnt = PlsTop THEN sr_pls_cnt ELSE sr_pls_cnt + 1
           /\ sr_trg_pls' = IF sr_pls_cnt = PlsTop THEN 0 ELSE 1
           /\ TRG_PLS' = [c \in Channels |->
                 IF Front!Opcode(sr_inst_chk) \in CmdOf[c] THEN sr_trg_pls ELSE 0]
           /\ ar_win_1d' = window /\ sr_win_2d' = ar_win_1d /\ sr_win_3d' = sr_win_2d
           /\ sr_win_sync' = [c \in Channels |-> [s \in Sides |->
                 DiffDetect(sr_win_2d[c][s], sr_win_3d[c][s], sr_win_sync[c][s])]]
BY DEF Front!Tick160, Front!Edge160, Front!CsEdge, Front!CsFell, Front!PlsEdge,
       Front!MatchStarts, Front!PulseDone, Front!Drives, Front!WinEdge, Front!DiffDetect,
       DiffDetect, Front!Sides, Sides

(* The same registers while RESET_N is low.                                *)
LEMMA DarkTick ==
    ASSUME Front!Tick160, RESET_N = 0
    PROVE  /\ ar_spi_cs_1d' = 0 /\ sr_spi_cs_2d' = 0 /\ sr_spi_cs_3d' = 0
           /\ sr_cs_edge_n' = 1
           /\ sr_inst_edge_n' = 1 /\ sr_pls_cnt' = 1 /\ sr_trg_pls' = 0 /\ TRG_PLS' = Low
BY DEF Front!Tick160, Front!Edge160, Front!CsReset, Front!PlsReset, Low

(* An edge keeps the types.                                                *)
LEMMA EdgeTypes ==
    ASSUME FrontInv, Front!Tick160
    PROVE  FrontTypes'
<1>1. /\ csAge \in 0..CsSetup /\ csAge' \in 0..CsSetup /\ spiAge' \in Bit
      /\ PTMCH_RST_N' \in Bit
    BY TickOf, Sizes DEF FrontInv, FrontTypes, Older, Bit
<1>2. /\ sr_inst_cnt' \in 0..InstLen
      /\ ar_inst_cnt_160M_1d' \in 0..InstLen /\ sr_inst_cnt_160M_2d' \in 0..InstLen
      /\ sr_inst_cnt_160M_3d' \in 0..InstLen /\ sr_inst_cnt_160M_sync' \in 0..InstLen
  <2>1. 0 \in 0..InstLen
      BY Sizes
  <2>2. CASE Clears
      BY <2>1, <2>2, ClearingTick
  <2>3. CASE ~Clears
      BY <2>3, PassingTick DEF FrontInv, FrontTypes
  <2> QED
      BY <2>2, <2>3
<1>3. /\ ar_spi_cs_1d' \in Bit /\ sr_spi_cs_2d' \in Bit /\ sr_spi_cs_3d' \in Bit
      /\ sr_cs_edge_n' \in Bit
  <2>1. CASE RESET_N = 0
      BY <2>1, DarkTick DEF Bit
  <2>2. CASE RESET_N # 0
      BY <2>2, RunningTick DEF FrontInv, FrontTypes, Bit
  <2> QED
      BY <2>1, <2>2
<1>4. sr_inst_edge_n' \in Bit /\ sr_pls_cnt' \in 0..PlsTop /\ sr_trg_pls' \in Bit
  <2>1. CASE RESET_N = 0
      BY <2>1, DarkTick, Sizes DEF Bit
  <2>2. CASE RESET_N # 0
      BY <2>2, RunningTick, Sizes DEF FrontInv, FrontTypes, Bit
  <2> QED
      BY <2>1, <2>2
<1> QED
    BY <1>1, <1>2, <1>3, <1>4, TickOf, WindowsFixed DEF FrontInv, FrontTypes

(* An edge while RESET_N is low changes nothing of that.                   *)
LEMMA EdgeDark ==
    ASSUME FrontInv, Front!Tick160
    PROVE  Dark'
BY TickOf, DarkTick DEF FrontInv, Dark

(* An edge takes the fall of CS one stage further.                         *)
LEMMA EdgeBus ==
    ASSUME FrontInv, Front!Tick160
    PROVE  Bus'
<1>1. /\ csAge' = IF csAge < CsSetup THEN csAge + 1 ELSE csAge
      /\ csAge \in 0..CsSetup /\ CsSetup \in Nat /\ CsSetup >= 5
      /\ SPI_CS' = SPI_CS /\ fresh' = fresh /\ sent' = sent /\ RESET_N' = RESET_N
      /\ PTMCH_RST_N' = IF RESET_N = 0 \/ sr_cs_edge_n = 0 THEN 0 ELSE 1
    BY TickOf, Sizes DEF FrontInv, FrontTypes, Older
<1>2. /\ fresh \/ sent # <<>> \/ SPI_CS = 1
      /\ SPI_CS = 0 /\ csAge <= 4 => fresh
    BY DEF FrontInv, Bus
<1>3. csAge' <= 4 => csAge <= 4
    BY <1>1
<1>4. ASSUME RESET_N = 1 PROVE CsWay'
  <2>1. /\ ar_spi_cs_1d' = SPI_CS /\ sr_spi_cs_2d' = ar_spi_cs_1d
        /\ sr_spi_cs_3d' = sr_spi_cs_2d
        /\ sr_cs_edge_n' = IF sr_spi_cs_2d = 0 /\ sr_spi_cs_3d = 1 THEN 0 ELSE 1
      BY <1>4, RunningTick
  <2>2. /\ SPI_CS \in Bit /\ ar_spi_cs_1d \in Bit /\ sr_spi_cs_2d \in Bit
        /\ sr_spi_cs_3d \in Bit /\ sr_cs_edge_n \in Bit
      BY DEF FrontInv, FrontTypes
  <2>3. CsWay
      BY <1>4 DEF FrontInv, Bus
  <2>4. /\ csAge' = 0 => FALSE
        /\ csAge' = 1 => csAge = 0
        /\ csAge' = 2 => csAge = 1
        /\ csAge' = 3 => csAge = 2
        /\ csAge' = 4 => csAge = 3
        /\ csAge = 0 => csAge' = 1
        /\ csAge = 1 => csAge' = 2
        /\ csAge = 2 => csAge' = 3
        /\ csAge = 3 => csAge' = 4
        /\ csAge' >= 1
        /\ csAge' >= 2 => csAge >= 1
        /\ csAge' >= 3 => csAge >= 2
      BY <1>1
  <2>5. SPI_CS = 0 /\ csAge >= 1 => ar_spi_cs_1d = 0
      BY <2>2, <2>3, <1>1 DEF CsWay, Bit
  <2>6. /\ sr_cs_edge_n' = 0 <=> SPI_CS = 0 /\ csAge = 2
        /\ PTMCH_RST_N' = 0 <=> SPI_CS = 0 /\ csAge = 3
    <3>1. sr_spi_cs_2d = 0 /\ sr_spi_cs_3d = 1 <=> SPI_CS = 0 /\ csAge = 2
        BY <2>2, <2>3, <1>1 DEF CsWay, Bit
    <3>2. PTMCH_RST_N' = 0 <=> sr_cs_edge_n = 0
        BY <1>1, <1>4
    <3> QED
        BY <3>1, <3>2, <2>1, <2>3 DEF CsWay
  <2>7. /\ sr_spi_cs_3d' = 1 => sr_spi_cs_2d' = 1 \/ (SPI_CS' = 0 /\ csAge' = 2)
        /\ sr_spi_cs_2d' = 1 => ar_spi_cs_1d' = 1 \/ (SPI_CS' = 0 /\ csAge' = 1)
        /\ SPI_CS' = 1 /\ csAge' >= 1 => ar_spi_cs_1d' = 1
    <3>1. sr_spi_cs_2d = 1 => ar_spi_cs_1d = 1 \/ (SPI_CS = 0 /\ csAge = 1)
        BY <2>3 DEF CsWay
    <3>2. ar_spi_cs_1d = 1 => SPI_CS = 1 \/ (SPI_CS = 0 /\ csAge = 0)
        BY <2>2, <2>3 DEF CsWay, Bit
    <3> QED
        BY <3>1, <3>2, <1>1, <2>1, <2>4
  <2>8. SPI_CS = 0 =>
           /\ ar_spi_cs_1d' = 0
           /\ csAge' = 1 => sr_spi_cs_2d' = 1
           /\ csAge' >= 2 => sr_spi_cs_2d' = 0
           /\ csAge' = 2 => sr_spi_cs_3d' = 1
           /\ csAge' >= 3 => sr_spi_cs_3d' = 0
      BY <2>1, <2>2, <2>3, <2>4, <2>5 DEF CsWay, Bit
  <2>9. SPI_CS' = 0 =>
           /\ ar_spi_cs_1d' = 1 <=> csAge' = 0
           /\ csAge' = 1 => sr_spi_cs_2d' = 1
           /\ csAge' >= 2 => sr_spi_cs_2d' = 0
           /\ csAge' = 2 => sr_spi_cs_3d' = 1
           /\ csAge' >= 3 => sr_spi_cs_3d' = 0
      BY <2>4, <2>8, <1>1
  <2>10. /\ sr_cs_edge_n' = 0 <=> SPI_CS' = 0 /\ csAge' = 3
         /\ SPI_CS' = 0 /\ csAge' = 4 => PTMCH_RST_N' = 0
         /\ PTMCH_RST_N' = 0 => SPI_CS' = 0 /\ csAge' = 4
      BY <2>4, <2>6, <1>1
  <2> QED
      BY <2>7, <2>9, <2>10 DEF CsWay
<1> QED
    BY <1>1, <1>2, <1>3, <1>4 DEF Bus

(* While a word is held the frame is complete and the pipeline full.       *)
LEMMA WhenHeld ==
    ASSUME FrontInv, sr_inst_chk # Front!Zero
    PROVE  /\ sr_inst_chk = sr_inst_sht /\ sr_inst_cnt = InstLen /\ Stage = 4
           /\ sr_inst_chk = Front!SentWord /\ Len(sent) = InstLen /\ sent # <<>>
           /\ PTMCH_RST_N = 1 /\ InStep /\ (fresh => SPI_CS = 0 /\ csAge <= 3)
           /\ sr_inst_sht_160M_2d = sr_inst_sht /\ sr_inst_sht_160M_3d = sr_inst_sht
<1>1. /\ sr_inst_chk = sr_inst_sht /\ sr_inst_cnt = InstLen
      /\ sr_inst_sht_160M_3d = sr_inst_sht /\ sr_inst_sht_160M_2d = sr_inst_sht
      /\ sr_inst_cnt_160M_sync = InstLen
    BY DEF FrontInv, Captured, Piped
<1>2. ~Still /\ PTMCH_RST_N = 1
    BY Sizes, <1>1 DEF Still, FrontInv, FrontTypes, Captured, Bit
<1>3. InStep /\ (fresh => SPI_CS = 0 /\ csAge <= 3)
    BY <1>2 DEF FrontInv, Captured
<1>4. sent # <<>>
    BY <1>1, <1>3, Sizes DEF InStep
<1> QED
    BY <1>1, <1>2, <1>3, <1>4 DEF InStep, Stage

(* At which moments the registers of the frame are cleared.                *)
LEMMA WhenCleared ==
    ASSUME FrontInv
    PROVE  Clears <=> \/ RESET_N = 0 \/ (SPI_CS = 0 /\ csAge \in {3, 4})
                      \/ SPI_CS = 1 /\ csAge = 0 /\ PTMCH_RST_N = 0
BY DEF FrontInv, FrontTypes, Bus, CsWay, Dark, Clears, Bit

(* An edge that clears leaves nothing of the frame before.                 *)
LEMMA EdgeCaptured ==
    ASSUME FrontInv, Front!Tick160
    PROVE  Captured'
<1>0. /\ csAge' = IF csAge < CsSetup THEN csAge + 1 ELSE csAge
      /\ csAge \in 0..CsSetup /\ CsSetup \in Nat /\ CsSetup >= 5
      /\ SPI_CS' = SPI_CS /\ fresh' = fresh /\ sent' = sent /\ window' = window
    BY TickOf, Sizes DEF FrontInv, FrontTypes, Older
<1>1. CASE Clears
  <2>1. /\ sr_inst_cnt' = 0 /\ sr_inst_sht' = Front!Zero /\ sr_inst_chk' = Front!Zero
        /\ ar_inst_cnt_160M_1d' = 0 /\ sr_inst_cnt_160M_2d' = 0
        /\ sr_inst_cnt_160M_3d' = 0 /\ sr_inst_cnt_160M_sync' = 0
        /\ ar_inst_mch_n_1d' = 1 /\ sr_inst_mch_n_2d' = 1 /\ sr_inst_mch_n_3d' = 1
      BY <1>1, ClearingTick
  <2>2. Still'
      BY <2>1, ZeroFixed DEF Still
  <2>3. ~fresh => InStep'
    <3>1. ASSUME ~fresh PROVE sent = <<>>
        BY <1>1, <3>1, WhenCleared DEF FrontInv, FrontTypes, Bus, Dark, CsWay, Bit
    <3>2. ASSUME sent = <<>> PROVE InStep'
        BY <2>1, <1>0, <3>2, SameWord, ReceivedNone, ZeroFixed DEF InStep, Front!SentWord
    <3> QED
        BY <3>1, <3>2
  <2>4. Piped'
      BY <2>1, Sizes, ZeroFixed DEF Piped
  <2> QED
      BY <2>1, <2>2, <2>3, <2>4, <1>0, ZeroFixed DEF Captured
<1>2. CASE ~Clears
  <2>1. sr_inst_cnt' = sr_inst_cnt /\ sr_inst_sht' = sr_inst_sht
      BY <1>2, PassingTick
  <2>2. /\ Still => Still'
        /\ InStep => InStep'
      BY <2>1, <1>0, ZeroFixed, SameWord DEF Still, InStep
  <2>3. SPI_CS = 0 /\ csAge <= 3 => csAge' <= 3
      BY <1>0, <1>2, WhenCleared
  <2>4. Piped'
    <3>1. Piped
        BY DEF FrontInv, Captured
    <3>2. /\ ar_inst_cnt_160M_1d' = sr_inst_cnt /\ ar_inst_sht_160M_1d' = sr_inst_sht
          /\ sr_inst_cnt_160M_2d' = ar_inst_cnt_160M_1d
          /\ sr_inst_sht_160M_2d' = ar_inst_sht_160M_1d
          /\ sr_inst_cnt_160M_3d' = sr_inst_cnt_160M_2d
          /\ sr_inst_sht_160M_3d' = sr_inst_sht_160M_2d
          /\ sr_inst_cnt_160M_sync' = IF sr_inst_cnt_160M_2d = sr_inst_cnt_160M_3d
                                       THEN sr_inst_cnt_160M_3d ELSE sr_inst_cnt_160M_sync
          /\ sr_inst_chk' = IF sr_inst_cnt_160M_sync = InstLen
                                /\ sr_inst_sht_160M_2d = sr_inst_sht_160M_3d
                             THEN sr_inst_sht_160M_3d ELSE sr_inst_chk
        BY <1>2, PassingTick
    <3>3. /\ sr_inst_cnt_160M_3d = InstLen => sr_inst_cnt_160M_2d = InstLen
          /\ sr_inst_cnt_160M_sync = InstLen => sr_inst_cnt_160M_3d = InstLen
        BY <3>1 DEF Piped
    <3>4. sr_inst_cnt_160M_sync' = InstLen <=> sr_inst_cnt_160M_3d = InstLen
        BY <3>2, <3>3
    <3>5. sr_inst_chk' # Front!Zero =>
             sr_inst_cnt_160M_sync = InstLen /\ sr_inst_chk' = sr_inst_sht
        BY <3>1, <3>2 DEF Piped
    <3>6. sr_inst_chk' # Front!Zero =>
             sr_inst_cnt_160M_sync' = InstLen /\ sr_inst_chk' = sr_inst_sht'
        BY <3>3, <3>4, <3>5, <2>1
    <3>7. /\ sr_inst_cnt_160M_sync' = InstLen => sr_inst_sht_160M_2d = sr_inst_sht
          /\ sr_inst_cnt_160M_3d' = InstLen => ar_inst_sht_160M_1d = sr_inst_sht
        BY <3>1, <3>2, <3>4 DEF Piped
    <3> QED
        BY <2>1, <3>1, <3>2, <3>3, <3>4, <3>6, <3>7, ZeroFixed DEF Piped
  <2>5. PTMCH_RST_N' = 1
      BY <1>2, TickOf DEF Clears
  <2> QED
      BY <1>0, <2>2, <2>3, <2>4, <2>5 DEF FrontInv, Captured
<1> QED
    BY <1>1, <1>2

(* An edge takes the windows one stage further.                            *)
LEMMA EdgeWindowed ==
    ASSUME FrontInv, Front!Tick160
    PROVE  Windowed'
<1> SUFFICES ASSUME RESET_N = 1
             PROVE  /\ csAge' >= 1 \/ Passed(0)' => ar_win_1d' = window
                    /\ Passed(1)' => sr_win_2d' = window
                    /\ Passed(2)' => sr_win_3d' = window
                    /\ Passed(3)' => sr_win_sync' = window
    BY TickOf DEF Windowed
<1>0. /\ csAge' = IF csAge < CsSetup THEN csAge + 1 ELSE csAge
      /\ csAge \in 0..CsSetup /\ CsSetup \in Nat /\ CsSetup >= 5
      /\ SPI_CS' = SPI_CS /\ fresh' = fresh /\ sent' = sent
    BY TickOf, Sizes DEF FrontInv, FrontTypes, Older
<1>1. /\ Passed(1)' => Passed(0)
      /\ Passed(2)' => Passed(1)
      /\ Passed(3)' => Passed(2) /\ Passed(1)
    BY <1>0 DEF Passed
<1>2. sr_win_2d = window /\ sr_win_3d = window => sr_win_sync' = window
    BY RunningTick, WindowsFixed DEF FrontInv, FrontTypes, DiffDetect
<1> QED
    BY <1>1, <1>2, RunningTick DEF FrontInv, Windowed

(* An edge of CLK160M keeps the invariant of the front end.                *)
LEMMA EdgeFrontInv == FrontInv /\ Front!Tick160 => FrontInv'
BY EdgeTypes, EdgeDark, EdgeBus, EdgeCaptured, EdgeWindowed DEF FrontInv
-----------------------------------------------------------------------------
(* The bus                                                                 *)

(* A bit finds the frame reset over; it leaves the registers in step.      *)
LEMMA BitOf ==
    ASSUME FrontInv, NEW b \in Bit, Front!SpiRise(b)
    PROVE  /\ SPI_CS = 0 /\ csAge >= 5 /\ spiAge = 1 /\ spiAge' = 0
           /\ RESET_N = 1 /\ PTMCH_RST_N = 1 /\ fresh' = FALSE
           /\ UNCHANGED <<RESET_N, SPI_CS, window, csAge>>
           /\ UNCHANGED <<Front!instRegs, Front!resetRegs>>
           /\ fresh => /\ sr_inst_cnt = 0 /\ sent' = <<b>> /\ Len(sent') = 1
                       /\ sr_inst_cnt' = 1
           /\ ~fresh => sent # <<>> /\ sr_inst_cnt = Len(sent)
           /\ ~fresh /\ Len(sent) < InstLen =>
                sent' = Append(sent, b) /\ Len(sent') = Len(sent) + 1
                    /\ sr_inst_cnt' = sr_inst_cnt + 1
           /\ ~fresh /\ Len(sent) = InstLen =>
                sent' = sent /\ sr_inst_cnt' = sr_inst_cnt /\ sr_inst_sht' = sr_inst_sht
           /\ InStep' /\ sent' \in Seq(Bit) /\ sent' # <<>> /\ clean' = TRUE
<1>1. /\ SPI_CS = 0 /\ csAge >= CsSetup /\ spiAge = 1
      /\ sent' = IF fresh THEN <<b>>
                 ELSE IF clean /\ Len(sent) < InstLen THEN Append(sent, b) ELSE sent
      /\ fresh' = FALSE /\ clean' = (fresh \/ clean)
    BY DEF Front!SpiRise, Front!SendBit
<1>2. csAge >= 5 /\ csAge \in Nat
    BY <1>1, Sizes DEF FrontInv, FrontTypes
<1>3. RESET_N = 1 /\ PTMCH_RST_N = 1
    BY <1>1, <1>2 DEF FrontInv, FrontTypes, Dark, Bus, CsWay, Bit
<1>4. /\ spiAge' = 0 /\ UNCHANGED <<RESET_N, SPI_CS, window, csAge>>
      /\ UNCHANGED <<Front!instRegs, Front!resetRegs>>
      /\ sr_inst_cnt' = IF sr_inst_cnt = InstLen THEN InstLen ELSE sr_inst_cnt + 1
      /\ sr_inst_sht' = IF sr_inst_cnt = InstLen THEN sr_inst_sht
                        ELSE Front!ShiftIn(sr_inst_sht, b)
    BY <1>3 DEF Front!SpiRise, Front!NextCount, Front!NextShift, Front!pins
<1>5. sent \in Seq(Bit) /\ Len(sent) <= InstLen /\ (clean <=> sent # <<>>)
      /\ fresh \in BOOLEAN /\ clean \in BOOLEAN
    BY DEF FrontInv, FrontTypes
<1>6. ASSUME fresh
      PROVE  /\ sr_inst_cnt = 0 /\ sent' = <<b>> /\ Len(sent') = 1 /\ sr_inst_cnt' = 1
             /\ InStep' /\ sent' \in Seq(Bit) /\ sent' # <<>> /\ clean' = TRUE
  <2>1. Still
      BY <1>2, <1>6 DEF FrontInv, Captured
  <2>2. sr_inst_cnt = 0 /\ sr_inst_cnt' = 1 /\ sent' = <<b>>
      BY <1>1, <1>4, <1>6, <2>1, Sizes DEF Still
  <2>3. sr_inst_sht' = Front!ShiftIn(Front!Received(<<>>, InstLen), b)
      BY <1>4, <2>1, Sizes, ReceivedNone DEF Still
  <2>4. <<>> \in Seq(Bit) /\ Append(<<>>, b) = <<b>> /\ Len(<<b>>) = 1 /\ <<b>> \in Seq(Bit)
        /\ <<b>> # <<>>
      OBVIOUS
  <2>5. sr_inst_sht' = Front!Received(<<b>>, InstLen)
      BY <2>3, <2>4, ShiftReceived
  <2>6. InStep'
      BY <2>2, <2>4, <2>5 DEF InStep, Front!SentWord
  <2> QED
      BY <1>1, <1>6, <2>2, <2>4, <2>6
<1>7. ASSUME ~fresh PROVE InStep /\ sent # <<>> /\ clean = TRUE /\ sr_inst_cnt = Len(sent)
    BY <1>1, <1>5, <1>7 DEF FrontInv, Captured, Bus, InStep
<1>8. ASSUME ~fresh, Len(sent) < InstLen
      PROVE  /\ sent' = Append(sent, b) /\ Len(sent') = Len(sent) + 1
             /\ sr_inst_cnt' = sr_inst_cnt + 1
             /\ InStep' /\ sent' \in Seq(Bit) /\ sent' # <<>> /\ clean' = TRUE
  <2>1. sent' = Append(sent, b) /\ sr_inst_cnt' = sr_inst_cnt + 1
        /\ sr_inst_sht' = Front!ShiftIn(Front!SentWord, b)
      BY <1>1, <1>4, <1>5, <1>7, <1>8 DEF InStep
  <2>2. sr_inst_sht' = Front!Received(Append(sent, b), InstLen)
      BY <2>1, <1>5, ShiftReceived DEF Front!SentWord
  <2>3. Len(Append(sent, b)) = Len(sent) + 1 /\ Append(sent, b) \in Seq(Bit)
      BY <1>5
  <2>4. Len(sent) \in Nat /\ Len(<<>>) = 0
      BY <1>5
  <2>5. Append(sent, b) # <<>>
      BY <2>3, <2>4
  <2>6. InStep'
      BY <2>1, <2>2, <2>3, <1>7, <1>8 DEF InStep, Front!SentWord
  <2> QED
      BY <1>1, <1>7, <1>8, <2>1, <2>3, <2>5, <2>6
<1>9. ASSUME ~fresh, Len(sent) = InstLen
      PROVE  /\ sent' = sent /\ sr_inst_cnt' = sr_inst_cnt /\ sr_inst_sht' = sr_inst_sht
             /\ InStep' /\ sent' \in Seq(Bit) /\ sent' # <<>> /\ clean' = TRUE
  <2>1. sent' = sent /\ sr_inst_cnt' = sr_inst_cnt /\ sr_inst_sht' = sr_inst_sht
      BY <1>1, <1>4, <1>7, <1>9, Sizes
  <2>2. InStep'
      BY <2>1, <1>7, <1>9 DEF InStep, Front!SentWord
  <2> QED
      BY <1>1, <1>5, <1>7, <1>9, <2>1, <2>2
<1>10. Len(sent) < InstLen \/ Len(sent) = InstLen
  <2>1. Len(sent) \in Nat
      BY <1>5
  <2> QED
      BY <2>1, <1>5, Sizes
<1>11. InStep' /\ sent' \in Seq(Bit) /\ sent' # <<>> /\ clean' = TRUE
    BY <1>6, <1>8, <1>9, <1>10
<1> QED
    BY <1>1, <1>2, <1>3, <1>4, <1>6, <1>7, <1>8, <1>9, <1>11

(* A bit keeps the invariant of the front end.                             *)
LEMMA BitFrontInv ==
    ASSUME FrontInv, NEW b \in Bit, Front!SpiRise(b)
    PROVE  FrontInv'
<1>1. /\ UNCHANGED <<RESET_N, SPI_CS, window, csAge, PTMCH_RST_N>>
      /\ UNCHANGED <<ar_inst_cnt_160M_1d, sr_inst_cnt_160M_2d, sr_inst_cnt_160M_3d,
                     sr_inst_cnt_160M_sync, ar_inst_sht_160M_1d, sr_inst_sht_160M_2d,
                     sr_inst_sht_160M_3d, sr_inst_chk, ar_inst_mch_n_1d, sr_inst_mch_n_2d,
                     sr_inst_mch_n_3d>>
      /\ UNCHANGED <<ar_spi_cs_1d, sr_spi_cs_2d, sr_spi_cs_3d, sr_cs_edge_n,
                     sr_inst_edge_n, sr_pls_cnt, sr_trg_pls, TRG_PLS, ar_win_1d, sr_win_2d,
                     sr_win_3d, sr_win_sync>>
    BY BitOf DEF Front!instRegs, Front!resetRegs, Front!csRegs, Front!plsRegs, Front!winRegs
<1>2. /\ SPI_CS = 0 /\ csAge >= 5 /\ RESET_N = 1 /\ PTMCH_RST_N = 1
      /\ fresh' = FALSE /\ clean' = TRUE /\ spiAge' = 0
      /\ InStep' /\ sent' \in Seq(Bit) /\ sent' # <<>>
    BY BitOf
<1>3. csAge \in Nat /\ Len(sent) \in Nat /\ Len(sent) <= InstLen
      /\ InstLen \in Nat /\ InstLen >= 2 /\ sr_inst_cnt \in Nat
    BY Sizes DEF FrontInv, FrontTypes
<1>4. sr_inst_cnt' = Len(sent') /\ Len(sent') <= InstLen /\ Len(sent') \in Nat
      /\ (sr_inst_cnt = InstLen => sr_inst_cnt' = InstLen /\ sr_inst_sht' = sr_inst_sht)
  <2>1. Len(sent) < InstLen \/ Len(sent) = InstLen
      BY <1>3
  <2>2. Len(sent') <= InstLen /\ Len(sent') \in Nat
    <3>1. fresh => Len(sent') = 1
        BY BitOf
    <3>2. ~fresh /\ Len(sent) < InstLen => Len(sent') = Len(sent) + 1
        BY BitOf
    <3>3. ~fresh /\ Len(sent) = InstLen => Len(sent') = Len(sent)
        BY BitOf
    <3> QED
        BY <2>1, <3>1, <3>2, <3>3, <1>3
  <2>3. fresh => sr_inst_cnt # InstLen
    <3>1. fresh => sr_inst_cnt = 0
        BY BitOf
    <3> QED
        BY <3>1, <1>3
  <2>4. ~fresh => sr_inst_cnt = Len(sent)
      BY BitOf
  <2> QED
      BY <1>2, <2>2, <2>3, <2>4, BitOf DEF InStep
<1>5. FrontTypes'
  <2>0. sr_inst_cnt' \in 0..InstLen /\ spiAge' \in Bit
      BY <1>2, <1>3, <1>4 DEF Bit
  <2>1. (clean' <=> sent' # <<>>) /\ fresh' \in BOOLEAN /\ clean' \in BOOLEAN
      BY <1>2
  <2>2. window' = (Front!ResetWindows)'
      BY <1>1, WindowsFixed DEF FrontInv, FrontTypes
  <2> QED
      BY <1>1, <1>2, <1>4, <2>0, <2>1, <2>2 DEF FrontInv, FrontTypes
<1>6. Dark' /\ Bus'
  <2>1. CsWay' /\ ~(csAge' <= 4)
      BY <1>1, <1>2, <1>3 DEF FrontInv, Bus, CsWay
  <2> QED
      BY <2>1, <1>1, <1>2 DEF Dark, Bus
<1>7. Piped'
  <2>1. Piped
      BY DEF FrontInv, Captured
  <2>2. CASE sr_inst_cnt = InstLen
      BY <1>1, <1>4, <2>1, <2>2, ZeroFixed DEF Piped
  <2>3. CASE sr_inst_cnt # InstLen
      BY <1>1, <2>1, <2>3, ZeroFixed DEF Piped
  <2> QED
      BY <2>2, <2>3
<1>8. Captured'
    BY <1>1, <1>2, <1>7 DEF Captured
<1>9. Windowed'
  <2>1. Passed(0) /\ Passed(1) /\ Passed(2) /\ Passed(3)
      BY <1>2, <1>3, BitOf DEF FrontInv, Bus, Passed
  <2> QED
      BY <1>1, <2>1, <1>2 DEF FrontInv, Windowed
<1> QED
    BY <1>5, <1>6, <1>8, <1>9 DEF FrontInv

(* The fall of CS begins a frame.                                          *)
LEMMA FallFrontInv ==
    ASSUME FrontInv, RESET_N = 1, Front!CsFall
    PROVE  FrontInv' /\ SPI_CS = 1 /\ csAge >= 1 /\ PTMCH_RST_N = 1
<1>1. /\ SPI_CS = 1 /\ SPI_CS' = 0 /\ csAge >= CsHigh /\ csAge' = 0 /\ fresh' = TRUE
      /\ UNCHANGED <<RESET_N, window, sr_inst_cnt, sr_inst_sht, spiAge, sent, clean>>
      /\ UNCHANGED <<PTMCH_RST_N, ar_inst_cnt_160M_1d, sr_inst_cnt_160M_2d,
                     sr_inst_cnt_160M_3d, sr_inst_cnt_160M_sync, ar_inst_sht_160M_1d,
                     sr_inst_sht_160M_2d, sr_inst_sht_160M_3d, sr_inst_chk,
                     ar_inst_mch_n_1d, sr_inst_mch_n_2d, sr_inst_mch_n_3d>>
      /\ UNCHANGED <<ar_spi_cs_1d, sr_spi_cs_2d, sr_spi_cs_3d, sr_cs_edge_n,
                     sr_inst_edge_n, sr_pls_cnt, sr_trg_pls, TRG_PLS, ar_win_1d, sr_win_2d,
                     sr_win_3d, sr_win_sync>>
    BY DEF Front!CsFall, Front!spiRegs, Front!instRegs, Front!resetRegs, Front!csRegs,
           Front!plsRegs, Front!winRegs
<1>2. csAge \in Nat /\ csAge >= 1
    BY <1>1, Sizes DEF FrontInv, FrontTypes
<1>3. PTMCH_RST_N = 1 /\ sr_cs_edge_n = 1
    BY <1>1, <1>2 DEF FrontInv, FrontTypes, Bus, CsWay, Bit
<1>4. FrontTypes'
    BY <1>1, WindowsFixed, Sizes DEF FrontInv, FrontTypes, Bit
<1>5. Dark' /\ Bus'
  <2>1. CsWay'
      BY <1>1, <1>2, <1>3 DEF FrontInv, FrontTypes, Bus, CsWay, Bit
  <2> QED
      BY <1>1, <2>1 DEF Dark, Bus
<1>6. Captured'
  <2>1. /\ Still => Still'
        /\ InStep => InStep'
        /\ Piped'
      BY <1>1, SameWord, ZeroFixed DEF FrontInv, Captured, Still, InStep, Piped
  <2> QED
      BY <1>1, <1>3, <2>1 DEF FrontInv, Captured
<1>7. Windowed'
  <2>1. /\ Passed(1)' => Passed(1)
        /\ Passed(2)' => Passed(2)
        /\ Passed(3)' => Passed(3)
      BY <1>1 DEF Passed
  <2> QED
      BY <1>1, <1>2, <2>1 DEF FrontInv, Windowed
<1> QED
    BY <1>1, <1>2, <1>3, <1>4, <1>5, <1>6, <1>7 DEF FrontInv

(* So does its rise not disturb it.                                        *)
LEMMA RiseFrontInv ==
    ASSUME FrontInv, Front!CsRise
    PROVE  FrontInv' /\ SPI_CS = 0 /\ csAge >= 5 /\ RESET_N = 1
<1>1. /\ SPI_CS = 0 /\ SPI_CS' = 1 /\ csAge >= CsSetup /\ csAge' = 0
      /\ UNCHANGED <<RESET_N, window, sr_inst_cnt, sr_inst_sht, spiAge, sent, fresh, clean>>
      /\ UNCHANGED <<PTMCH_RST_N, ar_inst_cnt_160M_1d, sr_inst_cnt_160M_2d,
                     sr_inst_cnt_160M_3d, sr_inst_cnt_160M_sync, ar_inst_sht_160M_1d,
                     sr_inst_sht_160M_2d, sr_inst_sht_160M_3d, sr_inst_chk,
                     ar_inst_mch_n_1d, sr_inst_mch_n_2d, sr_inst_mch_n_3d>>
      /\ UNCHANGED <<ar_spi_cs_1d, sr_spi_cs_2d, sr_spi_cs_3d, sr_cs_edge_n,
                     sr_inst_edge_n, sr_pls_cnt, sr_trg_pls, TRG_PLS, ar_win_1d, sr_win_2d,
                     sr_win_3d, sr_win_sync>>
    BY DEF Front!CsRise, Front!spiRegs, Front!instRegs, Front!resetRegs, Front!csRegs,
           Front!plsRegs, Front!winRegs, Front!history
<1>2. csAge \in Nat /\ csAge >= 5 /\ RESET_N = 1
    BY <1>1, Sizes DEF FrontInv, FrontTypes, Dark, Bit
<1>3. PTMCH_RST_N = 1 /\ sr_cs_edge_n = 1
    BY <1>1, <1>2 DEF FrontInv, FrontTypes, Bus, CsWay, Bit
<1>4. FrontTypes'
    BY <1>1, WindowsFixed, Sizes DEF FrontInv, FrontTypes, Bit
<1>5. Dark' /\ Bus'
  <2>1. CsWay'
      BY <1>1, <1>2, <1>3 DEF FrontInv, FrontTypes, Bus, CsWay, Bit
  <2> QED
      BY <1>1, <1>2, <2>1 DEF Dark, Bus
<1>6. Captured'
  <2>1. /\ Still => Still'
        /\ InStep => InStep'
        /\ Piped'
      BY <1>1, SameWord, ZeroFixed DEF FrontInv, Captured, Still, InStep, Piped
  <2> QED
      BY <1>1, <1>2, <1>3, <2>1 DEF FrontInv, Captured
<1>7. Windowed'
  <2>1. /\ Passed(0)' => Passed(0)
        /\ Passed(1)' => Passed(1)
        /\ Passed(2)' => Passed(2)
        /\ Passed(3)' => Passed(3)
      BY <1>1, <1>2 DEF Passed
  <2> QED
      BY <1>1, <1>2, <2>1 DEF FrontInv, Windowed
<1> QED
    BY <1>1, <1>2, <1>4, <1>5, <1>6, <1>7 DEF FrontInv

(* The release of the reset leaves the bus idle.                           *)
LEMMA ReleaseFrontInv ==
    ASSUME FrontInv, Front!ResetRelease
    PROVE  FrontInv' /\ RESET_N = 0
<1>1. /\ RESET_N = 0 /\ RESET_N' = 1 /\ csAge' = 0
      /\ UNCHANGED <<SPI_CS, window, sr_inst_cnt, sr_inst_sht, spiAge, sent, fresh, clean>>
      /\ UNCHANGED <<PTMCH_RST_N, ar_inst_cnt_160M_1d, sr_inst_cnt_160M_2d,
                     sr_inst_cnt_160M_3d, sr_inst_cnt_160M_sync, ar_inst_sht_160M_1d,
                     sr_inst_sht_160M_2d, sr_inst_sht_160M_3d, sr_inst_chk,
                     ar_inst_mch_n_1d, sr_inst_mch_n_2d, sr_inst_mch_n_3d>>
      /\ UNCHANGED <<ar_spi_cs_1d, sr_spi_cs_2d, sr_spi_cs_3d, sr_cs_edge_n,
                     sr_inst_edge_n, sr_pls_cnt, sr_trg_pls, TRG_PLS, ar_win_1d, sr_win_2d,
                     sr_win_3d, sr_win_sync>>
    BY DEF Front!ResetRelease, Front!spiRegs, Front!instRegs, Front!resetRegs, Front!csRegs,
           Front!plsRegs, Front!winRegs, Front!history
<1>2. /\ SPI_CS = 1 /\ ~fresh /\ sent = <<>> /\ PTMCH_RST_N = 0 /\ sr_cs_edge_n = 1
      /\ ar_spi_cs_1d = 0 /\ sr_spi_cs_2d = 0 /\ sr_spi_cs_3d = 0
    BY <1>1 DEF FrontInv, Dark
<1>3. FrontTypes'
    BY <1>1, WindowsFixed, Sizes DEF FrontInv, FrontTypes, Bit
<1>4. Dark' /\ Bus'
  <2>1. CsWay'
      BY <1>1, <1>2 DEF CsWay
  <2> QED
      BY <1>1, <1>2, <2>1 DEF Dark, Bus
<1>5. Captured'
  <2>1. /\ Still => Still'
        /\ InStep => InStep'
        /\ Piped'
      BY <1>1, SameWord, ZeroFixed DEF FrontInv, Captured, Still, InStep, Piped
  <2> QED
      BY <1>1, <1>2, <2>1, ZeroFixed DEF FrontInv, Captured
<1>6. Windowed'
    BY <1>1, <1>2 DEF Windowed, Passed
<1> QED
    BY <1>1, <1>3, <1>4, <1>5, <1>6 DEF FrontInv
-----------------------------------------------------------------------------
(* The instruction on its way, and the pulse                               *)

(* How far an instruction can be.                                          *)
LEMMA WayTypes ==
    ASSUME FrontInv
    PROVE  /\ Stage \in 0..4 /\ Way \in Nat /\ Way <= InstLen + 4
           /\ sr_inst_cnt = InstLen => Way = InstLen + Stage
           /\ sr_inst_cnt # InstLen => Stage = 0
           /\ Stage = 4 <=> sr_inst_cnt_160M_sync = InstLen
<1>1. /\ sr_inst_cnt \in Nat /\ sr_inst_cnt <= InstLen /\ spiAge \in {0, 1}
      /\ InstLen \in Nat /\ InstLen >= 2
    BY Sizes DEF FrontInv, FrontTypes, Bit
<1>2. Piped
    BY DEF FrontInv, Captured
<1>3. Stage \in 0..4 /\ (Stage = 4 <=> sr_inst_cnt_160M_sync = InstLen)
    BY DEF Stage
<1>4. sr_inst_cnt # InstLen => Stage = 0
    BY <1>2 DEF Stage, Piped
<1> QED
    BY <1>1, <1>3, <1>4 DEF Way

(* It gets at most one edge further with an edge, and the frame reset sends *)
(* it back.                                                                *)
LEMMA WayEdge ==
    ASSUME FrontInv, Front!Tick160
    PROVE  /\ Clears => Way' <= 1 /\ Way' \in Nat /\ sr_inst_cnt' # InstLen
           /\ Clears /\ (SPI_CS = 1 \/ csAge = 3) => Way' = 0
           /\ ~Clears => Way' <= Way + 1 /\ Way' \in Nat
           /\ ~Clears /\ sr_inst_cnt = InstLen =>
                Stage' = IF Stage < 4 THEN Stage + 1 ELSE 4
<1>1. /\ sr_inst_cnt \in Nat /\ sr_inst_cnt <= InstLen /\ spiAge \in {0, 1}
      /\ InstLen \in Nat /\ InstLen >= 2 /\ csAge \in Nat /\ SPI_CS \in {0, 1}
    BY Sizes DEF FrontInv, FrontTypes, Bit
<1>2. spiAge' = 1 /\ SPI_CS' = SPI_CS /\ (csAge' >= 5 => csAge >= 4) /\ csAge' \in Nat
    BY TickOf, Sizes, <1>1 DEF Older
<1>3. CASE Clears
  <2>1. sr_inst_cnt' = 0
      BY <1>3, ClearingTick
  <2>2. Way' = IF SPI_CS = 0 /\ csAge' >= 5 THEN 1 ELSE 0
      BY <2>1, <1>1, <1>2 DEF Way
  <2> QED
      BY <1>1, <1>2, <1>3, <2>1, <2>2
<1>4. CASE ~Clears
  <2>1. Piped
      BY DEF FrontInv, Captured
  <2>2. /\ sr_inst_cnt' = sr_inst_cnt
        /\ ar_inst_cnt_160M_1d' = sr_inst_cnt
        /\ sr_inst_cnt_160M_2d' = ar_inst_cnt_160M_1d
        /\ sr_inst_cnt_160M_3d' = sr_inst_cnt_160M_2d
        /\ sr_inst_cnt_160M_sync' = IF sr_inst_cnt_160M_2d = sr_inst_cnt_160M_3d
                                     THEN sr_inst_cnt_160M_3d ELSE sr_inst_cnt_160M_sync
      BY <1>4, PassingTick
  <2>3. sr_inst_cnt_160M_sync' = InstLen <=> sr_inst_cnt_160M_3d = InstLen
      BY <2>1, <2>2 DEF Piped
  <2>4. sr_inst_cnt = InstLen => Stage' = IF Stage < 4 THEN Stage + 1 ELSE 4
      BY <2>1, <2>2, <2>3 DEF Piped, Stage
  <2>5. sr_inst_cnt = InstLen => Way' = InstLen + Stage' /\ Way = InstLen + Stage
      BY <2>2 DEF Way
  <2>6. sr_inst_cnt # InstLen /\ sr_inst_cnt > 0 => Way' = sr_inst_cnt + 1 /\ Way >= sr_inst_cnt
      BY <2>2, <1>1, <1>2 DEF Way
  <2>7. sr_inst_cnt = 0 => Way' \in {0, 1}
      BY <2>2, <1>1 DEF Way
  <2> QED
      BY <1>1, <1>4, <2>4, <2>5, <2>6, <2>7, WayTypes
<1> QED
    BY <1>3, <1>4

(* The word is loaded at the end of its way, and goes with the frame.      *)
LEMMA ChkEdge ==
    ASSUME FrontInv, Front!Tick160
    PROVE  /\ Clears => sr_inst_chk' = Front!Zero
           /\ ~Clears /\ sr_inst_chk # Front!Zero => sr_inst_chk' = sr_inst_chk
           /\ ~Clears /\ sr_inst_chk = Front!Zero /\ Stage # 4 => sr_inst_chk' = Front!Zero
           /\ ~Clears /\ sr_inst_chk = Front!Zero /\ Stage = 4 =>
                /\ sr_inst_chk' = Front!SentWord /\ Len(sent) = InstLen
                /\ sr_inst_cnt = InstLen
<1>1. Stage = 4 <=> sr_inst_cnt_160M_sync = InstLen
    BY WayTypes
<1>2. Stage = 4 => /\ sr_inst_cnt = InstLen /\ sr_inst_sht_160M_2d = sr_inst_sht
                   /\ sr_inst_sht_160M_3d = sr_inst_sht
    BY <1>1 DEF FrontInv, Captured, Piped
<1>3. sr_inst_cnt = InstLen => InStep
    BY Sizes DEF FrontInv, Captured, Still
<1>4. ~Clears => sr_inst_chk' = IF sr_inst_cnt_160M_sync = InstLen
                                   /\ sr_inst_sht_160M_2d = sr_inst_sht_160M_3d
                                THEN sr_inst_sht_160M_3d ELSE sr_inst_chk
    BY PassingTick
<1>5. ~Clears /\ sr_inst_chk # Front!Zero => sr_inst_chk' = sr_inst_chk
    BY <1>4, WhenHeld
<1> QED
    BY <1>1, <1>2, <1>3, <1>4, <1>5, ClearingTick DEF InStep

(* The outputs after an edge: nothing held drives none.                    *)
LEMMA TrgEdge ==
    ASSUME FrontInv, Front!Tick160, RESET_N = 1
    PROVE  /\ sr_inst_chk = Front!Zero => TRG_PLS' = Low
           /\ sr_inst_chk # Front!Zero =>
                \A c \in Channels : TRG_PLS'[c] = IF Drive(c) THEN sr_trg_pls ELSE 0
           /\ TRG_PLS' \in [Channels -> Bit]
<1>1. TRG_PLS' = [c \in Channels |->
                 IF Front!Opcode(sr_inst_chk) \in CmdOf[c] THEN sr_trg_pls ELSE 0]
    BY RunningTick
<1>2. sr_inst_chk = Front!Zero => TRG_PLS' = Low
    BY <1>1, NoCommand DEF Low
<1>3. sr_inst_chk # Front!Zero =>
         \A c \in Channels : TRG_PLS'[c] = IF Drive(c) THEN sr_trg_pls ELSE 0
  <2>1. sr_inst_chk # Front!Zero => sr_inst_chk = Front!SentWord
      BY WhenHeld
  <2> QED
      BY <1>1, <2>1 DEF Drive
<1>4. sr_trg_pls \in Bit
    BY DEF FrontInv, FrontTypes
<1> QED
    BY <1>1, <1>2, <1>3, <1>4 DEF Bit

(* A held word moves on by one position; one that is no command stays.     *)
NextOf(p) == IF Hit /\ p < Last THEN p + 1 ELSE p

(* An edge takes the match and the pulse to the next position.             *)
LEMMA PlaceEdge ==
    ASSUME FrontInv, Front!Tick160, RESET_N = 1, ~Clears, sr_inst_chk # Front!Zero,
           NEW p \in 0..Last, Place(p), NEW q, q = NextOf(p)
    PROVE  Place(q)' /\ q \in 0..Last
<1>1. p \in Nat /\ p <= PlsTop + 6 /\ PlsTop \in Nat /\ PlsTop > 1
    BY Sizes DEF Last
<1>2. /\ Hit /\ p < PlsTop + 6 => q = p + 1
      /\ Hit /\ p = PlsTop + 6 => q = p
      /\ ~Hit => q = 0 /\ p = 0
      /\ q \in 0..Last
    BY <1>1 DEF NextOf, Last, Place
<1>3. /\ ar_inst_mch_n_1d = IF p >= 1 THEN 0 ELSE 1
      /\ sr_inst_mch_n_2d = IF p >= 2 THEN 0 ELSE 1
      /\ sr_inst_mch_n_3d = IF p >= 3 THEN 0 ELSE 1
      /\ sr_inst_edge_n = IF p = 3 THEN 0 ELSE 1
      /\ sr_pls_cnt = IF 4 <= p /\ p <= PlsTop + 3 THEN p - 4 ELSE PlsTop
      /\ sr_trg_pls = IF 5 <= p /\ p <= PlsTop + 4 THEN 1 ELSE 0
    BY DEF Place
<1>4. ar_inst_mch_n_1d' = IF Hit THEN 0 ELSE 1
  <2>1. sent # <<>> /\ sr_inst_chk = Front!SentWord
      BY WhenHeld
  <2>2. sr_win_sync = window
      BY <2>1 DEF FrontInv, Windowed, Passed
  <2>3. ar_inst_mch_n_1d' =
             IF \E c \in Channels : Front!InWindow(sr_inst_chk, c, sr_win_sync) THEN 0 ELSE 1
      BY PassingTick
  <2> QED
      BY <2>1, <2>2, <2>3 DEF Hit, Command
<1>5. /\ sr_inst_mch_n_2d' = ar_inst_mch_n_1d /\ sr_inst_mch_n_3d' = sr_inst_mch_n_2d
      /\ sr_inst_edge_n' = IF sr_inst_mch_n_2d = 0 /\ sr_inst_mch_n_3d = 1 THEN 0 ELSE 1
      /\ sr_pls_cnt' = IF sr_inst_edge_n = 0 THEN 0
                       ELSE IF sr_pls_cnt = PlsTop THEN sr_pls_cnt ELSE sr_pls_cnt + 1
      /\ sr_trg_pls' = IF sr_pls_cnt = PlsTop THEN 0 ELSE 1
    BY PassingTick, RunningTick
<1>6. /\ ar_inst_mch_n_1d' = IF q >= 1 THEN 0 ELSE 1
      /\ sr_inst_mch_n_2d' = IF q >= 2 THEN 0 ELSE 1
      /\ sr_inst_mch_n_3d' = IF q >= 3 THEN 0 ELSE 1
      /\ sr_inst_edge_n' = IF q = 3 THEN 0 ELSE 1
  <2>1. CASE Hit /\ p < PlsTop + 6
      BY <1>1, <1>2, <1>3, <1>4, <1>5, <2>1
  <2>2. CASE Hit /\ p = PlsTop + 6
      BY <1>1, <1>2, <1>3, <1>4, <1>5, <2>2
  <2>3. CASE ~Hit
      BY <1>2, <1>3, <1>4, <1>5, <2>3
  <2> QED
      BY <1>1, <2>1, <2>2, <2>3
<1>7. /\ sr_pls_cnt' = IF 4 <= q /\ q <= PlsTop + 3 THEN q - 4 ELSE PlsTop
      /\ sr_trg_pls' = IF 5 <= q /\ q <= PlsTop + 4 THEN 1 ELSE 0
  <2>1. CASE Hit /\ p < PlsTop + 6
      BY <1>1, <1>2, <1>3, <1>5, <2>1
  <2>2. CASE Hit /\ p = PlsTop + 6
      BY <1>1, <1>2, <1>3, <1>5, <2>2
  <2>3. CASE ~Hit
      BY <1>1, <1>2, <1>3, <1>5, <2>3
  <2> QED
      BY <1>1, <2>1, <2>2, <2>3
<1>8. ASSUME NEW c \in Channels
      PROVE  TRG_PLS'[c] = 1 <=> 6 <= q /\ q <= PlsTop + 5 /\ Drive(c)
  <2>1. TRG_PLS'[c] = 1 <=> Drive(c) /\ sr_trg_pls = 1
      BY <1>3, TrgEdge
  <2>2. sr_trg_pls = 1 <=> 5 <= p /\ p <= PlsTop + 4
      BY <1>3
  <2>3. 5 <= p /\ p <= PlsTop + 4 <=> 6 <= q /\ q <= PlsTop + 5
      BY <1>1, <1>2 DEF Place
  <2> QED
      BY <2>1, <2>2, <2>3
<1>9. q > 0 => Hit
    BY <1>2
<1>10. (Hit' <=> Hit) /\ \A c \in Channels : Drive(c)' <=> Drive(c)
    BY SameWord, TickOf
<1> QED
    BY <1>2, <1>6, <1>7, <1>8, <1>9, <1>10 DEF Place
-----------------------------------------------------------------------------
(* What an edge of CLK160M does, as the CLK100M half sees it               *)

(* The record that is kept of the front end.                               *)
LEMMA PhaseOf ==
    ASSUME FrontMoves
    PROVE  /\ Loaded /\ TRG_PLS' = TRG_PLS =>
                phase' = "held" /\ held' = Front!AddrOf(Front!SentWord)
           /\ ~Loaded => held' = held
           /\ Gone => phase' = IF TRG_PLS' = Low THEN "clear" ELSE "cut"
           /\ ~Loaded /\ ~Gone =>
                phase' = IF Rises THEN "pulse"
                         ELSE IF Falls THEN IF phase = "cut" THEN "clear" ELSE "after"
                         ELSE phase
<1>1. phase' = CASE Loaded -> "held"
                 [] Gone -> IF TRG_PLS' = Low THEN "clear" ELSE "cut"
                 [] Rises /\ ~Gone -> "pulse"
                 [] Falls /\ ~Gone -> IF phase = "cut" THEN "clear" ELSE "after"
                 [] OTHER -> phase
    BY DEF FrontMoves
<1>2. held' = IF Loaded THEN Front!AddrOf(Front!SentWord) ELSE held
    BY DEF FrontMoves
<1>3. ~(Loaded /\ Gone) /\ ~(Rises /\ Falls)
    BY DEF Loaded, Gone, Rises, Falls
<1>4. TRG_PLS' = TRG_PLS => ~Rises /\ ~Falls
    BY DEF Rises, Falls
<1> QED
    BY <1>1, <1>2, <1>3, <1>4

(* The page beside it.                                                     *)
LEMMA PageOf ==
    ASSUME FrontMoves
    PROVE  /\ sr_inst_chk' = sr_inst_chk => PAGE_ADDR' = PageOut
           /\ sr_inst_chk' = Front!Zero => PAGE_ADDR' = NoPage
           /\ sr_inst_chk' = Front!SentWord => PAGE_ADDR' = Front!AddrOf(Front!SentWord)
<1>1. PAGE_ADDR' = (Front!AddrOf(sr_inst_chk))'
    BY DEF FrontMoves, PageOut
<1>2. PAGE_ADDR' = Front!Slice(sr_inst_chk', 0, InstLen - OpLen)
    BY <1>1 DEF Front!AddrOf, Front!AddrLen, Front!Slice
<1>3. ASSUME NEW w PROVE Front!AddrOf(w) = Front!Slice(w, 0, InstLen - OpLen)
    BY DEF Front!AddrOf, Front!AddrLen
<1> QED
    BY <1>2, <1>3, NoCommand DEF PageOut

(* The outputs are up for a command, at its positions, or all low.         *)
LEMMA LevelOf ==
    ASSUME NEW t \in [Channels -> Bit], NEW on \in BOOLEAN, on => Hit,
           \A c \in Channels : t[c] = 1 <=> on /\ Drive(c)
    PROVE  t = Low <=> ~on
<1>1. on => \E c \in Channels : Drive(c)
    BY OneClass
<1>2. on => t # Low
    BY <1>1, LowType
<1>3. ~on => \A c \in Channels : t[c] = Low[c]
    BY LowType DEF Bit
<1> QED
    BY <1>2, <1>3, LowType

(* No instruction, none comes.                                             *)
IdleMove ==
    /\ phase = "clear" /\ phase' = "clear" /\ held' = held /\ PAGE_ADDR' = PAGE_ADDR
    /\ sr_inst_chk = Front!Zero /\ sr_inst_chk' = Front!Zero
    /\ TRG_PLS = Low /\ TRG_PLS' = Low
    /\ (~Clears /\ sr_inst_cnt = InstLen /\ Hit => Stage # 4)
(* A word is loaded.                                                       *)
LoadMove ==
    /\ phase = "clear" /\ phase' = "held" /\ ~Clears
    /\ held' = Front!AddrOf(Front!SentWord) /\ PAGE_ADDR' = Front!AddrOf(Front!SentWord)
    /\ sr_inst_chk = Front!Zero /\ sr_inst_chk' # Front!Zero
    /\ TRG_PLS = Low /\ TRG_PLS' = Low
    /\ sr_inst_cnt = InstLen /\ Stage = 4 /\ Front!Complete
(* The pulse of a word that is held moves on from p to q.                  *)
PulseMove(p, q) ==
    /\ At(p) /\ q = NextOf(p) /\ Place(q)' /\ phase' = PhaseAt(q) /\ ~Clears
    /\ held' = held /\ PAGE_ADDR' = PAGE_ADDR
    /\ sr_inst_chk # Front!Zero /\ sr_inst_chk' = sr_inst_chk
    /\ TRG_PLS = Low <=> ~(6 <= p /\ p <= PlsTop + 5)
    /\ TRG_PLS' = Low <=> ~(6 <= q /\ q <= PlsTop + 5)
(* The next frame clears the word, in position p.                          *)
ClearMove(p) ==
    /\ At(p) /\ phase' = (IF TRG_PLS' = Low THEN "clear" ELSE "cut") /\ Clears
    /\ held' = held /\ PAGE_ADDR' = NoPage
    /\ sr_inst_chk # Front!Zero /\ sr_inst_chk' = Front!Zero
    /\ SPI_CS = 0 /\ csAge = 3 /\ fresh
    /\ TRG_PLS = Low <=> ~(6 <= p /\ p <= PlsTop + 5)
    /\ TRG_PLS' = Low <=> ~(5 <= p /\ p <= PlsTop + 4)
    /\ \A c \in Channels : TRG_PLS'[c] = 1 <=> 5 <= p /\ p <= PlsTop + 4 /\ Drive(c)
(* The pulse that the next frame cut ends.                                 *)
CutMove ==
    /\ phase = "cut" /\ phase' = "clear" /\ Clears
    /\ held' = held /\ PAGE_ADDR' = PAGE_ADDR
    /\ sr_inst_chk = Front!Zero /\ sr_inst_chk' = Front!Zero
    /\ TRG_PLS # Low /\ TRG_PLS' = Low

(* An edge of CLK160M does one of five things to the held word.            *)
LEMMA MoveOf ==
    ASSUME TopInv, FrontEdge, RESET_N = 1
    PROVE  \/ IdleMove \/ LoadMove \/ CutMove
           \/ \E p \in 0..Last, q \in 0..Last : PulseMove(p, q)
           \/ \E p \in 0..Last : ClearMove(p)
<1>0. /\ FrontInv /\ Front!Tick160 /\ FrontMoves /\ InClear /\ InCut /\ InHeld /\ PageKept
      /\ TRG_PLS \in [Channels -> Bit]
      /\ phase \in {"clear", "held", "pulse", "after", "cut"}
    BY DEF TopInv, PulseInv, FrontEdge, RegInv, RegTypeOK, CntTypeOK
<1>1. PAGE_ADDR = PageOut /\ (sr_inst_chk = Front!Zero => PageOut = NoPage)
    BY <1>0, NoCommand DEF PageKept, PageOut
<1>2. TRG_PLS' \in [Channels -> Bit]
    BY <1>0, TrgEdge
<1>3. CASE phase = "clear"
  <2>1. sr_inst_chk = Front!Zero /\ TRG_PLS = Low /\ TRG_PLS' = Low
      BY <1>0, <1>3, TrgEdge DEF InClear
  <2>2. CASE sr_inst_chk' = Front!Zero
    <3>1. ~Loaded /\ ~Gone /\ ~Rises /\ ~Falls
        BY <2>1, <2>2 DEF Loaded, Gone, Rises, Falls
    <3>2. phase' = "clear" /\ held' = held /\ PAGE_ADDR' = PAGE_ADDR
        BY <1>0, <1>1, <1>3, <2>1, <2>2, <3>1, PhaseOf, PageOf
    <3>3. ~Clears /\ sr_inst_cnt = InstLen /\ Hit => Stage # 4
      <4>1. ASSUME ~Clears, Stage = 4, Hit PROVE FALSE
        <5>1. Front!SentWord = Front!Zero
            BY <1>0, <2>1, <2>2, <4>1, ChkEdge
        <5>2. \E c \in Channels : Front!Opcode(Front!Zero) \in CmdOf[c]
            BY <4>1, <5>1, OneClass DEF Drive
        <5> QED
            BY <5>2, NoCommand
      <4> QED
          BY <4>1
    <3> QED
        BY <1>3, <2>1, <2>2, <3>2, <3>3 DEF IdleMove
  <2>3. CASE sr_inst_chk' # Front!Zero
    <3>1. Loaded
        BY <2>1, <2>3 DEF Loaded
    <3>2. /\ ~Clears /\ Stage = 4 /\ sr_inst_chk' = Front!SentWord
          /\ Len(sent) = InstLen /\ sr_inst_cnt = InstLen
        BY <1>0, <2>1, <2>3, ChkEdge
    <3>3. phase' = "held" /\ held' = Front!AddrOf(Front!SentWord)
          /\ PAGE_ADDR' = Front!AddrOf(Front!SentWord)
        BY <1>0, <2>1, <3>1, <3>2, PhaseOf, PageOf
    <3> QED
        BY <1>3, <2>1, <2>3, <3>2, <3>3 DEF LoadMove, Front!Complete
  <2> QED
      BY <2>2, <2>3
<1>4. CASE phase = "cut"
  <2>1. /\ sr_inst_chk = Front!Zero /\ SPI_CS = 0 /\ csAge = 4 /\ Hit
        /\ \A c \in Channels : TRG_PLS[c] = 1 <=> Drive(c)
      BY <1>0, <1>4 DEF InCut
  <2>2. Clears
      BY <1>0, <2>1, WhenCleared
  <2>3. sr_inst_chk' = Front!Zero /\ TRG_PLS' = Low
      BY <1>0, <2>1, <2>2, ChkEdge, TrgEdge
  <2>4. TRG_PLS # Low
      BY <1>0, <2>1, LevelOf
  <2>5. ~Loaded /\ ~Gone /\ ~Rises /\ Falls
      BY <2>1, <2>3, <2>4 DEF Loaded, Gone, Rises, Falls
  <2>6. phase' = "clear" /\ held' = held /\ PAGE_ADDR' = PAGE_ADDR
      BY <1>0, <1>1, <1>4, <2>1, <2>3, <2>5, PhaseOf, PageOf
  <2> QED
      BY <1>4, <2>1, <2>2, <2>3, <2>4, <2>6 DEF CutMove
<1>5. CASE phase \in {"held", "pulse", "after"}
  <2>1. sr_inst_chk # Front!Zero
      BY <1>0, <1>5 DEF InHeld
  <2>2. PICK p \in 0..Last : At(p)
      BY <1>0, <2>1 DEF InHeld
  <2>3. /\ p \in Nat /\ p <= PlsTop + 6 /\ PlsTop \in Nat /\ PlsTop > 1
        /\ Place(p) /\ phase = PhaseAt(p)
      BY <2>2, Sizes DEF Last, At
  <2>4. TRG_PLS = Low <=> ~(6 <= p /\ p <= PlsTop + 5)
    <3>1. 6 <= p /\ p <= PlsTop + 5 => Hit
        BY <2>3 DEF Place
    <3>2. \A c \in Channels : TRG_PLS[c] = 1 <=> (6 <= p /\ p <= PlsTop + 5) /\ Drive(c)
        BY <2>3 DEF Place
    <3> QED
        BY <1>0, <3>1, <3>2, LevelOf
  <2>5. CASE Clears
    <3>1. SPI_CS = 0 /\ csAge = 3 /\ fresh
      <4>1. PTMCH_RST_N = 1
          BY <1>0, <2>1, WhenHeld
      <4>2. SPI_CS = 0 /\ csAge = 3
          BY <1>0, <2>5, <4>1 DEF Clears, FrontInv, Bus, CsWay
      <4> QED
          BY <1>0, <4>2 DEF FrontInv, Bus
    <3>2. sr_inst_chk' = Front!Zero
        BY <1>0, <2>5, ChkEdge
    <3>3. \A c \in Channels : TRG_PLS'[c] = 1 <=> (5 <= p /\ p <= PlsTop + 4) /\ Drive(c)
        BY <1>0, <2>1, <2>3, TrgEdge DEF Place
    <3>4. 5 <= p /\ p <= PlsTop + 4 => Hit
        BY <2>3 DEF Place
    <3>5. TRG_PLS' = Low <=> ~(5 <= p /\ p <= PlsTop + 4)
        BY <1>2, <3>3, <3>4, LevelOf
    <3>6. ~Loaded /\ Gone
        BY <2>1, <3>2 DEF Loaded, Gone
    <3>7. phase' = (IF TRG_PLS' = Low THEN "clear" ELSE "cut") /\ held' = held
          /\ PAGE_ADDR' = NoPage
        BY <1>0, <3>2, <3>6, PhaseOf, PageOf
    <3>8. ClearMove(p)
        BY <2>1, <2>2, <2>4, <2>5, <3>1, <3>2, <3>3, <3>5, <3>7 DEF ClearMove
    <3> QED
        BY <3>8
  <2>6. CASE ~Clears
    <3>0. NextOf(p) \in 0..Last
        BY <2>3 DEF NextOf, Last
    <3>a. PICK q \in 0..Last : q = NextOf(p)
        BY <3>0
    <3>1. Place(q)' /\ q \in 0..Last
        BY <1>0, <2>1, <2>2, <2>3, <2>6, <3>a, PlaceEdge
    <3>2. sr_inst_chk' = sr_inst_chk
        BY <1>0, <2>1, <2>6, ChkEdge
    <3>3. (Hit' <=> Hit) /\ \A c \in Channels : Drive(c)' <=> Drive(c)
        BY <1>0, SameWord, TickOf
    <3>4. q \in Nat /\ (q > 0 => Hit)
        BY <3>1, <3>3, <2>3 DEF Place, Last
    <3>5. \A c \in Channels : TRG_PLS'[c] = 1 <=> (6 <= q /\ q <= PlsTop + 5) /\ Drive(c)
        BY <3>1, <3>3 DEF Place
    <3>6. TRG_PLS' = Low <=> ~(6 <= q /\ q <= PlsTop + 5)
      <4>1. 6 <= q /\ q <= PlsTop + 5 => Hit
          BY <3>4
      <4> QED
          BY <1>2, <3>5, <4>1, LevelOf
    <3>7. ~Loaded /\ ~Gone
        BY <2>1, <3>2 DEF Loaded, Gone
    <3>8. \/ q = p + 1 /\ p < PlsTop + 6
          \/ q = p /\ p = PlsTop + 6
          \/ q = p /\ p = 0
        BY <2>3, <3>a DEF NextOf, Last, Place
    <3>9. phase' = PhaseAt(q)
      <4>1. phase' = IF Rises THEN "pulse"
                     ELSE IF Falls THEN IF phase = "cut" THEN "clear" ELSE "after"
                     ELSE phase
          BY <1>0, <3>7, PhaseOf
      <4>2. Rises <=> p = 5 /\ q = 6
          BY <2>3, <2>4, <3>6, <3>8 DEF Rises
      <4>3. Falls <=> p = PlsTop + 5 /\ q = PlsTop + 6
          BY <2>3, <2>4, <3>6, <3>8 DEF Falls
      <4> QED
          BY <1>5, <2>3, <3>8, <4>1, <4>2, <4>3 DEF PhaseAt
    <3>10. held' = held /\ PAGE_ADDR' = PAGE_ADDR
        BY <1>0, <1>1, <3>2, <3>7, PhaseOf, PageOf
    <3>12. PulseMove(p, q)
        BY <2>1, <2>2, <2>4, <2>6, <3>1, <3>2, <3>6, <3>9, <3>10, <3>a DEF PulseMove
    <3> QED
        BY <3>1, <3>12
  <2> QED
      BY <2>5, <2>6
<1> QED
    BY <1>0, <1>3, <1>4, <1>5
-----------------------------------------------------------------------------
(* The time, at an edge of CLK160M                                         *)

Edge160 == FrontTick \/ BothTick

(* What TopInv says of the numbers.                                        *)
LEMMA TopTypes ==
    ASSUME TopInv
    PROVE  /\ skew \in Int /\ -5 <= skew /\ skew <= 8
           /\ doneAge \in Nat /\ DoneTop \in Nat /\ doneAge <= DoneTop
           /\ frames \in Nat /\ highAge \in 0..3 /\ lowAge \in 0..6 /\ phaseAge \in Nat
           /\ \A c \in Channels : watched[c] \in Nat /\ hurried[c] \in Nat /\ seen[c] \in Nat
           /\ PlsTop \in Nat /\ PlsTop >= 5 /\ FrameGap \in Nat /\ FrameGap >= 10
           /\ PageGap \in Nat /\ AgeTop \in Nat /\ PageGap <= AgeTop /\ 3 <= AgeTop
           /\ DoneTop >= FrameGap + PlsTop /\ DoneTop > PlsTop + 10
           /\ TRG_PLS \in [Channels -> Bit] /\ bus = Idle
<1>1. TallyTypes /\ RegTypeOK /\ CntTypeOK /\ TimesAssumed
    BY DEF TopInv, PulseInv, RegInv, RegTypeOK
<1>2. /\ skew \in (-5)..8 /\ doneAge \in 0..DoneTop /\ frames \in 0..MaxFrames
      /\ watched \in [Channels -> Nat] /\ hurried \in [Channels -> Nat] /\ bus = Idle
    BY <1>1 DEF TallyTypes
<1>3. DoneTop \in Nat /\ DoneTop >= FrameGap + PlsTop /\ DoneTop > PlsTop + 10
    BY <1>1, Sizes DEF TimesAssumed, DoneTop
<1>4. highAge \in 0..3 /\ lowAge \in 0..6 /\ seen \in [Channels -> Nat]
      /\ TRG_PLS \in [Channels -> Bit]
    BY <1>1 DEF CntTypeOK, HighTop, Quiet
<1>5. phaseAge \in 0..AgeTop /\ PageLead = 3 /\ PlsTop >= 5 /\ FrameGap >= 10
    BY <1>1 DEF RegTypeOK, TimesAssumed
<1> QED
    BY <1>2, <1>3, <1>4, <1>5, Sizes, RegConstants

(* While RESET_N is low nothing goes on.                                   *)
LEMMA WhenDark ==
    ASSUME TopInv, RESET_N = 0
    PROVE  /\ phase = "clear" /\ TRG_PLS = Low /\ highAge = 0 /\ sent = <<>> /\ ~fresh
           /\ SPI_CS = 1 /\ sr_inst_cnt = 0 /\ sr_inst_chk = Front!Zero /\ Way = 0
           /\ ~Front!Complete /\ \A c \in Channels : ~Open(c)
<1>1. phase = "clear" /\ TRG_PLS = Low /\ highAge = 0
    BY DEF TopInv, RegInv, LogInv, Blank, CntInv, Cleared
<1>2. SPI_CS = 1 /\ sent = <<>> /\ ~fresh /\ PTMCH_RST_N = 0
    BY DEF TopInv, FrontInv, Dark
<1>3. sr_inst_cnt = 0 /\ sr_inst_chk = Front!Zero
    BY <1>2 DEF TopInv, FrontInv, Captured, Still
<1>4. Way = 0 /\ ~Front!Complete
    BY <1>2, <1>3, Sizes DEF Way, Front!Complete
<1> QED
    BY <1>1, <1>2, <1>3, <1>4 DEF Open

(* The edge: eight units for each edge of CLK100M, five for one of         *)
(* CLK160M.  A coinciding edge of CLK100M is one of the new page.          *)
LEMMA TurnOf ==
    ASSUME TopInv, Edge160, phase' # phase \/ PAGE_ADDR' = PAGE_ADDR
    PROVE  /\ FrontEdge /\ 0 <= skew /\ skew' \in (-5)..8 /\ skew' <= 3
           /\ phase' = phase => phaseAge' = phaseAge /\ skew' = skew - 5
           /\ phase' # phase => phaseAge' = 0 \/ (phaseAge' = 1 /\ skew' = 3 /\ phase' # "held")
           /\ doneAge' = IF Done THEN Older(doneAge, DoneTop) ELSE doneAge
           /\ UNCHANGED <<RESET_N, watched, hurried, frames>>
<1>1. skew \in Int /\ skew <= 8
    BY TopTypes
<1>2. RESET_N' = RESET_N
    BY TickOf DEF Edge160, FrontTick, BothTick, FrontEdge
<1>3. CASE FrontTick
    BY <1>1, <1>2, <1>3 DEF FrontTick, FrontEdge, Period160, tally
<1>4. CASE BothTick
  <2>1. skew = 0 /\ skew' = 3 /\ phase' # phase
      BY <1>4 DEF BothTick, Period100, Period160
  <2> QED
      BY <1>2, <1>4, <2>1 DEF BothTick, FrontEdge, tally
<1> QED
    BY <1>3, <1>4 DEF Edge160

(* The sample that goes with it, where one does.                           *)
LEMMA SampleOf ==
    ASSUME TopInv, RESET_N = 1, NEW p, RegEdge(p)
    PROVE  /\ lowAge' > 0 => highAge' = 0
           /\ TRG_PLS = Low => highAge' = 0 /\ seen' = seen
           /\ TRG_PLS # Low =>
                /\ highAge' = IF highAge < 3 THEN highAge + 1 ELSE highAge
                /\ \A c \in Channels :
                     seen'[c] = IF highAge = 1 /\ Up(c) THEN seen[c] + 1 ELSE seen[c]
           /\ bus' = Idle /\ window' = window
<1>1. RegTypeOK /\ highAge \in 0..3 /\ bus = Idle /\ window = Front!ResetWindows
    BY TopTypes DEF TopInv, RegInv, FrontInv, FrontTypes
<1>2. ~REG_WAITREQUEST /\ \A r : ~Writes(r)
    BY <1>1 DEF REG_WAITREQUEST, Writes, Idle
<1>3. bus' = Idle
    BY <1>2 DEF RegEdge, RegClock
<1>4. window' = [c \in Channels |-> [s \in Sides |-> window[c][s]]]
  <2>1. window' = [c \in Channels |-> [s \in Sides |->
                     IF Writes(<<"window", c, s>>) THEN bus.op.data ELSE window[c][s]]]
      BY DEF RegEdge, PortEdge
  <2> QED
      BY <1>2, <2>1
<1>5. window' = window
    BY <1>1, <1>4, WindowsFixed
<1>6. lowAge \in 0..6 /\ (lowAge > 0 => highAge = 0)
    BY TopTypes DEF TopInv, PulseInv, Tallied
<1> QED
    BY <1>1, <1>3, <1>5, TimeOf DEF HighTop, Older, RegTypeOK, CntTypeOK

(* The age of the pulse at an edge of CLK160M.                             *)
LEMMA AgeOf ==
    ASSUME TopInv, Edge160, RESET_N = 1
    PROVE  /\ highAge' \in 0..3 /\ (lowAge' > 0 => highAge' = 0)
           /\ TRG_PLS # Low => highAge' = 3 \/ 8 * highAge' = 8 * highAge + 5 + skew' - skew
           /\ TRG_PLS = Low => highAge' \in {0, highAge} /\ seen' = seen
           /\ PAGE_ADDR' = PAGE_ADDR => highAge' = highAge /\ seen' = seen
           /\ TRG_PLS' # TRG_PLS => highAge' = highAge /\ seen' = seen
           /\ bus' = Idle
<1>1. skew \in Int /\ highAge \in 0..3 /\ (lowAge > 0 => highAge = 0) /\ bus = Idle
    BY TopTypes DEF TopInv, PulseInv, Tallied
<1>2. CASE FrontTick
    BY <1>1, <1>2 DEF FrontTick, Period160, backRegs
<1>3. CASE BothTick
  <2>1. skew = 0 /\ skew' = 3 /\ PAGE_ADDR' # PAGE_ADDR /\ TRG_PLS' = TRG_PLS
      BY <1>3 DEF BothTick, Period100, Period160
  <2>2. PICK w \in Torn(PAGE_ADDR, PAGE_ADDR') : RegEdge(w)
      BY <1>3 DEF BothTick
  <2>3. /\ lowAge' > 0 => highAge' = 0
        /\ TRG_PLS = Low => highAge' = 0 /\ seen' = seen
        /\ TRG_PLS # Low => highAge' = IF highAge < 3 THEN highAge + 1 ELSE highAge
        /\ bus' = Idle
      BY <2>2, SampleOf
  <2> QED
      BY <1>1, <2>1, <2>3
<1> QED
    BY <1>2, <1>3 DEF Edge160
-----------------------------------------------------------------------------
(* What an edge of CLK160M keeps                                           *)

(* A command may still be counted, after a step that leaves the word.      *)
LEMMA OpenNext ==
    ASSUME sent' = sent, window' = window, NEW c \in Channels
    PROVE  Open(c)' <=> /\ Front!Complete /\ Command(c)
                        /\ \/ phase' = "clear" /\ sr_inst_cnt' = InstLen
                           \/ phase' = "held"
                           \/ phase' \in {"pulse", "cut"} /\ highAge' <= 1
<1>1. (Front!Complete' <=> Front!Complete) /\ (Command(c)' <=> Command(c))
    BY SameWord
<1> QED
    BY <1>1 DEF Open

(* The tally balances when each command stays as it is, is lost and was    *)
(* not owed, or is counted.                                                *)
LEMMA TallyKept ==
    ASSUME TopInv, UNCHANGED <<sent, fresh, window, watched, hurried, frames>>,
           lowAge' > 0 => highAge' = 0, ~Done => doneAge' = doneAge,
           \A c \in Channels :
              \/ seen'[c] = seen[c] /\ (Open(c)' <=> Open(c))
              \/ seen'[c] = seen[c] /\ ~Open(c)' /\ ~Owed(c)
              \/ seen'[c] = seen[c] + 1 /\ Open(c) /\ ~Open(c)'
    PROVE  Tallied'
<1>1. Front!Complete' <=> Front!Complete
    BY SameWord
<1>2. ~fresh' /\ ~Front!Complete' => doneAge' = 0
    BY <1>1 DEF TopInv, PulseInv, Tallied, Done
<1>3. fresh => doneAge' = doneAge
    BY DEF Done
<1>4. ASSUME NEW c \in Channels
      PROVE  /\ watched'[c] <= frames'
             /\ fresh' \/ (sent' # <<>> /\ ~Front!Complete') => watched'[c] < frames'
             /\ Open(c)' => seen'[c] < watched'[c]
             /\ seen'[c] <= watched'[c]
             /\ watched'[c] <= seen'[c] + hurried'[c] + 1
             /\ ~Owed(c)' => watched'[c] <= seen'[c] + hurried'[c]
  <2>1. watched[c] \in Nat /\ hurried[c] \in Nat /\ seen[c] \in Nat /\ frames \in Nat
      BY TopTypes
  <2>2. /\ watched[c] <= frames
        /\ fresh \/ (sent # <<>> /\ ~Front!Complete) => watched[c] < frames
        /\ Open(c) => seen[c] < watched[c]
        /\ seen[c] <= watched[c]
        /\ watched[c] <= (seen[c] + hurried[c]) + 1
        /\ ~Owed(c) => watched[c] <= seen[c] + hurried[c]
      BY DEF TopInv, PulseInv, Tallied
  <2>3. Open(c)' /\ Owed(c) => Owed(c)'
      BY <1>3 DEF Owed
  <2>4. ~Open(c)' => ~Owed(c)'
      BY DEF Owed
  <2>5. ~Open(c) => ~Owed(c)
      BY DEF Owed
  <2>6. CASE seen'[c] = seen[c] /\ (Open(c)' <=> Open(c))
      BY <1>1, <2>1, <2>2, <2>3, <2>5, <2>6
  <2>7. CASE seen'[c] = seen[c] /\ ~Open(c)' /\ ~Owed(c)
      BY <1>1, <2>1, <2>2, <2>7
  <2>8. CASE seen'[c] = seen[c] + 1 /\ Open(c) /\ ~Open(c)'
      BY <1>1, <2>1, <2>2, <2>8
  <2> QED
      BY <2>6, <2>7, <2>8
<1> QED
    BY <1>2, <1>4 DEF Tallied

(* What every edge leaves, and the age of a complete frame.                *)
LEMMA EdgeOfTop ==
    ASSUME TopInv, FrontEdge
    PROVE  /\ FrontInv /\ FrontInv' /\ Front!Tick160 /\ FrontMoves
           /\ UNCHANGED <<RESET_N, SPI_CS, window, sent, fresh>>
           /\ csAge' = Older(csAge, CsSetup) /\ csAge \in Nat
           /\ doneAge' = IF Done THEN Older(doneAge, DoneTop) ELSE doneAge
           /\ doneAge' \in Nat /\ doneAge' <= DoneTop
           /\ (doneAge' = doneAge \/ doneAge' = doneAge + 1)
           /\ fresh => doneAge' = doneAge
           /\ PAGE_ADDR' = PageOut'
<1>1. FrontInv /\ Front!Tick160 /\ FrontMoves
    BY DEF TopInv, FrontEdge
<1>2. doneAge' = IF Done THEN Older(doneAge, DoneTop) ELSE doneAge
    BY DEF FrontEdge
<1>3. doneAge \in Nat /\ DoneTop \in Nat /\ doneAge <= DoneTop
    BY TopTypes
<1>4. csAge \in Nat
    BY <1>1, Sizes DEF FrontInv, FrontTypes
<1> QED
    BY <1>1, <1>2, <1>3, <1>4, TickOf, EdgeFrontInv DEF Older, Done, FrontMoves

(* With no word held the comparators match nothing.                        *)
LEMMA NoMatch ==
    ASSUME TopInv, Front!Tick160, RESET_N = 1, sr_inst_chk = Front!Zero
    PROVE  /\ ar_inst_mch_n_1d' = 1 /\ sr_inst_mch_n_2d' = 1 /\ sr_inst_mch_n_3d' = 1
           /\ sr_inst_edge_n' = 1
<1>1. ar_inst_mch_n_1d = 1 /\ sr_inst_mch_n_2d = 1 /\ sr_inst_mch_n_3d = 1
    BY DEF TopInv, PulseInv, InHeld
<1>2. sr_inst_edge_n' = 1
    BY <1>1, RunningTick
<1>3. CASE Clears
    BY <1>2, <1>3, ClearingTick
<1>4. CASE ~Clears
  <2>1. ar_inst_mch_n_1d' =
          IF \E c \in Channels : Front!InWindow(sr_inst_chk, c, sr_win_sync) THEN 0 ELSE 1
      BY <1>4, PassingTick
  <2>2. ~\E c \in Channels : Front!InWindow(sr_inst_chk, c, sr_win_sync)
      BY NoCommand DEF Front!InWindow
  <2> QED
      BY <1>1, <1>2, <1>4, <2>1, <2>2, PassingTick
<1> QED
    BY <1>3, <1>4

(* No instruction, and none comes.                                         *)
LEMMA IdleTurn ==
    ASSUME TopInv, Edge160, RESET_N = 1, IdleMove
    PROVE  InClear' /\ InCut' /\ InHeld' /\ PageKept' /\ Tallied'
<1>1. /\ phase = "clear" /\ phase' = "clear" /\ PAGE_ADDR' = PAGE_ADDR
      /\ sr_inst_chk = Front!Zero /\ sr_inst_chk' = Front!Zero
      /\ TRG_PLS = Low /\ TRG_PLS' = Low
      /\ (~Clears /\ sr_inst_cnt = InstLen /\ Hit => Stage # 4)
    BY DEF IdleMove
<1>2. FrontEdge /\ phaseAge' = phaseAge /\ skew' = skew - 5
      /\ UNCHANGED <<RESET_N, watched, hurried, frames>>
    BY <1>1, TurnOf
<1>3. highAge' = highAge /\ seen' = seen /\ (lowAge' > 0 => highAge' = 0)
    BY <1>1, AgeOf
<1>4. /\ FrontInv /\ FrontInv' /\ Front!Tick160 /\ UNCHANGED <<window, sent, fresh>>
      /\ (doneAge' = doneAge \/ doneAge' = doneAge + 1) /\ doneAge \in Nat
      /\ (~Done => doneAge' = doneAge) /\ PAGE_ADDR' = PageOut'
    BY <1>2, EdgeOfTop, TopTypes
<1>5. /\ Way' <= Way + 1 /\ Way' \in Nat /\ Way \in Nat /\ Stage \in 0..4
      /\ Clears => sr_inst_cnt' # InstLen
      /\ ~Clears => sr_inst_cnt' = sr_inst_cnt
      /\ ~Clears /\ sr_inst_cnt = InstLen => Stage' = IF Stage < 4 THEN Stage + 1 ELSE 4
    BY <1>1, <1>4, PassingTick, WayEdge, WayTypes
<1>6. /\ ar_inst_mch_n_1d' = 1 /\ sr_inst_mch_n_2d' = 1 /\ sr_inst_mch_n_3d' = 1
      /\ sr_inst_edge_n' = 1
    BY <1>1, <1>4, NoMatch
<1>7. /\ phaseAge >= PageGap \/ 8 * phaseAge >= skew + 5 * Way - 8
      /\ sr_inst_edge_n = 0 => Way = 0
      /\ sr_pls_cnt < PlsTop => Way <= sr_pls_cnt + 1
      /\ sr_inst_cnt = InstLen /\ Hit => doneAge <= Stage
    BY <1>1 DEF TopInv, PulseInv, InClear
<1>8. phaseAge' >= PageGap \/ 8 * phaseAge' >= skew' + 5 * Way' - 8
    BY <1>2, <1>5, <1>7, TopTypes
<1>9. sr_pls_cnt' < PlsTop => Way' <= sr_pls_cnt' + 1
  <2>1. sr_pls_cnt' = IF sr_inst_edge_n = 0 THEN 0
                      ELSE IF sr_pls_cnt = PlsTop THEN sr_pls_cnt ELSE sr_pls_cnt + 1
      BY <1>4, RunningTick
  <2>2. sr_pls_cnt \in Nat /\ sr_pls_cnt <= PlsTop /\ PlsTop \in Nat
      BY <1>4, Sizes DEF FrontInv, FrontTypes
  <2> QED
      BY <1>5, <1>7, <2>1, <2>2
<1>10. sr_inst_cnt' = InstLen /\ Hit' => doneAge' <= Stage'
  <2>1. Hit' <=> Hit
      BY <1>4, SameWord
  <2> QED
      BY <1>1, <1>4, <1>5, <1>7, <2>1
<1>11. InClear'
    BY <1>1, <1>6, <1>8, <1>9, <1>10, ZeroFixed DEF InClear
<1>12. InCut' /\ InHeld'
    BY <1>1, <1>6, ZeroFixed DEF InCut, InHeld
<1>13. PageKept'
    BY <1>1, <1>4, ZeroFixed DEF PageKept
<1>14. ASSUME NEW c \in Channels
       PROVE  (Open(c)' <=> Open(c)) \/ (~Open(c)' /\ ~Owed(c))
  <2>1. CASE ~Clears
      BY <1>1, <1>4, <1>5, <2>1, OpenNext DEF Open
  <2>2. CASE Clears
    <3>1. ~Open(c)'
        BY <1>1, <1>4, <1>5, <2>2, OpenNext
    <3>2. ASSUME Owed(c) PROVE FALSE
      <4>1. Open(c) /\ sr_inst_cnt = InstLen /\ Hit
          BY <1>1, <3>2 DEF Owed, Open, Hit
      <4>2. PTMCH_RST_N = 1
          BY <1>4, <4>1, Sizes DEF FrontInv, FrontTypes, Captured, Still, Bit
      <4>3. SPI_CS = 0 /\ csAge = 3
          BY <1>4, <2>2, <4>2 DEF Clears, FrontInv, Bus, CsWay
      <4>4. fresh
          BY <1>4, <4>3 DEF FrontInv, Bus
      <4>5. doneAge >= 10
          BY <3>2, <4>4, TopTypes DEF Owed
      <4> QED
          BY <1>4, <1>5, <1>7, <4>1, <4>5
    <3> QED
        BY <3>1, <3>2
  <2> QED
      BY <2>1, <2>2
<1>15. Tallied'
    BY <1>2, <1>3, <1>4, <1>14, TallyKept
<1> QED
    BY <1>11, <1>12, <1>13, <1>15

(* A word is loaded.                                                       *)
LEMMA LoadTurn ==
    ASSUME TopInv, Edge160, RESET_N = 1, LoadMove
    PROVE  InClear' /\ InCut' /\ InHeld' /\ PageKept' /\ Tallied'
<1>1. /\ phase = "clear" /\ phase' = "held" /\ ~Clears
      /\ held' = Front!AddrOf(Front!SentWord)
      /\ sr_inst_chk = Front!Zero /\ sr_inst_chk' # Front!Zero
      /\ TRG_PLS = Low /\ TRG_PLS' = Low
      /\ sr_inst_cnt = InstLen /\ Stage = 4 /\ Front!Complete
    BY DEF LoadMove
<1>2. /\ FrontEdge /\ skew' \in (-5)..8 /\ skew' <= 3 /\ phaseAge' = 0
      /\ UNCHANGED <<RESET_N, watched, hurried, frames>>
    BY <1>1, TurnOf
<1>3. seen' = seen /\ (lowAge' > 0 => highAge' = 0)
    BY <1>1, AgeOf
<1>4. /\ FrontInv /\ FrontInv' /\ Front!Tick160 /\ UNCHANGED <<window, sent, fresh>>
      /\ (doneAge' = doneAge \/ doneAge' = doneAge + 1) /\ doneAge \in Nat
      /\ (~Done => doneAge' = doneAge) /\ PAGE_ADDR' = PageOut'
      /\ (fresh => doneAge' = doneAge)
    BY <1>2, EdgeOfTop, TopTypes
<1>5. /\ ar_inst_mch_n_1d' = 1 /\ sr_inst_mch_n_2d' = 1 /\ sr_inst_mch_n_3d' = 1
      /\ sr_inst_edge_n' = 1
    BY <1>1, <1>4, NoMatch
<1>6. sr_pls_cnt = PlsTop /\ sr_inst_edge_n # 0
  <2>1. Way = InstLen + 4
      BY <1>1, <1>4, WayTypes
  <2>2. PlsTop < InstLen + 4
      BY DEF TopInv, TimesAssumed
  <2>3. sr_pls_cnt \in Nat /\ sr_pls_cnt <= PlsTop /\ PlsTop \in Nat
      BY <1>4, Sizes DEF FrontInv, FrontTypes
  <2>4. /\ sr_inst_edge_n = 0 => Way = 0
        /\ sr_pls_cnt < PlsTop => Way <= sr_pls_cnt + 1
      BY <1>1 DEF TopInv, PulseInv, InClear
  <2> QED
      BY <2>1, <2>2, <2>3, <2>4, Sizes
<1>7. sr_pls_cnt' = PlsTop /\ sr_trg_pls' = 0
    BY <1>4, <1>6, RunningTick
<1>8. (Hit' <=> Hit) /\ (Front!Complete' <=> Front!Complete)
      /\ (Front!AddrOf(Front!SentWord))' = Front!AddrOf(Front!SentWord)
    BY <1>4, SameWord
<1>9. Hit => doneAge <= 4
    BY <1>1 DEF TopInv, PulseInv, InClear
<1>10. Place(0)'
  <2>1. \A c \in Channels : TRG_PLS'[c] = 0
      BY <1>1, LowType
  <2> QED
      BY <1>5, <1>7, <2>1, Sizes DEF Place
<1>11. Timed(0)'
  <2>1. phaseAge' >= 3 \/ 8 * phaseAge' >= skew' + 5 * 0 - 3
    <3>1. \A x \in Int : x <= 3 => 8 * 0 >= x + 5 * 0 - 3
        OBVIOUS
    <3>2. skew' \in Int /\ skew' <= 3 /\ phaseAge' = 0
        BY <1>2
    <3> QED
        BY <3>1, <3>2
  <2>2. Hit' => doneAge' <= 0 + 5
      BY <1>4, <1>8, <1>9
  <2>3. ~(Hit' /\ fresh' /\ doneAge' >= FrameGap)
      BY <1>4, <1>8, <1>9, TopTypes
  <2> QED
      BY <2>1, <2>2, <2>3 DEF Timed
<1>12. At(0)'
    BY <1>1, <1>10, <1>11 DEF At, PhaseAt
<1>13. 0 \in 0..Last
    BY Sizes DEF Last
<1>14. InHeld'
    BY <1>1, <1>2, <1>8, <1>12, <1>13, ZeroFixed DEF InHeld, Last
<1>15. InClear' /\ InCut' /\ PageKept'
    BY <1>1, <1>4, <1>8 DEF InClear, InCut, PageKept
<1>16. ASSUME NEW c \in Channels PROVE Open(c)' <=> Open(c)
    BY <1>1, <1>4, OpenNext DEF Open
<1>17. Tallied'
    BY <1>2, <1>3, <1>4, <1>16, TallyKept
<1> QED
    BY <1>14, <1>15, <1>17

(* The ages that go with a position, as numbers.                           *)
LEMMA TimedAt ==
    ASSUME TopInv, NEW p \in 0..Last, At(p)
    PROVE  /\ p \in Nat /\ p <= PlsTop + 6 /\ (p = Last <=> p = PlsTop + 6)
           /\ Place(p) /\ phase = PhaseAt(p) /\ (p > 0 => Hit)
           /\ p <= 5 => phaseAge >= 3 \/ 8 * phaseAge >= skew + 5 * p - 3
           /\ 6 <= p /\ p <= PlsTop + 5 => highAge = 3 \/ 8 * highAge >= skew + 5 * (p - 6) - 3
           /\ Hit => doneAge <= p + 5 \/ p = Last
           /\ Hit /\ fresh /\ doneAge >= FrameGap => p >= 5 + csAge \/ p = Last
BY Sizes DEF At, Timed, Place, Last

(* The pulse moves on.                                                     *)
LEMMA PulseTurn ==
    ASSUME TopInv, Edge160, RESET_N = 1, NEW p \in 0..Last, NEW q \in 0..Last,
           PulseMove(p, q)
    PROVE  InClear' /\ InCut' /\ InHeld' /\ PageKept' /\ Tallied'
<1>1. /\ At(p) /\ q = NextOf(p) /\ Place(q)' /\ phase' = PhaseAt(q) /\ ~Clears
      /\ held' = held /\ PAGE_ADDR' = PAGE_ADDR
      /\ sr_inst_chk # Front!Zero /\ sr_inst_chk' = sr_inst_chk
      /\ TRG_PLS = Low <=> ~(6 <= p /\ p <= PlsTop + 5)
      /\ TRG_PLS' = Low <=> ~(6 <= q /\ q <= PlsTop + 5)
    BY DEF PulseMove
<1>2. /\ FrontEdge /\ skew \in Int /\ skew' \in Int /\ 0 <= skew /\ skew' <= 3
      /\ phase' = phase => phaseAge' = phaseAge /\ skew' = skew - 5
      /\ UNCHANGED <<RESET_N, watched, hurried, frames>>
    BY <1>1, TurnOf, TopTypes
<1>3. /\ highAge' = highAge /\ seen' = seen /\ (lowAge' > 0 => highAge' = 0)
      /\ TRG_PLS # Low => highAge' = 3 \/ 8 * highAge' = 8 * highAge + 5 + skew' - skew
      /\ highAge \in 0..3
    BY <1>1, AgeOf, TopTypes
<1>4. /\ FrontInv /\ FrontInv' /\ Front!Tick160 /\ UNCHANGED <<window, sent, fresh>>
      /\ (doneAge' = doneAge \/ doneAge' = doneAge + 1) /\ doneAge \in Nat
      /\ (~Done => doneAge' = doneAge) /\ PAGE_ADDR' = PageOut'
      /\ (fresh => doneAge' = doneAge) /\ csAge' = Older(csAge, CsSetup) /\ csAge \in Nat
    BY <1>2, EdgeOfTop, TopTypes
<1>5. /\ p \in Nat /\ p <= PlsTop + 6 /\ (p = Last <=> p = PlsTop + 6)
      /\ phase = PhaseAt(p) /\ (p > 0 => Hit)
      /\ p <= 5 => phaseAge >= 3 \/ 8 * phaseAge >= skew + 5 * p - 3
      /\ 6 <= p /\ p <= PlsTop + 5 => highAge = 3 \/ 8 * highAge >= skew + 5 * (p - 6) - 3
      /\ Hit => doneAge <= p + 5 \/ p = Last
      /\ Hit /\ fresh /\ doneAge >= FrameGap => p >= 5 + csAge \/ p = Last
    BY <1>1, TimedAt
<1>6. /\ \/ q = p + 1 /\ p < PlsTop + 6 /\ Hit
         \/ q = p /\ p = PlsTop + 6
         \/ q = p /\ p = 0 /\ ~Hit
      /\ PlsTop \in Nat /\ PlsTop >= 5 /\ (q = Last <=> q = PlsTop + 6)
    BY <1>1, <1>5, TopTypes DEF NextOf, Last
<1>7. (Hit' <=> Hit) /\ (Front!Complete' <=> Front!Complete)
      /\ (Front!AddrOf(Front!SentWord))' = Front!AddrOf(Front!SentWord)
    BY <1>4, SameWord
<1>8. q <= 5 => phaseAge' >= 3 \/ 8 * phaseAge' >= skew' + 5 * q - 3
  <2> SUFFICES ASSUME q <= 5 PROVE phaseAge' >= 3 \/ 8 * phaseAge' >= skew' + 5 * q - 3
      OBVIOUS
  <2>1. p <= 5 /\ q <= p + 1
      BY <1>5, <1>6
  <2>2. phase' = phase
      BY <1>1, <1>5, <2>1 DEF PhaseAt
  <2>3. phaseAge \in Nat
      BY TopTypes
  <2> QED
      BY <1>2, <1>5, <1>6, <2>1, <2>2, <2>3
<1>9. 6 <= q /\ q <= PlsTop + 5 => highAge' = 3 \/ 8 * highAge' >= skew' + 5 * (q - 6) - 3
  <2> SUFFICES ASSUME 6 <= q, q <= PlsTop + 5
               PROVE  highAge' = 3 \/ 8 * highAge' >= skew' + 5 * (q - 6) - 3
      OBVIOUS
  <2>1. q = p + 1
      BY <1>6
  <2>2. CASE p = 5
    <3>1. highAge' \in Nat /\ q = 6
        BY <1>3, <2>1, <2>2
    <3>2. \A h \in Nat, x \in Int : x <= 3 => 8 * h >= x + 5 * (6 - 6) - 3
        OBVIOUS
    <3> QED
        BY <1>2, <3>1, <3>2
  <2>3. CASE p >= 6
    <3>1. TRG_PLS # Low /\ p <= PlsTop + 5
        BY <1>1, <1>5, <1>6, <2>1, <2>3
    <3>2. highAge' = 3 \/ 8 * highAge' = 8 * highAge + 5 + skew' - skew
        BY <1>3, <3>1
    <3>3. highAge = 3 \/ 8 * highAge >= skew + 5 * (p - 6) - 3
        BY <1>5, <2>3, <3>1
    <3>4. \A h \in Nat, k \in Nat, m \in Nat, x \in Int, y \in Int :
             8 * h >= x + 5 * (m - 6) - 3 /\ 8 * k = 8 * h + 5 + y - x
                => 8 * k >= y + 5 * ((m + 1) - 6) - 3
        OBVIOUS
    <3>5. highAge \in Nat /\ highAge' \in Nat
        BY <1>3
    <3>6. ASSUME 8 * highAge >= skew + 5 * (p - 6) - 3,
                 8 * highAge' = 8 * highAge + 5 + skew' - skew
          PROVE  8 * highAge' >= skew' + 5 * ((p + 1) - 6) - 3
        BY <1>2, <1>5, <3>4, <3>5, <3>6
    <3> QED
        BY <1>3, <2>1, <3>2, <3>3, <3>6
  <2> QED
      BY <1>5, <2>1, <2>2, <2>3
<1>10. Hit' => doneAge' <= q + 5 \/ q = Last
    BY <1>4, <1>5, <1>6, <1>7
<1>11. Hit' /\ fresh' /\ doneAge' >= FrameGap => q >= 5 + csAge' \/ q = Last
    BY <1>4, <1>5, <1>6, <1>7, Sizes DEF Older
<1>12. At(q)'
    BY <1>1, <1>8, <1>9, <1>10, <1>11 DEF At, Timed, PhaseAt, Last
<1>13. phase' \in {"held", "pulse", "after"}
    BY <1>1 DEF PhaseAt
<1>14. InHeld'
  <2>1. Front!Complete
      BY <1>1 DEF TopInv, PulseInv, InHeld
  <2> QED
      BY <1>1, <1>2, <1>7, <1>12, <1>13, <2>1, ZeroFixed DEF InHeld, Last
<1>15. InClear' /\ InCut'
    BY <1>13 DEF InClear, InCut
<1>16. PageKept'
    BY <1>1, <1>4, <1>7 DEF TopInv, PulseInv, PageKept
<1>17. ASSUME NEW c \in Channels PROVE Open(c)' <=> Open(c)
  <2>1. Open(c)' <=> /\ Front!Complete /\ Command(c)
                     /\ \/ phase' = "held"
                        \/ phase' = "pulse" /\ highAge <= 1
      BY <1>3, <1>4, <1>13, OpenNext
  <2>2. Open(c) <=> /\ Front!Complete /\ Command(c)
                    /\ \/ phase = "held"
                       \/ phase = "pulse" /\ highAge <= 1
      BY <1>5 DEF Open, PhaseAt
  <2>3. CASE p = 5 /\ q = 6
    <3>1. TRG_PLS = Low /\ TRG_PLS' # Low
        BY <1>1, <1>6, <2>3
    <3>2. phase = "held"
        BY <1>5, <2>3 DEF PhaseAt
    <3>3. lowAge > 0
        BY <3>2, RegConstants, TopTypes
           DEF TopInv, RegInv, LogInv, Fronted, LogAssumed, Quiet
    <3>4. highAge = 0
        BY <3>3 DEF TopInv, PulseInv, Tallied
    <3>5. phase' = "pulse"
        BY <1>1, <1>6, <2>3 DEF PhaseAt
    <3> QED
        BY <2>1, <2>2, <3>2, <3>4, <3>5
  <2>4. CASE p = PlsTop + 5 /\ q = PlsTop + 6
    <3>1. highAge > 1
        BY <1>2, <1>3, <1>5, <1>6, <2>4
    <3>2. phase = "pulse" /\ phase' = "after"
        BY <1>1, <1>5, <1>6, <2>4 DEF PhaseAt
    <3> QED
        BY <1>3, <2>1, <2>2, <3>1, <3>2
  <2>5. CASE ~(p = 5 /\ q = 6) /\ ~(p = PlsTop + 5 /\ q = PlsTop + 6)
    <3>1. phase' = phase
        BY <1>1, <1>5, <1>6, <2>5 DEF PhaseAt
    <3> QED
        BY <2>1, <2>2, <3>1
  <2> QED
      BY <2>3, <2>4, <2>5
<1>18. Tallied'
    BY <1>2, <1>3, <1>4, <1>17, TallyKept
<1> QED
    BY <1>14, <1>15, <1>16, <1>18

(* A sample counts the commands whose pulse it sees for the second time.   *)
LEMMA SampleOpen ==
    ASSUME TopInv, sent' = sent, window' = window, NEW c \in Channels,
           Front!Complete, Hit, Up(c) <=> Drive(c),
           phase \in {"pulse", "cut"}, phase' \in {"pulse", "cut"},
           \/ highAge' = highAge /\ seen' = seen
           \/ /\ highAge' = IF highAge < 3 THEN highAge + 1 ELSE highAge
              /\ seen'[c] = IF highAge = 1 /\ Up(c) THEN seen[c] + 1 ELSE seen[c]
    PROVE  \/ seen'[c] = seen[c] /\ (Open(c)' <=> Open(c))
           \/ seen'[c] = seen[c] + 1 /\ Open(c) /\ ~Open(c)'
<1>1. Open(c)' <=> Command(c) /\ highAge' <= 1
    BY OpenNext
<1>2. Open(c) <=> Command(c) /\ highAge <= 1
    BY DEF Open
<1>3. Command(c) <=> Up(c)
    BY OneClass
<1>4. highAge \in 0..3
    BY TopTypes
<1>5. CASE highAge' = highAge /\ seen' = seen
    BY <1>1, <1>2, <1>5
<1>6. CASE /\ highAge' = IF highAge < 3 THEN highAge + 1 ELSE highAge
           /\ seen'[c] = IF highAge = 1 /\ Up(c) THEN seen[c] + 1 ELSE seen[c]
  <2>1. CASE highAge = 1
      BY <1>1, <1>2, <1>3, <1>6, <2>1
  <2>2. CASE highAge # 1
    <3>1. highAge' <= 1 <=> highAge <= 1
        BY <1>4, <1>6, <2>2
    <3> QED
        BY <1>1, <1>2, <1>6, <2>2, <3>1
  <2> QED
      BY <2>1, <2>2
<1> QED
    BY <1>5, <1>6

(* What an edge of CLK160M counts while a pulse stays up.                  *)
LEMMA SeenOf ==
    ASSUME TopInv, Edge160, RESET_N = 1, TRG_PLS # Low
    PROVE  \/ highAge' = highAge /\ seen' = seen
           \/ /\ highAge' = IF highAge < 3 THEN highAge + 1 ELSE highAge
              /\ \A c \in Channels :
                   seen'[c] = IF highAge = 1 /\ Up(c) THEN seen[c] + 1 ELSE seen[c]
<1>1. CASE FrontTick
    BY <1>1 DEF FrontTick, backRegs
<1>2. CASE BothTick
  <2>1. PICK w \in Torn(PAGE_ADDR, PAGE_ADDR') : RegEdge(w)
      BY <1>2 DEF BothTick
  <2> QED
      BY <2>1, SampleOf
<1> QED
    BY <1>1, <1>2 DEF Edge160

(* The next frame clears the word.                                         *)
LEMMA ClearTurn ==
    ASSUME TopInv, Edge160, RESET_N = 1, NEW p \in 0..Last, ClearMove(p)
    PROVE  InClear' /\ InCut' /\ InHeld' /\ PageKept' /\ Tallied'
<1>1. /\ At(p) /\ phase' = (IF TRG_PLS' = Low THEN "clear" ELSE "cut") /\ Clears
      /\ sr_inst_chk # Front!Zero /\ sr_inst_chk' = Front!Zero
      /\ SPI_CS = 0 /\ csAge = 3 /\ fresh
      /\ TRG_PLS = Low <=> ~(6 <= p /\ p <= PlsTop + 5)
      /\ TRG_PLS' = Low <=> ~(5 <= p /\ p <= PlsTop + 4)
      /\ \A c \in Channels : TRG_PLS'[c] = 1 <=> 5 <= p /\ p <= PlsTop + 4 /\ Drive(c)
    BY DEF ClearMove
<1>2. /\ p \in Nat /\ p <= PlsTop + 6 /\ (p = Last <=> p = PlsTop + 6)
      /\ phase = PhaseAt(p) /\ (p > 0 => Hit) /\ PlsTop \in Nat /\ PlsTop >= 5
      /\ 6 <= p /\ p <= PlsTop + 5 => highAge = 3 \/ 8 * highAge >= skew + 5 * (p - 6) - 3
      /\ Hit /\ doneAge >= FrameGap => p >= 8
    BY <1>1, TimedAt, TopTypes
<1>3. phase' # phase
    BY <1>1, <1>2 DEF PhaseAt
<1>4. /\ FrontEdge /\ skew \in Int /\ skew' \in Int /\ 0 <= skew /\ skew' <= 3
      /\ phaseAge' = 0 \/ (phaseAge' = 1 /\ skew' = 3)
      /\ UNCHANGED <<RESET_N, watched, hurried, frames>>
    BY <1>3, TurnOf, TopTypes
<1>5. /\ highAge \in 0..3 /\ highAge' \in 0..3 /\ (lowAge' > 0 => highAge' = 0)
      /\ TRG_PLS # Low => highAge' = 3 \/ 8 * highAge' = 8 * highAge + 5 + skew' - skew
      /\ TRG_PLS = Low => seen' = seen
      /\ TRG_PLS' # TRG_PLS => highAge' = highAge /\ seen' = seen
    BY AgeOf, TopTypes
<1>6. /\ FrontInv /\ FrontInv' /\ Front!Tick160
      /\ UNCHANGED <<SPI_CS, window, sent, fresh>> /\ doneAge' = doneAge /\ doneAge \in Nat
      /\ PAGE_ADDR' = PageOut' /\ csAge' = Older(csAge, CsSetup)
    BY <1>1, <1>4, EdgeOfTop, TopTypes
<1>7. /\ Way' = 0 /\ sr_inst_cnt' # InstLen
      /\ ar_inst_mch_n_1d' = 1 /\ sr_inst_mch_n_2d' = 1 /\ sr_inst_mch_n_3d' = 1
    BY <1>1, <1>6, WayEdge, ClearingTick
<1>8. Front!Complete
    BY <1>1 DEF TopInv, PulseInv, InHeld
<1>9. (Hit' <=> Hit) /\ (Front!Complete' <=> Front!Complete)
      /\ \A c \in Channels : Drive(c)' <=> Drive(c)
    BY <1>6, SameWord
<1>10. InClear'
  <2> SUFFICES ASSUME phase' = "clear" PROVE InClear'
      BY DEF InClear
  <2>1. TRG_PLS' = Low
      BY <1>1
  <2>2. phaseAge' >= PageGap \/ 8 * phaseAge' >= skew' + 5 * Way' - 8
    <3>1. \A x \in Int : x <= 3 => 8 * 0 >= x + 5 * 0 - 8 /\ 8 * 1 >= x + 5 * 0 - 8
        OBVIOUS
    <3> QED
        BY <1>4, <1>7, <3>1
  <2>3. sr_pls_cnt' < PlsTop => Way' <= sr_pls_cnt' + 1
    <3>1. sr_pls_cnt' \in 0..PlsTop
        BY <1>6 DEF FrontInv, FrontTypes
    <3>2. sr_pls_cnt' \in Nat
        BY <3>1, Sizes
    <3>3. Way' \in Nat /\ Way' <= 1
        BY <1>7
    <3>4. \A n \in Nat, w \in Nat : w <= 1 => w <= n + 1
        OBVIOUS
    <3> QED
        BY <3>2, <3>3, <3>4
  <2> QED
      BY <1>1, <1>7, <2>1, <2>2, <2>3, ZeroFixed DEF InClear
<1>11. InCut'
  <2> SUFFICES ASSUME phase' = "cut" PROVE InCut'
      BY DEF InCut
  <2>1. 5 <= p /\ p <= PlsTop + 4
      BY <1>1
  <2>2. csAge' = 4
      BY <1>1, <1>6, Sizes DEF Older
  <2>3. doneAge' >= FrameGap => highAge' = 3 \/ 8 * highAge' >= skew' + 12
    <3> SUFFICES ASSUME doneAge' >= FrameGap PROVE highAge' = 3 \/ 8 * highAge' >= skew' + 12
        OBVIOUS
    <3>1. p >= 8 /\ TRG_PLS # Low
        BY <1>1, <1>2, <1>6, <2>1
    <3>2. highAge = 3 \/ 8 * highAge >= skew + 5 * (p - 6) - 3
        BY <1>2, <2>1, <3>1
    <3>3. highAge' = 3 \/ 8 * highAge' = 8 * highAge + 5 + skew' - skew
        BY <1>5, <3>1
    <3>4. \A h \in Nat, k \in Nat, m \in Nat, x \in Int, y \in Int :
             /\ m >= 8 /\ 8 * h >= x + 5 * (m - 6) - 3 /\ 8 * k = 8 * h + 5 + y - x
             => 8 * k >= y + 12
        OBVIOUS
    <3>6. CASE highAge = 3
        BY <3>1, <3>6, SeenOf
    <3>7. CASE 8 * highAge >= skew + 5 * (p - 6) - 3
      <4>1. highAge \in Nat /\ highAge' \in Nat
          BY <1>5
      <4>2. 8 * highAge' = 8 * highAge + 5 + skew' - skew => 8 * highAge' >= skew' + 12
          BY <1>2, <1>4, <3>1, <3>4, <3>7, <4>1
      <4> QED
          BY <3>3, <4>2
    <3> QED
        BY <3>2, <3>6, <3>7
  <2>4. phaseAge' = 0 \/ skew' > 0
      BY <1>4
  <2>5. Hit
      BY <1>2, <2>1
  <2>6. \A c \in Channels : TRG_PLS'[c] = 1 <=> Drive(c)'
      BY <1>1, <1>9, <2>1
  <2> QED
      BY <1>1, <1>4, <1>6, <1>8, <1>9, <2>2, <2>3, <2>4, <2>5, <2>6, ZeroFixed DEF InCut
<1>12. InHeld'
    BY <1>1, <1>7, ZeroFixed DEF InHeld
<1>13. PageKept'
    BY <1>1, <1>6, ZeroFixed DEF PageKept
<1>14. ASSUME NEW c \in Channels
       PROVE  \/ seen'[c] = seen[c] /\ (Open(c)' <=> Open(c))
              \/ seen'[c] = seen[c] /\ ~Open(c)' /\ ~Owed(c)
              \/ seen'[c] = seen[c] + 1 /\ Open(c) /\ ~Open(c)'
  <2>1. Open(c)' <=> Front!Complete /\ Command(c) /\ phase' = "cut" /\ highAge' <= 1
      BY <1>1, <1>6, <1>7, OpenNext
  <2>2. CASE p < 5
    <3>1. phase' = "clear" /\ TRG_PLS = Low
        BY <1>1, <1>2, <2>2
    <3>2. ASSUME Owed(c) PROVE FALSE
        BY <1>1, <1>2, <2>2, <3>2 DEF Owed, Open, Hit
    <3> QED
        BY <1>5, <2>1, <3>1, <3>2
  <2>3. CASE p = 5
    <3>1. TRG_PLS = Low /\ TRG_PLS' # Low /\ phase' = "cut" /\ phase = "held"
        BY <1>1, <1>2, <2>3 DEF PhaseAt
    <3>2. lowAge > 0
        BY <3>1, RegConstants, TopTypes
           DEF TopInv, RegInv, LogInv, Fronted, LogAssumed, Quiet
    <3>3. highAge' = 0 /\ seen' = seen
        BY <1>5, <3>1, <3>2 DEF TopInv, PulseInv, Tallied
    <3>4. Open(c) <=> Front!Complete /\ Command(c)
        BY <3>1 DEF Open
    <3> QED
        BY <2>1, <3>1, <3>3, <3>4
  <2>4. CASE 6 <= p /\ p <= PlsTop + 4
    <3>1. TRG_PLS # Low /\ phase' = "cut" /\ phase = "pulse" /\ Hit
        BY <1>1, <1>2, <2>4 DEF PhaseAt
    <3>2. Up(c) <=> Drive(c)
        BY <1>1, <1>2, <2>4, TimedAt DEF Place, Up
    <3>3. \/ highAge' = highAge /\ seen' = seen
          \/ /\ highAge' = IF highAge < 3 THEN highAge + 1 ELSE highAge
             /\ seen'[c] = IF highAge = 1 /\ Up(c) THEN seen[c] + 1 ELSE seen[c]
        BY <3>1, SeenOf
    <3> QED
        BY <1>6, <1>8, <3>1, <3>2, <3>3, SampleOpen
  <2>5. CASE p = PlsTop + 5
    <3>1. TRG_PLS # Low /\ TRG_PLS' = Low /\ phase' = "clear" /\ phase = "pulse"
        BY <1>1, <1>2, <2>5 DEF PhaseAt
    <3>2. highAge > 1
      <4>1. highAge = 3 \/ 8 * highAge >= skew + 5 * (p - 6) - 3
          BY <1>2, <2>5
      <4>2. \A h \in Nat, m \in Nat, x \in Int :
               m >= 10 /\ x >= 0 /\ 8 * h >= x + 5 * (m - 6) - 3 => h > 1
          OBVIOUS
      <4> QED
          BY <1>2, <1>4, <1>5, <2>5, <4>1, <4>2
    <3>3. ~Open(c)
        BY <1>5, <3>1, <3>2 DEF Open
    <3> QED
        BY <1>5, <2>1, <3>1, <3>3
  <2>6. CASE p = PlsTop + 6
    <3>1. TRG_PLS = Low /\ phase' = "clear" /\ phase = "after"
        BY <1>1, <1>2, <2>6 DEF PhaseAt
    <3> QED
        BY <1>5, <2>1, <3>1 DEF Open
  <2> QED
      BY <1>2, <2>2, <2>3, <2>4, <2>5, <2>6
<1>15. ~Done => doneAge' = doneAge
    BY <1>6
<1>16. Tallied'
    BY <1>4, <1>5, <1>6, <1>14, <1>15, TallyKept
<1> QED
    BY <1>10, <1>11, <1>12, <1>13, <1>16

(* The pulse that the next frame has cut ends.                             *)
LEMMA CutTurn ==
    ASSUME TopInv, Edge160, RESET_N = 1, CutMove
    PROVE  InClear' /\ InCut' /\ InHeld' /\ PageKept' /\ Tallied'
<1>1. /\ phase = "cut" /\ phase' = "clear" /\ Clears /\ PAGE_ADDR' = PAGE_ADDR
      /\ sr_inst_chk = Front!Zero /\ sr_inst_chk' = Front!Zero
      /\ TRG_PLS # Low /\ TRG_PLS' = Low
    BY DEF CutMove
<1>2. /\ FrontEdge /\ skew \in Int /\ skew' \in Int /\ 0 <= skew /\ skew' <= 3
      /\ phaseAge' = 0 \/ (phaseAge' = 1 /\ skew' = 3)
      /\ UNCHANGED <<RESET_N, watched, hurried, frames>>
    BY <1>1, TurnOf, TopTypes
<1>3. highAge' = highAge /\ seen' = seen /\ (lowAge' > 0 => highAge' = 0)
    BY <1>1, AgeOf
<1>4. /\ FrontInv /\ FrontInv' /\ Front!Tick160
      /\ UNCHANGED <<SPI_CS, window, sent, fresh>> /\ PAGE_ADDR' = PageOut'
      /\ (~Done => doneAge' = doneAge)
    BY <1>2, EdgeOfTop
<1>5. /\ SPI_CS = 0 /\ csAge = 4 /\ Front!Complete /\ Hit
      /\ doneAge >= FrameGap => highAge = 3 \/ 8 * highAge >= skew + 12
    BY <1>1 DEF TopInv, PulseInv, InCut
<1>6. fresh
    BY <1>4, <1>5 DEF FrontInv, Bus
<1>7. /\ Way' <= 1 /\ Way' \in Nat /\ sr_inst_cnt' # InstLen
      /\ ar_inst_mch_n_1d' = 1 /\ sr_inst_mch_n_2d' = 1 /\ sr_inst_mch_n_3d' = 1
      /\ sr_inst_edge_n' = 1
    BY <1>1, <1>2, <1>4, WayEdge, NoMatch
<1>8. InClear'
  <2>1. phaseAge' >= PageGap \/ 8 * phaseAge' >= skew' + 5 * Way' - 8
    <3>1. \A x \in Int, w \in Nat : x <= 3 /\ w <= 1 =>
             8 * 0 >= x + 5 * w - 8 /\ 8 * 1 >= x + 5 * w - 8
        OBVIOUS
    <3> QED
        BY <1>2, <1>7, <3>1
  <2>2. sr_pls_cnt' < PlsTop => Way' <= sr_pls_cnt' + 1
    <3>1. sr_pls_cnt' \in 0..PlsTop
        BY <1>4 DEF FrontInv, FrontTypes
    <3>2. sr_pls_cnt' \in Nat
        BY <3>1, Sizes
    <3>4. \A n \in Nat, w \in Nat : w <= 1 => w <= n + 1
        OBVIOUS
    <3> QED
        BY <1>7, <3>2, <3>4
  <2> QED
      BY <1>1, <1>7, <2>1, <2>2, ZeroFixed DEF InClear
<1>9. InCut' /\ InHeld'
    BY <1>1, <1>7, ZeroFixed DEF InCut, InHeld
<1>10. PageKept'
    BY <1>1, <1>4, ZeroFixed DEF PageKept
<1>11. ASSUME NEW c \in Channels PROVE ~Open(c)' /\ ~Owed(c)
  <2>1. ~Open(c)'
      BY <1>1, <1>4, <1>7, OpenNext
  <2>2. ASSUME Owed(c) PROVE FALSE
    <3>1. highAge <= 1 /\ doneAge >= FrameGap
        BY <1>1, <1>6, <2>2 DEF Owed, Open
    <3>2. highAge \in 0..3
        BY TopTypes
    <3> QED
        BY <1>2, <1>5, <3>1, <3>2
  <2> QED
      BY <2>1, <2>2
<1>12. Tallied'
    BY <1>2, <1>3, <1>4, <1>11, TallyKept
<1> QED
    BY <1>8, <1>9, <1>10, <1>12

(* The types of the tally, after any step but one of the master.           *)
LEMMA TallyTyped ==
    ASSUME TopInv, UNCHANGED <<watched, hurried, frames>>, skew' \in (-5)..8, bus' = Idle,
           doneAge' \in Nat, doneAge' <= DoneTop
    PROVE  TallyTypes'
<1>1. DoneTop' = DoneTop /\ (Idle)' = Idle /\ DoneTop \in Nat
    BY TopTypes DEF DoneTop, Idle
<1> QED
    BY <1>1 DEF TopInv, PulseInv, TallyTypes

(* An edge of CLK160M keeps the invariant of the pulse.                    *)
LEMMA EdgePulseInv ==
    ASSUME TopInv, Edge160, RESET_N = 1
    PROVE  PulseInv'
<1>1. FrontEdge
    BY DEF Edge160, FrontTick, BothTick
<1>2. InClear' /\ InCut' /\ InHeld' /\ PageKept' /\ Tallied'
    BY <1>1, MoveOf, IdleTurn, LoadTurn, CutTurn, PulseTurn, ClearTurn
<1>3. /\ doneAge' \in Nat /\ doneAge' <= DoneTop
    BY <1>1, EdgeOfTop
<1>4. skew' \in (-5)..8 /\ UNCHANGED <<watched, hurried, frames>>
  <2>1. skew \in Int /\ skew <= 8
      BY TopTypes
  <2>2. CASE FrontTick
      BY <2>1, <2>2 DEF FrontTick, Period160, tally
  <2>3. CASE BothTick
      BY <2>1, <2>3 DEF BothTick, Period160, Period100, tally
  <2> QED
      BY <2>2, <2>3 DEF Edge160
<1>5. TallyTypes'
    BY <1>3, <1>4, AgeOf, TallyTyped
<1> QED
    BY <1>2, <1>5 DEF PulseInv

(* While RESET_N is low it changes nothing but the time.                   *)
LEMMA DarkPulseInv ==
    ASSUME TopInv, Edge160, RESET_N = 0
    PROVE  /\ PulseInv' /\ FrontTick
           /\ UNCHANGED <<PAGE_ADDR, TRG_PLS, phase, phaseAge, held, want>>
<1>1. FrontEdge /\ Clears
    BY DEF Edge160, FrontTick, BothTick, Clears
<1>2. /\ FrontInv /\ FrontInv' /\ Front!Tick160 /\ FrontMoves
      /\ UNCHANGED <<RESET_N, SPI_CS, window, sent, fresh>> /\ PAGE_ADDR' = PageOut'
      /\ doneAge' = (IF Done THEN Older(doneAge, DoneTop) ELSE doneAge)
    BY <1>1, EdgeOfTop
<1>3. /\ phase = "clear" /\ TRG_PLS = Low /\ highAge = 0 /\ sent = <<>> /\ ~fresh
      /\ SPI_CS = 1 /\ sr_inst_cnt = 0 /\ sr_inst_chk = Front!Zero /\ Way = 0
      /\ ~Front!Complete /\ \A c \in Channels : ~Open(c)
    BY WhenDark
<1>4. TRG_PLS' = Low /\ sr_inst_edge_n' = 1
    BY <1>2, DarkTick
<1>5. /\ sr_inst_chk' = Front!Zero /\ sr_inst_cnt' = 0
      /\ ar_inst_mch_n_1d' = 1 /\ sr_inst_mch_n_2d' = 1 /\ sr_inst_mch_n_3d' = 1
    BY <1>1, <1>2, ClearingTick
<1>6. ~Loaded /\ ~Gone /\ ~Rises /\ ~Falls
    BY <1>3, <1>4, <1>5 DEF Loaded, Gone, Rises, Falls
<1>7. phase' = phase /\ held' = held /\ PAGE_ADDR' = PAGE_ADDR
  <2>1. PAGE_ADDR = NoPage
      BY <1>3 DEF TopInv, RegInv, LogInv, Fronted
  <2> QED
      BY <1>2, <1>5, <1>6, <2>1, PhaseOf, PageOf
<1>8. FrontTick
    BY <1>7 DEF Edge160, BothTick
<1>9. /\ phaseAge' = phaseAge /\ want' = want /\ highAge' = highAge /\ seen' = seen
      /\ lowAge' = lowAge /\ bus' = bus /\ UNCHANGED <<watched, hurried, frames>>
    BY <1>6, <1>7, <1>8 DEF FrontTick, backRegs, tally
<1>10. skew' = skew - 5 /\ skew \in Int /\ 0 <= skew /\ skew <= 8
    BY <1>8, TopTypes DEF FrontTick, Period160
<1>11. Way' = 0
    BY <1>2, <1>3, <1>5, Sizes DEF Way
<1>12. InClear'
  <2>1. phaseAge >= PageGap \/ 8 * phaseAge >= skew + 5 * Way - 8
      BY <1>3 DEF TopInv, PulseInv, InClear
  <2>2. phaseAge' >= PageGap \/ 8 * phaseAge' >= skew' + 5 * Way' - 8
      BY <1>3, <1>9, <1>10, <1>11, <2>1, TopTypes, SMTT(30)
  <2>3. sr_pls_cnt' < PlsTop => Way' <= sr_pls_cnt' + 1
    <3>1. sr_pls_cnt' \in 0..PlsTop
        BY <1>2 DEF FrontInv, FrontTypes
    <3>2. sr_pls_cnt' \in Nat
        BY <3>1, Sizes
    <3>3. Way' \in Nat /\ Way' <= 1
        BY <1>11
    <3>4. \A n \in Nat, w \in Nat : w <= 1 => w <= n + 1
        OBVIOUS
    <3> QED
        BY <3>2, <3>3, <3>4
  <2>4. sr_inst_cnt' # InstLen
      BY <1>5, Sizes
  <2> QED
      BY <1>4, <1>5, <1>11, <2>2, <2>3, <2>4, ZeroFixed DEF InClear
<1>13. InCut' /\ InHeld' /\ PageKept'
    BY <1>2, <1>3, <1>5, <1>7, ZeroFixed DEF InCut, InHeld, PageKept
<1>14. ASSUME NEW c \in Channels PROVE ~Open(c)'
    BY <1>2, <1>3, OpenNext
<1>15. doneAge' = doneAge
    BY <1>2, <1>3 DEF Done
<1>16. Tallied'
    BY <1>2, <1>3, <1>9, <1>14, <1>15, TallyKept DEF TopInv, PulseInv, Tallied
<1>17. TallyTypes'
    BY <1>9, <1>10, <1>15, TallyTyped, TopTypes
<1> QED
    BY <1>3, <1>4, <1>7, <1>8, <1>9, <1>12, <1>13, <1>16, <1>17 DEF PulseInv
-----------------------------------------------------------------------------
(* The other steps                                                         *)

(* A step that leaves the front end leaves what is said of it.             *)
LEMMA SameFront ==
    ASSUME TopInv, UNCHANGED <<RESET_N, window, frontRegs>>
    PROVE  FrontInv' /\ Way' = Way /\ Stage' = Stage
<1>1. (Front!SentWord)' = Front!SentWord
    BY SameWord DEF frontRegs
<1>2. Way' = Way /\ Stage' = Stage
    BY DEF Way, Stage, frontRegs
<1>3. FrontTypes' /\ Dark' /\ Bus'
    BY WindowsFixed DEF TopInv, FrontInv, FrontTypes, Dark, Bus, CsWay, frontRegs
<1>4. Captured'
    BY <1>1, ZeroFixed DEF TopInv, FrontInv, Captured, Still, InStep, Piped, frontRegs
<1>5. Windowed'
    BY DEF TopInv, FrontInv, Windowed, Passed, frontRegs
<1> QED
    BY <1>2, <1>3, <1>4, <1>5 DEF FrontInv

(* An edge of CLK100M, whether or not RESET_N is low.                      *)
LEMMA BackOf ==
    ASSUME TopInv, BackTick
    PROVE  /\ UNCHANGED <<RESET_N, TRG_PLS, PAGE_ADDR, phase, held, frontRegs, window,
                          doneAge, watched, hurried, frames>>
           /\ skew \in Int /\ skew <= 0 /\ -5 <= skew /\ skew' = skew + 8
           /\ phaseAge' = IF phaseAge < AgeTop THEN phaseAge + 1 ELSE phaseAge
           /\ lowAge' > 0 => highAge' = 0
           /\ TRG_PLS = Low => seen' = seen
           /\ RESET_N = 1 /\ TRG_PLS # Low =>
                /\ highAge' = IF highAge < 3 THEN highAge + 1 ELSE highAge
                /\ \A c \in Channels :
                     seen'[c] = IF highAge = 1 /\ Up(c) THEN seen[c] + 1 ELSE seen[c]
           /\ bus' = Idle
<1>1. /\ UNCHANGED <<RESET_N, TRG_PLS, PAGE_ADDR, phase, held, frontRegs, doneAge,
                     watched, hurried, frames>>
      /\ RegEdge(PAGE_ADDR) /\ skew <= 0 /\ skew' = skew + 8
      /\ phaseAge' = Older(phaseAge, AgeTop)
    BY DEF BackTick, RegEdge, tally, Period100
<1>2. skew \in Int /\ -5 <= skew
    BY TopTypes
<1>3. CASE RESET_N = 1
    BY <1>1, <1>2, <1>3, SampleOf DEF Older
<1>4. CASE RESET_N = 0
  <2>1. window' = window
    <3>1. window' = [c \in Channels |-> [s \in Sides |->
                        IF s = "low" THEN NoPage ELSE AllOne(PageLen)]]
        BY <1>1, <1>4 DEF RegEdge, PortEdge, PortReset
    <3> QED
        BY <3>1, WindowsFixed DEF TopInv, FrontInv, FrontTypes
  <2>2. highAge' = 0 /\ seen' = seen
      BY <1>1, <1>4 DEF RegEdge, CntClock
  <2>3. bus' = Idle
      BY <1>1, TopTypes DEF RegEdge, RegClock, REG_WAITREQUEST, Idle
  <2> QED
      BY <1>1, <1>2, <1>4, <2>1, <2>2, <2>3 DEF Older
<1> QED
    BY <1>3, <1>4 DEF TopInv, FrontInv, FrontTypes, Bit

(* It keeps the invariants of the front end.                               *)
LEMMA BackPulseInv ==
    ASSUME TopInv, BackTick
    PROVE  FrontInv' /\ PulseInv'
<1>1. /\ UNCHANGED <<RESET_N, TRG_PLS, PAGE_ADDR, phase, held, frontRegs, window,
                     doneAge, watched, hurried, frames>>
      /\ skew \in Int /\ skew <= 0 /\ -5 <= skew /\ skew' = skew + 8
      /\ phaseAge' = IF phaseAge < AgeTop THEN phaseAge + 1 ELSE phaseAge
      /\ lowAge' > 0 => highAge' = 0
      /\ bus' = Idle
    BY BackOf
<1>2. RESET_N = 1 /\ TRG_PLS # Low =>
                /\ highAge' = IF highAge < 3 THEN highAge + 1 ELSE highAge
                /\ \A c \in Channels :
                     seen'[c] = IF highAge = 1 /\ Up(c) THEN seen[c] + 1 ELSE seen[c]
    BY BackOf
<1>3. FrontInv' /\ Way' = Way /\ Stage' = Stage
    BY <1>1, SameFront
<1>4. sent' = sent /\ fresh' = fresh
    BY <1>1 DEF frontRegs
<1>5. /\ (Front!SentWord)' = Front!SentWord
      /\ (Front!AddrOf(Front!SentWord))' = Front!AddrOf(Front!SentWord)
      /\ (Front!Complete' <=> Front!Complete) /\ (Hit' <=> Hit)
      /\ \A c \in Channels : Drive(c)' <=> Drive(c)
    BY <1>1, <1>4, SameWord
<1>6. /\ phaseAge \in Nat /\ PageGap \in Nat /\ AgeTop \in Nat
      /\ PageGap <= AgeTop /\ 3 <= AgeTop /\ highAge \in 0..3 /\ Way \in Nat
  <2>1. FrontInv
      BY DEF TopInv
  <2> QED
      BY <2>1, TopTypes, WayTypes
<1>7. InClear'
  <2> SUFFICES ASSUME phase' = "clear" PROVE InClear'
      BY DEF InClear
  <2>1. /\ sr_inst_chk = Front!Zero /\ TRG_PLS = Low
        /\ phaseAge >= PageGap \/ 8 * phaseAge >= skew + 5 * Way - 8
        /\ sr_inst_edge_n = 0 => Way = 0
        /\ sr_pls_cnt < PlsTop => Way <= sr_pls_cnt + 1
        /\ sr_inst_cnt = InstLen /\ Hit => doneAge <= Stage
      BY <1>1 DEF TopInv, PulseInv, InClear
  <2>2. phaseAge' >= PageGap \/ 8 * phaseAge' >= skew' + 5 * Way' - 8
      BY <1>1, <1>3, <1>6, <2>1
  <2>3. (Low)' = Low
      BY DEF Low
  <2> QED
      BY <1>1, <1>3, <1>5, <2>1, <2>2, <2>3, ZeroFixed DEF InClear, frontRegs
<1>8. phase \in {"pulse", "cut"} => TRG_PLS # Low /\ RESET_N = 1
    BY WhenDark DEF TopInv, RegInv, LogInv, Fronted, RegTypeOK, CntTypeOK, Bit
<1>9. InCut'
  <2> SUFFICES ASSUME phase' = "cut" PROVE InCut'
      BY DEF InCut
  <2>1. /\ sr_inst_chk = Front!Zero /\ SPI_CS = 0 /\ csAge = 4 /\ RESET_N = 1
        /\ Front!Complete /\ Hit
        /\ \A c \in Channels : TRG_PLS[c] = 1 <=> Drive(c)
        /\ doneAge >= FrameGap => highAge = 3 \/ 8 * highAge >= skew + 12
      BY <1>1 DEF TopInv, PulseInv, InCut
  <2>2. highAge' = IF highAge < 3 THEN highAge + 1 ELSE highAge
      BY <1>1, <1>2, <1>8
  <2>3. doneAge' >= FrameGap => highAge' = 3 \/ 8 * highAge' >= skew' + 12
      BY <1>1, <1>6, <2>1, <2>2
  <2>4. skew' > 0
      BY <1>1
  <2> QED
      BY <1>1, <1>5, <2>1, <2>3, <2>4, ZeroFixed DEF InCut, frontRegs
<1>10. InHeld'
  <2>1. ASSUME sr_inst_chk # Front!Zero PROVE \E p \in 0..Last : At(p)'
    <3>1. PICK p \in 0..Last : At(p)
        BY <2>1 DEF TopInv, PulseInv, InHeld
    <3>2. /\ p \in Nat /\ p <= PlsTop + 6 /\ (p = Last <=> p = PlsTop + 6)
          /\ Place(p) /\ phase = PhaseAt(p)
          /\ p <= 5 => phaseAge >= 3 \/ 8 * phaseAge >= skew + 5 * p - 3
          /\ 6 <= p /\ p <= PlsTop + 5 => highAge = 3 \/ 8 * highAge >= skew + 5 * (p - 6) - 3
          /\ Hit => doneAge <= p + 5 \/ p = Last
          /\ Hit /\ fresh /\ doneAge >= FrameGap => p >= 5 + csAge \/ p = Last
        BY <3>1, TimedAt
    <3>3. p <= 5 => phaseAge' >= 3 \/ 8 * phaseAge' >= skew' + 5 * p - 3
        BY <1>1, <1>6, <3>2
    <3>4. 6 <= p /\ p <= PlsTop + 5 => highAge' = 3 \/ 8 * highAge' >= skew' + 5 * (p - 6) - 3
      <4> SUFFICES ASSUME 6 <= p, p <= PlsTop + 5
                   PROVE  highAge' = 3 \/ 8 * highAge' >= skew' + 5 * (p - 6) - 3
          OBVIOUS
      <4>1. phase = "pulse"
          BY <3>2 DEF PhaseAt
      <4>2. highAge' = IF highAge < 3 THEN highAge + 1 ELSE highAge
          BY <1>2, <1>8, <4>1
      <4> QED
          BY <1>1, <1>6, <3>2, <4>2
    <3>5. Place(p)'
        BY <1>1, <1>5, <3>2 DEF Place, frontRegs
    <3>6. Timed(p)'
        BY <1>1, <1>5, <3>2, <3>3, <3>4 DEF Timed, frontRegs, Last
    <3>7. At(p)'
        BY <1>1, <3>2, <3>5, <3>6 DEF At, PhaseAt
    <3> QED
        BY <3>7
  <2> QED
      BY <1>1, <1>5, <2>1, ZeroFixed DEF TopInv, PulseInv, InHeld, frontRegs, Last
<1>11. PageKept'
  <2>1. PageOut' = PageOut
      BY <1>1 DEF PageOut, frontRegs, Front!AddrOf, Front!Slice, Slice
  <2> QED
      BY <1>1, <1>5, <2>1, ZeroFixed DEF TopInv, PulseInv, PageKept, frontRegs
<1>12. ASSUME NEW c \in Channels
       PROVE  \/ seen'[c] = seen[c] /\ (Open(c)' <=> Open(c))
              \/ seen'[c] = seen[c] + 1 /\ Open(c) /\ ~Open(c)'
  <2>1. CASE phase \in {"pulse", "cut"}
    <3>1. TRG_PLS # Low /\ RESET_N = 1
        BY <1>8, <2>1
    <3>2. Front!Complete /\ Hit /\ (Up(c) <=> Drive(c))
      <4>1. CASE phase = "cut"
          BY <4>1 DEF TopInv, PulseInv, InCut, Up
      <4>2. CASE phase = "pulse"
        <5>1. sr_inst_chk # Front!Zero /\ Front!Complete
            BY <4>2 DEF TopInv, PulseInv, InHeld
        <5>2. PICK p \in 0..Last : At(p)
            BY <5>1 DEF TopInv, PulseInv, InHeld
        <5>3. p \in Nat /\ Place(p) /\ phase = PhaseAt(p) /\ (p > 0 => Hit)
            BY <5>2, TimedAt
        <5>4. 6 <= p /\ p <= PlsTop + 5
            BY <4>2, <5>3, TopTypes DEF PhaseAt
        <5> QED
            BY <5>1, <5>3, <5>4 DEF Place, Up
      <4> QED
          BY <2>1, <4>1, <4>2
    <3> QED
        BY <1>1, <1>2, <1>4, <2>1, <3>1, <3>2, SampleOpen
  <2>2. CASE phase \notin {"pulse", "cut"}
    <3>1. TRG_PLS = Low
        BY <2>2 DEF TopInv, RegInv, LogInv, Fronted, RegTypeOK
    <3>2. seen' = seen
        BY <3>1, BackOf
    <3>3. Open(c)' <=> Open(c)
        BY <1>1, <1>4, <2>2, OpenNext DEF Open, frontRegs
    <3> QED
        BY <3>2, <3>3
  <2> QED
      BY <2>1, <2>2
<1>13. Tallied'
    BY <1>1, <1>4, <1>12, TallyKept
<1>14. TallyTypes'
    BY <1>1, TallyTyped, TopTypes
<1> QED
    BY <1>3, <1>7, <1>9, <1>10, <1>11, <1>13, <1>14 DEF PulseInv

(* A bit leaves the CLK100M half and its environment.                      *)
LEMMA BitUnchanged ==
    ASSUME NEW b \in Bit, SendBit(b)
    PROVE  UNCHANGED regVars /\ Front!SpiRise(b) /\ UNCHANGED <<skew, hurried, frames>>
BY DEF SendBit, Front!SpiRise, Front!pins, Front!instRegs, Front!resetRegs, Front!plsRegs,
       backRegs, regVars, cntVars, cntPins, cntEnv, regEnv

(* It takes an instruction one edge further, and finds none held that is   *)
(* not complete.                                                           *)
LEMMA BitPulseInv ==
    ASSUME TopInv, NEW b \in Bit, SendBit(b)
    PROVE  FrontInv' /\ PulseInv'
<1>1. /\ UNCHANGED <<TRG_PLS, PAGE_ADDR, phase, phaseAge, held, highAge, lowAge, seen, bus,
                     skew, hurried, frames>>
      /\ Front!SpiRise(b) /\ FrontInv
    BY BitUnchanged DEF TopInv, regVars, cntVars, cntPins, cntEnv, regEnv
<1>2. /\ SPI_CS = 0 /\ csAge >= 5 /\ spiAge = 1 /\ spiAge' = 0
      /\ RESET_N = 1 /\ fresh' = FALSE /\ UNCHANGED <<RESET_N, SPI_CS, window, csAge>>
      /\ UNCHANGED <<Front!instRegs, Front!resetRegs>>
      /\ fresh => sr_inst_cnt = 0 /\ Len(sent') = 1 /\ sr_inst_cnt' = 1
      /\ ~fresh => sent # <<>> /\ sr_inst_cnt = Len(sent)
      /\ ~fresh /\ Len(sent) < InstLen =>
            Len(sent') = Len(sent) + 1 /\ sr_inst_cnt' = sr_inst_cnt + 1
      /\ ~fresh /\ Len(sent) = InstLen => sent' = sent /\ sr_inst_cnt' = sr_inst_cnt
      /\ sent' # <<>>
    BY <1>1, BitOf
<1>3. FrontInv'
    BY <1>1, BitFrontInv
<1>4. /\ UNCHANGED <<ar_inst_cnt_160M_1d, sr_inst_cnt_160M_2d, sr_inst_cnt_160M_3d,
                     sr_inst_cnt_160M_sync, sr_inst_chk, ar_inst_mch_n_1d,
                     sr_inst_mch_n_2d, sr_inst_mch_n_3d>>
      /\ UNCHANGED <<sr_inst_edge_n, sr_pls_cnt, sr_trg_pls>>
    BY <1>2 DEF Front!instRegs, Front!resetRegs, Front!plsRegs
<1>5. /\ doneAge' = IF fresh THEN 0 ELSE doneAge
      /\ watched' = [c \in Channels |->
                       IF ~Front!Complete' \/ (Front!Complete /\ ~fresh) THEN watched[c]
                       ELSE IF Command(c)' THEN watched[c] + 1 ELSE watched[c]]
    BY DEF SendBit
<1>6. /\ sr_inst_cnt \in Nat /\ InstLen \in Nat /\ InstLen >= 2 /\ Len(sent) \in Nat
      /\ Len(sent) <= InstLen /\ sent \in Seq(Bit) /\ fresh \in BOOLEAN
    BY <1>1, Sizes DEF FrontInv, FrontTypes
<1>7. Stage' = Stage
    BY <1>4 DEF Stage
<1>8. PAGE_ADDR' = PageOut'
  <2>1. PageOut' = PageOut
      BY <1>4 DEF PageOut, Front!AddrOf, Front!Slice, Slice
  <2> QED
      BY <1>1, <2>1 DEF TopInv, PulseInv, PageKept
<1>9. (Low)' = Low /\ TRG_PLS' = TRG_PLS
    BY <1>1 DEF Low
<1>10. TallyTypes'
  <2>1. watched' \in [Channels -> Nat]
      BY <1>5, TopTypes
  <2>2. doneAge' \in Nat /\ doneAge' <= DoneTop
      BY <1>5, TopTypes
  <2>3. DoneTop' = DoneTop /\ (Idle)' = Idle
      BY DEF DoneTop, Idle
  <2> QED
      BY <1>1, <2>1, <2>2, <2>3, TopTypes DEF TopInv, PulseInv, TallyTypes
<1>11. CASE Front!Complete /\ ~fresh
  <2>1. sent' = sent /\ fresh' = fresh /\ sr_inst_cnt' = sr_inst_cnt /\ sr_inst_cnt = InstLen
      BY <1>2, <1>6, <1>11 DEF Front!Complete
  <2>2. /\ (Front!SentWord)' = Front!SentWord
        /\ (Front!AddrOf(Front!SentWord))' = Front!AddrOf(Front!SentWord)
        /\ (Front!Complete' <=> Front!Complete) /\ (Hit' <=> Hit)
        /\ \A c \in Channels : Drive(c)' <=> Drive(c)
      BY <1>2, <2>1, SameWord
  <2>3. Way' = Way
      BY <1>2, <1>7, <2>1, <1>6 DEF Way
  <2>4. doneAge' = doneAge /\ watched' = watched
      BY <1>5, <1>11 DEF TopInv, PulseInv, TallyTypes
  <2>5. InClear'
      BY <1>1, <1>4, <1>7, <1>9, <2>1, <2>2, <2>3, <2>4, ZeroFixed
         DEF TopInv, PulseInv, InClear
  <2>6. InCut'
      BY <1>1, <1>2, <1>4, <2>2, <2>4, ZeroFixed DEF TopInv, PulseInv, InCut
  <2>7. InHeld'
    <3>1. ASSUME NEW p \in 0..Last, At(p) PROVE At(p)'
      <4>1. Place(p)'
          BY <1>1, <1>4, <2>2, <3>1 DEF At, Place
      <4>2. Timed(p)'
          BY <1>1, <1>2, <2>1, <2>2, <2>4, <3>1 DEF At, Timed, Last
      <4> QED
          BY <1>1, <3>1, <4>1, <4>2 DEF At, PhaseAt
    <3> QED
        BY <1>1, <1>2, <1>4, <2>2, <3>1, ZeroFixed DEF TopInv, PulseInv, InHeld, Last
  <2>8. PageKept'
      BY <1>1, <1>4, <1>8, <2>2, ZeroFixed DEF TopInv, PulseInv, PageKept
  <2>9. ASSUME NEW c \in Channels PROVE Open(c)' <=> Open(c)
      BY <1>1, <1>2, <2>1, OpenNext DEF Open
  <2>10. Tallied'
      BY <1>1, <1>2, <2>1, <2>4, <2>9, TallyKept DEF TopInv, PulseInv, Tallied
  <2> QED
      BY <1>3, <1>10, <2>5, <2>6, <2>7, <2>8, <2>10 DEF PulseInv
<1>12. CASE ~(Front!Complete /\ ~fresh)
  <2>1. sr_inst_cnt # InstLen /\ sr_inst_cnt' = sr_inst_cnt + 1 /\ Len(sent') = sr_inst_cnt'
    <3>1. CASE fresh
        BY <1>2, <1>6, <3>1
    <3>2. CASE ~fresh
      <4>1. Len(sent) < InstLen
          BY <1>6, <1>12, <3>2 DEF Front!Complete
      <4>2. sr_inst_cnt = Len(sent) /\ Len(sent') = Len(sent) + 1
            /\ sr_inst_cnt' = sr_inst_cnt + 1
          BY <1>2, <3>2, <4>1
      <4> QED
          BY <1>6, <4>1, <4>2
    <3> QED
        BY <3>1, <3>2
  <2>2. sr_inst_chk = Front!Zero /\ Stage = 0
      BY <1>1, <2>1, WhenHeld, WayTypes
  <2>3. phase = "clear"
    <3>1. phase \notin {"held", "pulse", "after"}
        BY <2>2 DEF TopInv, PulseInv, InHeld
    <3>2. phase # "cut"
        BY <1>2, Sizes DEF TopInv, PulseInv, InCut
    <3> QED
        BY <3>1, <3>2 DEF TopInv, RegInv, RegTypeOK
  <2>4. Way' = Way
      BY <1>2, <1>6, <1>7, <2>1, <2>2 DEF Way
  <2>5. fresh \/ (sent # <<>> /\ ~Front!Complete)
      BY <1>2, <1>12
  <2>6. doneAge' = 0
      BY <1>5, <1>12, <2>5 DEF TopInv, PulseInv, Tallied
  <2>7. InClear'
      BY <1>1, <1>4, <1>7, <1>9, <2>2, <2>3, <2>4, <2>6, ZeroFixed
         DEF TopInv, PulseInv, InClear
  <2>8. InCut' /\ InHeld'
      BY <1>1, <1>4, <2>2, <2>3, ZeroFixed DEF TopInv, PulseInv, InCut, InHeld
  <2>9. PageKept'
      BY <1>4, <1>8, <2>2, ZeroFixed DEF PageKept
  <2>10. ASSUME NEW c \in Channels
         PROVE  /\ watched'[c] <= frames'
                /\ fresh' \/ (sent' # <<>> /\ ~Front!Complete') => watched'[c] < frames'
                /\ Open(c)' => seen'[c] < watched'[c]
                /\ seen'[c] <= watched'[c]
                /\ watched'[c] <= seen'[c] + hurried'[c] + 1
                /\ ~Owed(c)' => watched'[c] <= seen'[c] + hurried'[c]
    <3>1. ~Open(c)
        BY <2>1, <2>3 DEF Open
    <3>2. /\ watched[c] < frames /\ seen[c] <= watched[c]
          /\ watched[c] <= seen[c] + hurried[c]
        BY <2>5, <3>1 DEF TopInv, PulseInv, Tallied, Owed
    <3>3. watched[c] \in Nat /\ hurried[c] \in Nat /\ seen[c] \in Nat /\ frames \in Nat
        BY TopTypes
    <3>4. Open(c)' <=> Front!Complete' /\ Command(c)' /\ sr_inst_cnt' = InstLen
        BY <1>1, <2>3 DEF Open
    <3>5. Front!Complete' <=> sr_inst_cnt' = InstLen
        BY <2>1 DEF Front!Complete
    <3>6. watched'[c] = IF Open(c)' THEN watched[c] + 1 ELSE watched[c]
        BY <1>5, <1>12, <3>4, <3>5
    <3>7. Owed(c)' <=> Open(c)'
        BY <1>2 DEF Owed
    <3>8. ~Front!Complete' => ~Open(c)'
        BY <3>4
    <3> QED
        BY <1>1, <1>2, <3>2, <3>3, <3>6, <3>7, <3>8
  <2>11. Tallied'
      BY <1>1, <2>6, <2>10 DEF TopInv, PulseInv, Tallied
  <2> QED
      BY <1>3, <1>10, <2>7, <2>8, <2>9, <2>11 DEF PulseInv
<1> QED
    BY <1>11, <1>12

(* The falls and rises of CS leave the CLK100M half and its environment.   *)
LEMMA CsUnchanged ==
    ASSUME Fall_CS \/ Rise_CS
    PROVE  /\ UNCHANGED regVars /\ UNCHANGED <<skew, doneAge, watched>> /\ csAge' = 0
           /\ UNCHANGED <<sr_inst_cnt, sr_inst_chk, ar_inst_cnt_160M_1d, sr_inst_cnt_160M_2d,
                          sr_inst_cnt_160M_3d, sr_inst_cnt_160M_sync, ar_inst_mch_n_1d,
                          sr_inst_mch_n_2d, sr_inst_mch_n_3d, sr_inst_edge_n, sr_pls_cnt,
                          sr_trg_pls, spiAge, sent, RESET_N, window>>
BY DEF Fall_CS, Rise_CS, Front!CsFall, Front!CsRise, Front!spiRegs, Front!instRegs,
       Front!resetRegs, Front!plsRegs, Front!history, tally,
       backRegs, regVars, cntVars, cntPins, cntEnv, regEnv, portRegs

(* They leave the instruction on its way and the one that is held.         *)
LEMMA CsPulseInv ==
    ASSUME TopInv, Fall_CS \/ Rise_CS
    PROVE  FrontInv' /\ InClear' /\ InCut' /\ InHeld' /\ PageKept'
<1>1. /\ UNCHANGED <<TRG_PLS, PAGE_ADDR, phase, phaseAge, held, highAge, lowAge, seen, bus,
                     skew, doneAge, window, sent, RESET_N>>
      /\ UNCHANGED <<sr_inst_cnt, sr_inst_chk, ar_inst_cnt_160M_1d, sr_inst_cnt_160M_2d,
                     sr_inst_cnt_160M_3d, sr_inst_cnt_160M_sync, ar_inst_mch_n_1d,
                     sr_inst_mch_n_2d, sr_inst_mch_n_3d, sr_inst_edge_n, sr_pls_cnt,
                     sr_trg_pls, spiAge>>
      /\ csAge' = 0
    BY CsUnchanged DEF regVars, cntVars, cntPins, cntEnv, regEnv
<1>2. FrontInv
    BY DEF TopInv
<1>3. FrontInv' /\ (SPI_CS = 1 \/ csAge >= 5)
    BY <1>2, FallFrontInv, RiseFrontInv DEF Fall_CS, Rise_CS
<1>4. phase # "cut"
    BY <1>3, Sizes DEF TopInv, PulseInv, InCut
<1>5. /\ (Front!AddrOf(Front!SentWord))' = Front!AddrOf(Front!SentWord)
      /\ (Front!Complete' <=> Front!Complete) /\ (Hit' <=> Hit)
      /\ \A c \in Channels : Drive(c)' <=> Drive(c)
    BY <1>1, SameWord
<1>6. Stage' = Stage
    BY <1>1 DEF Stage
<1>7. Way' \in Nat /\ Way \in Nat /\ Way' <= Way
  <2>1. Way' \in Nat /\ Way \in Nat
      BY <1>2, <1>3, <1>1, <1>6, WayTypes, Sizes DEF Way, FrontInv, FrontTypes, Bit
  <2>2. Way' = Way \/ Way' = 0
      BY <1>1, <1>6, Sizes DEF Way
  <2> QED
      BY <2>1, <2>2
<1>8. (Low)' = Low
    BY DEF Low
<1>9. InClear'
  <2> SUFFICES ASSUME phase' = "clear" PROVE InClear'
      BY DEF InClear
  <2>1. /\ sr_inst_chk = Front!Zero /\ TRG_PLS = Low
        /\ phaseAge >= PageGap \/ 8 * phaseAge >= skew + 5 * Way - 8
        /\ sr_inst_edge_n = 0 => Way = 0
        /\ sr_pls_cnt < PlsTop => Way <= sr_pls_cnt + 1
        /\ sr_inst_cnt = InstLen /\ Hit => doneAge <= Stage
      BY <1>1 DEF TopInv, PulseInv, InClear
  <2>2. phaseAge >= PageGap \/ 8 * phaseAge >= skew + 5 * Way' - 8
    <3>1. \A a \in Nat, x \in Int, v \in Nat, w \in Nat :
             w <= v /\ 8 * a >= x + 5 * v - 8 => 8 * a >= x + 5 * w - 8
        OBVIOUS
    <3>2. phaseAge \in Nat /\ skew \in Int
        BY TopTypes
    <3> QED
        BY <1>7, <2>1, <3>1, <3>2
  <2>3. sr_inst_edge_n = 0 => Way' = 0
      BY <1>7, <2>1
  <2>4. sr_pls_cnt < PlsTop => Way' <= sr_pls_cnt + 1
    <3>1. sr_pls_cnt \in Nat
        BY <1>2, Sizes DEF FrontInv, FrontTypes
    <3>2. \A n \in Nat, v \in Nat, w \in Nat : w <= v /\ v <= n + 1 => w <= n + 1
        OBVIOUS
    <3> QED
        BY <1>7, <2>1, <3>1, <3>2
  <2> QED
      BY <1>1, <1>5, <1>6, <1>8, <2>1, <2>2, <2>3, <2>4, ZeroFixed DEF InClear
<1>10. InCut'
    BY <1>1, <1>4 DEF InCut
<1>11. InHeld'
  <2>1. ASSUME NEW p \in 0..Last, At(p) PROVE At(p)'
    <3>1. Place(p)'
        BY <1>1, <1>5, <2>1 DEF At, Place
    <3>2. Hit /\ doneAge >= FrameGap => p >= 5 + 0 \/ p = Last
        BY <2>1, TimedAt, TopTypes
    <3>3. Timed(p)'
        BY <1>1, <1>5, <2>1, <3>2 DEF At, Timed, Last
    <3> QED
        BY <1>1, <2>1, <3>1, <3>3 DEF At, PhaseAt
  <2> QED
      BY <1>1, <1>5, <2>1, ZeroFixed DEF TopInv, PulseInv, InHeld, Last
<1>12. PageKept'
  <2>1. PageOut' = PageOut
      BY <1>1 DEF PageOut, Front!AddrOf, Front!Slice, Slice
  <2> QED
      BY <1>1, <1>5, <2>1, ZeroFixed DEF TopInv, PulseInv, PageKept
<1> QED
    BY <1>3, <1>9, <1>10, <1>11, <1>12

(* A fall of CS soon after a command counts it as hurried.                 *)
LEMMA FallPulseInv ==
    ASSUME TopInv, Fall_CS
    PROVE  FrontInv' /\ PulseInv'
<1>1. FrontInv' /\ InClear' /\ InCut' /\ InHeld' /\ PageKept'
    BY CsPulseInv
<1>2. /\ UNCHANGED <<phase, highAge, lowAge, seen, bus, skew, doneAge, watched, window, sent,
                     sr_inst_cnt>>
    BY CsUnchanged DEF regVars, cntVars, cntPins, cntEnv, regEnv
<1>3. /\ frames < MaxFrames /\ frames' = frames + 1 /\ fresh' = TRUE
      /\ hurried' = [c \in Channels |->
                       IF Done /\ Command(c) /\ doneAge < FrameGap
                       THEN hurried[c] + 1 ELSE hurried[c]]
    BY DEF Fall_CS, Front!CsFall
<1>4. TallyTypes'
  <2>1. hurried' \in [Channels -> Nat]
      BY <1>3, TopTypes
  <2>2. DoneTop' = DoneTop /\ (Idle)' = Idle
      BY DEF DoneTop, Idle
  <2>3. frames' \in 0..MaxFrames
      BY <1>3, TopTypes, Sizes
  <2> QED
      BY <1>2, <2>1, <2>2, <2>3 DEF TopInv, PulseInv, TallyTypes
<1>5. ASSUME NEW c \in Channels
      PROVE  /\ watched'[c] < frames'
             /\ Open(c)' => seen'[c] < watched'[c]
             /\ seen'[c] <= watched'[c]
             /\ watched'[c] <= seen'[c] + hurried'[c] + 1
             /\ ~Owed(c)' => watched'[c] <= seen'[c] + hurried'[c]
  <2>1. /\ watched[c] \in Nat /\ hurried[c] \in Nat /\ seen[c] \in Nat /\ frames \in Nat
        /\ doneAge \in Nat /\ FrameGap \in Nat
      BY TopTypes
  <2>2. /\ watched[c] <= frames
        /\ Open(c) => seen[c] < watched[c]
        /\ seen[c] <= watched[c]
        /\ watched[c] <= (seen[c] + hurried[c]) + 1
        /\ ~Owed(c) => watched[c] <= seen[c] + hurried[c]
      BY DEF TopInv, PulseInv, Tallied
  <2>3. Open(c)' <=> Open(c)
      BY <1>2, OpenNext DEF Open
  <2>4. hurried'[c] = IF Done /\ Command(c) /\ doneAge < FrameGap
                      THEN hurried[c] + 1 ELSE hurried[c]
      BY <1>3
  <2>5. Owed(c)' <=> Open(c) /\ doneAge >= FrameGap
      BY <1>2, <1>3, <2>3 DEF Owed
  <2>6. Owed(c) /\ ~Owed(c)' => hurried'[c] = hurried[c] + 1
      BY <2>1, <2>4, <2>5 DEF Owed, Open, Done
  <2> QED
      BY <1>2, <1>3, <2>1, <2>2, <2>3, <2>4, <2>6
<1>6. ASSUME NEW c \in Channels
      PROVE  /\ watched'[c] <= frames'
             /\ fresh' \/ (sent' # <<>> /\ ~Front!Complete') => watched'[c] < frames'
  <2>1. watched'[c] < frames' /\ watched'[c] \in Nat /\ frames' \in Nat
      BY <1>2, <1>3, <1>5, TopTypes
  <2> QED
      BY <2>1
<1>7. Tallied'
    BY <1>2, <1>3, <1>5, <1>6 DEF TopInv, PulseInv, Tallied
<1> QED
    BY <1>1, <1>4, <1>7 DEF PulseInv

(* A rise of CS.                                                           *)
LEMMA RisePulseInv ==
    ASSUME TopInv, Rise_CS
    PROVE  FrontInv' /\ PulseInv'
<1>1. FrontInv' /\ InClear' /\ InCut' /\ InHeld' /\ PageKept'
    BY CsPulseInv
<1>2. /\ UNCHANGED <<phase, highAge, lowAge, seen, bus, skew, doneAge, watched, window, sent,
                     sr_inst_cnt>>
    BY CsUnchanged DEF regVars, cntVars, cntPins, cntEnv, regEnv
<1>3. UNCHANGED <<hurried, frames, fresh>>
    BY DEF Rise_CS, tally, Front!CsRise, Front!history
<1>4. ASSUME NEW c \in Channels PROVE Open(c)' <=> Open(c)
    BY <1>2, OpenNext DEF Open
<1>5. Tallied'
    BY <1>2, <1>3, <1>4, TallyKept DEF TopInv, PulseInv, Tallied
<1>6. TallyTypes'
    BY <1>2, <1>3, TallyTyped, TopTypes
<1> QED
    BY <1>1, <1>5, <1>6 DEF PulseInv

(* The release of RESET_N.                                                 *)
LEMMA ReleasePulseInv ==
    ASSUME TopInv, Release
    PROVE  FrontInv' /\ PulseInv'
<1>1. /\ RESET_N = 0 /\ RESET_N' = 1 /\ Front!ResetRelease
      /\ UNCHANGED <<TRG_PLS, PAGE_ADDR, phase, phaseAge, held, highAge, lowAge, seen, bus,
                     skew, doneAge, watched, hurried, frames>>
    BY DEF Release, RegResetRelease, cntEnv, regEnv, tally
<1>2. /\ phase = "clear" /\ TRG_PLS = Low /\ highAge = 0 /\ sent = <<>> /\ ~fresh
      /\ SPI_CS = 1 /\ sr_inst_cnt = 0 /\ sr_inst_chk = Front!Zero /\ Way = 0
      /\ ~Front!Complete /\ \A c \in Channels : ~Open(c)
    BY <1>1, WhenDark
<1>3. /\ UNCHANGED <<SPI_CS, window, sr_inst_cnt, sr_inst_chk, ar_inst_mch_n_1d,
                     sr_inst_mch_n_2d, sr_inst_mch_n_3d, sr_inst_edge_n, sr_pls_cnt,
                     spiAge, sent, fresh>>
    BY <1>1 DEF Front!ResetRelease, Front!spiRegs, Front!instRegs, Front!resetRegs,
                Front!plsRegs, Front!history
<1>4. FrontInv'
    BY <1>1, ReleaseFrontInv DEF TopInv
<1>5. Way' = 0
    BY <1>2, <1>3, Sizes DEF Way
<1>6. (Low)' = Low /\ InstLen # 0
    BY Sizes DEF Low
<1>7. InClear'
    BY <1>1, <1>2, <1>3, <1>5, <1>6, ZeroFixed DEF TopInv, PulseInv, InClear
<1>8. InCut' /\ InHeld'
    BY <1>1, <1>2, <1>3, ZeroFixed DEF TopInv, PulseInv, InCut, InHeld
<1>9. PageKept'
  <2>1. PageOut' = PageOut
      BY <1>3 DEF PageOut, Front!AddrOf, Front!Slice, Slice
  <2> QED
      BY <1>1, <1>2, <1>3, <2>1, ZeroFixed DEF TopInv, PulseInv, PageKept
<1>10. ASSUME NEW c \in Channels PROVE ~Open(c)'
    BY <1>2, <1>3, OpenNext
<1>11. Tallied'
    BY <1>1, <1>2, <1>3, <1>10, TallyKept DEF TopInv, PulseInv, Tallied
<1>12. TallyTypes'
    BY <1>1, TallyTyped, TopTypes
<1> QED
    BY <1>4, <1>7, <1>8, <1>9, <1>11, <1>12 DEF PulseInv
-----------------------------------------------------------------------------
(* The steps of the environment                                            *)

(* An edge of CLK160M alone leaves the CLK100M half.                       *)
LEMMA FrontAlone ==
    ASSUME TopInv, FrontTick
    PROVE  /\ UNCHANGED <<RESET_N, PAGEADDR_SEL, cntRegs, cntEnv, pageRegs, portRegs, bus,
                          countRead>>
           /\ phaseAge' = IF phase' = phase THEN phaseAge ELSE 0
           /\ ~(Falls /\ phase = "cut") => want' = want
           /\ Falls /\ phase = "cut" =>
                want' = IF Up(Selected) /\ highAge = 2
                        THEN Want(seen[Selected], {held, NoPage}) ELSE want
<1>1. RESET_N' = RESET_N
    BY TickOf DEF FrontTick, FrontEdge
<1> QED
    BY <1>1 DEF FrontTick, backRegs, cntEnv

(* One edge of CLK100M is no later than the other when they coincide.      *)
LEMMA BothEdge ==
    ASSUME BothTick
    PROVE  /\ PAGE_ADDR' # PAGE_ADDR /\ TRG_PLS' = TRG_PLS
           /\ phaseAge' = IF phase' = "held" THEN 0 ELSE 1
           /\ \E w \in Torn(PAGE_ADDR, PAGE_ADDR') : RegEdge(w)
BY DEF BothTick

(* Nothing moves: a stutter.                                               *)
LEMMA StillStep ==
    ASSUME TopInv, Edge160, phase' = phase, held' = held, PAGE_ADDR' = PAGE_ADDR,
           TRG_PLS' = TRG_PLS
    PROVE  UNCHANGED regVars
<1>1. FrontTick
    BY DEF Edge160, BothTick
<1>2. ~Falls
    BY DEF Falls
<1> QED
    BY <1>1, <1>2, FrontAlone DEF regVars, cntVars, cntPins, regEnv

(* A page is put on the bus of PAGE_ADDR: Hold.                            *)
LEMMA LoadStep ==
    ASSUME TopInv, Edge160, RESET_N = 1, LoadMove
    PROVE  ChangePage \/ ChangePageAtTick
<1> DEFINE a == Front!AddrOf(Front!SentWord)
<1>1. /\ phase = "clear" /\ phase' = "held" /\ held' = a /\ PAGE_ADDR' = a
      /\ TRG_PLS = Low /\ TRG_PLS' = Low /\ sr_inst_cnt = InstLen /\ Stage = 4
    BY DEF LoadMove
<1>2. a \in Pages
    BY SentPage DEF TopInv, FrontInv, FrontTypes, TimesAssumed
<1> HIDE DEF a
<1>3. phaseAge >= PageGap
  <2>1. Way = InstLen + 4
      BY <1>1, WayTypes DEF TopInv
  <2>2. phaseAge >= PageGap \/ 8 * phaseAge >= skew + 5 * Way - 8
      BY <1>1 DEF TopInv, PulseInv, InClear
  <2>3. 0 <= skew /\ skew \in Int
      BY TopTypes DEF Edge160, FrontTick, BothTick
  <2>4. 8 * (PageGap - 1) < 5 * InstLen + 12
      BY DEF TopInv, TimesAssumed
  <2> QED
      BY <2>1, <2>2, <2>3, <2>4, TopTypes, Sizes
<1>4. CASE FrontTick
  <2>1. ~Falls
      BY <1>1 DEF Falls
  <2>2. Hold(a)
      BY <1>1, <1>3, <1>4, FrontAlone DEF Hold
  <2> QED
      BY <1>1, <1>2, <1>4, <2>1, <2>2, FrontAlone DEF ChangePage, cntVars, cntPins
<1>5. CASE BothTick
  <2>1. Hold(a)
      BY <1>1, <1>3, <1>5, BothEdge DEF Hold
  <2>2. \E w \in Torn(PAGE_ADDR, PAGE_ADDR') : Edge100(w)
      BY <1>1, <1>5, BothEdge DEF Edge100
  <2> QED
      BY <1>2, <2>1, <2>2 DEF ChangePageAtTick
<1> QED
    BY <1>4, <1>5 DEF Edge160

(* The trigger rises: Raise, of the one class of the command.              *)
LEMMA RaiseStep ==
    ASSUME TopInv, FrontTick, RESET_N = 1, NEW p \in 0..Last, At(p), p = 5,
           TRG_PLS = Low, \A c \in Channels : TRG_PLS'[c] = 1 <=> Drive(c),
           held' = held,
           \/ phase' = "pulse" /\ PAGE_ADDR' = PAGE_ADDR
           \/ phase' = "cut" /\ PAGE_ADDR' = NoPage
    PROVE  \E c \in Channels : Raise(c)
<1>1. phase = "held" /\ Hit
    BY TimedAt DEF PhaseAt
<1>2. PICK c \in Channels : Command(c) /\ Drive(c)
    BY <1>1, OneClass
<1>3. /\ UNCHANGED <<RESET_N, PAGEADDR_SEL, cntRegs, cntEnv, pageRegs, portRegs, bus, countRead>>
      /\ phaseAge' = 0
    BY <1>1, FrontAlone
<1>4. ~Falls /\ want' = want
    BY FrontAlone DEF Falls
<1>5. phaseAge >= 3
  <2>1. phaseAge >= 3 \/ 8 * phaseAge >= skew + 5 * 5 - 3
      BY TimedAt
  <2>2. 0 <= skew
      BY DEF FrontTick
  <2> QED
      BY <2>1, <2>2, TopTypes
<1>6. lowAge >= 2 /\ highAge = 0
  <2>1. lowAge = 6 \/ lowAge >= PageGap + phaseAge
      BY <1>1 DEF TopInv, RegInv, LogInv, Fronted, Quiet
  <2>2. lowAge >= 2
      BY <1>5, <2>1, TopTypes
  <2>3. lowAge > 0 => highAge = 0
      BY DEF TopInv, PulseInv, Tallied
  <2>4. lowAge \in Nat
      BY TopTypes
  <2> QED
      BY <2>2, <2>3, <2>4
<1>7. seen[c] < MaxPulses
  <2>1. Front!Complete
      BY <1>1 DEF TopInv, PulseInv, InHeld
  <2>2. seen[c] < watched[c] /\ watched[c] <= frames
      BY <1>1, <1>2, <2>1 DEF Open, TopInv, PulseInv, Tallied
  <2>3. frames \in 0..MaxFrames /\ MaxFrames <= MaxPulses
      BY DEF TopInv, PulseInv, TallyTypes, TimesAssumed
  <2> QED
      BY <2>2, <2>3, TopTypes, Sizes, RegConstants
<1>8. TRG_PLS' = [TRG_PLS EXCEPT ![c] = 1]
  <2>1. TRG_PLS' \in [Channels -> Bit]
      BY TrgEdge DEF FrontTick, FrontEdge, TopInv
  <2>2. \A d \in Channels : Drive(d) <=> d = c
      BY <1>2, OneClass
  <2>3. ASSUME NEW d \in Channels PROVE TRG_PLS'[d] = [TRG_PLS EXCEPT ![c] = 1][d]
      BY <2>1, <2>2, LowType DEF Bit
  <2> QED
      BY <2>1, <2>3, LowType
<1>9. RisePls(c)
    BY <1>3, <1>6, <1>7, <1>8 DEF RisePls, cntEnv
<1>10. Raise(c)
    BY <1>1, <1>3, <1>4, <1>5, <1>9 DEF Raise, TopInv, TimesAssumed
<1> QED
    BY <1>10

(* The trigger falls, at its full length or cut: Fall.                     *)
LEMMA FallStep ==
    ASSUME TopInv, FrontTick, TRG_PLS # Low, TRG_PLS' = Low, held' = held,
           \/ /\ phase = "pulse" /\ highAge = 3
              /\ \/ phase' = "after" /\ PAGE_ADDR' = PAGE_ADDR
                 \/ phase' = "clear" /\ PAGE_ADDR' = NoPage
           \/ phase = "cut" /\ phase' = "clear" /\ PAGE_ADDR' = PAGE_ADDR
    PROVE  Fall
<1>1. /\ UNCHANGED <<RESET_N, PAGEADDR_SEL, cntRegs, cntEnv, pageRegs, portRegs, bus, countRead>>
      /\ phaseAge' = 0
    BY FrontAlone
<1>2. FallPls
    BY <1>1 DEF FallPls
<1>3. CASE phase = "pulse"
    BY <1>1, <1>2, <1>3, FrontAlone DEF Fall, HighTop
<1>4. CASE phase = "cut"
  <2>1. want' = IF Up(Selected) /\ highAge = 2
                THEN Want(seen[Selected], {held, NoPage}) ELSE want
      BY <1>4, FrontAlone DEF Falls
  <2> QED
      BY <1>1, <1>2, <1>4, <2>1 DEF Fall
<1> QED
    BY <1>3, <1>4

(* A pulse that reaches its last position has been seen three times.       *)
LEMMA FullLength ==
    ASSUME TopInv, 0 <= skew, NEW p \in 0..Last, At(p), p = PlsTop + 5
    PROVE  phase = "pulse" /\ highAge = 3
<1>1. phase = "pulse"
    BY TimedAt, TopTypes DEF PhaseAt
<1>2. highAge = 3 \/ 8 * highAge >= skew + 5 * (p - 6) - 3
    BY TimedAt, TopTypes
<1>3. \A h \in 0..3, m \in Nat, x \in Int :
         m >= 10 /\ x >= 0 /\ 8 * h >= x + 5 * (m - 6) - 3 => h = 3
    OBVIOUS
<1>4. p \in Nat /\ p >= 10 /\ skew \in Int /\ highAge \in 0..3
    BY TimedAt, TopTypes
<1> QED
    BY <1>1, <1>2, <1>3, <1>4

(* The outputs do not change within a pulse.                               *)
LEMMA SameLevel ==
    ASSUME TopInv, NEW t \in [Channels -> Bit], NEW on \in BOOLEAN,
           \A c \in Channels : TRG_PLS[c] = 1 <=> on /\ Drive(c),
           \A c \in Channels : t[c] = 1 <=> on /\ Drive(c)
    PROVE  t = TRG_PLS
<1>1. TRG_PLS \in [Channels -> Bit]
    BY TopTypes
<1>2. \A c \in Channels : t[c] = TRG_PLS[c]
    BY <1>1 DEF Bit
<1> QED
    BY <1>1, <1>2

(* The pulse of a held word: it rises, falls or stays.                     *)
LEMMA PulseStep ==
    ASSUME TopInv, Edge160, RESET_N = 1, NEW p \in 0..Last, NEW q \in 0..Last,
           PulseMove(p, q)
    PROVE  (\E c \in Channels : Raise(c)) \/ Fall \/ UNCHANGED regVars
<1>1. /\ At(p) /\ q = NextOf(p) /\ Place(q)' /\ phase' = PhaseAt(q)
      /\ held' = held /\ PAGE_ADDR' = PAGE_ADDR
      /\ TRG_PLS = Low <=> ~(6 <= p /\ p <= PlsTop + 5)
      /\ TRG_PLS' = Low <=> ~(6 <= q /\ q <= PlsTop + 5)
    BY DEF PulseMove
<1>2. FrontTick /\ FrontEdge /\ 0 <= skew
    BY <1>1 DEF Edge160, BothTick, FrontTick
<1>3. /\ p \in Nat /\ p <= PlsTop + 6 /\ Place(p) /\ phase = PhaseAt(p) /\ (p > 0 => Hit)
      /\ (p = Last <=> p = PlsTop + 6) /\ PlsTop \in Nat /\ PlsTop >= 5
    BY <1>1, TimedAt, TopTypes
<1>4. \/ q = p + 1 /\ p < PlsTop + 6
      \/ q = p /\ p = PlsTop + 6
      \/ q = p /\ p = 0
    BY <1>1, <1>3 DEF NextOf, Last
<1>5. \A c \in Channels : TRG_PLS'[c] = 1 <=> (6 <= q /\ q <= PlsTop + 5) /\ Drive(c)
  <2>1. \A c \in Channels : TRG_PLS'[c] = 1 <=> (6 <= q /\ q <= PlsTop + 5) /\ Drive(c)'
      BY <1>1 DEF Place
  <2>2. \A c \in Channels : Drive(c)' <=> Drive(c)
      BY <1>2, EdgeOfTop, SameWord
  <2> QED
      BY <2>1, <2>2
<1>6. CASE p = 5
  <2>1. TRG_PLS = Low /\ phase' = "pulse" /\ \A c \in Channels : TRG_PLS'[c] = 1 <=> Drive(c)
      BY <1>1, <1>3, <1>4, <1>5, <1>6 DEF PhaseAt
  <2> QED
      BY <1>1, <1>2, <1>6, <2>1, RaiseStep
<1>7. CASE p = PlsTop + 5
  <2>1. TRG_PLS # Low /\ TRG_PLS' = Low /\ phase' = "after"
      BY <1>1, <1>3, <1>4, <1>7 DEF PhaseAt
  <2>2. phase = "pulse" /\ highAge = 3
      BY <1>1, <1>2, <1>7, FullLength
  <2> QED
      BY <1>1, <1>2, <2>1, <2>2, FallStep
<1>8. CASE p # 5 /\ p # PlsTop + 5
  <2>1. phase' = phase
      BY <1>1, <1>3, <1>4, <1>8 DEF PhaseAt
  <2>2. (6 <= q /\ q <= PlsTop + 5) <=> (6 <= p /\ p <= PlsTop + 5)
      BY <1>3, <1>4, <1>8
  <2>3. \A c \in Channels : TRG_PLS[c] = 1 <=> (6 <= p /\ p <= PlsTop + 5) /\ Drive(c)
      BY <1>3 DEF Place
  <2>4. \A c \in Channels : TRG_PLS'[c] = 1 <=> (6 <= p /\ p <= PlsTop + 5) /\ Drive(c)
      BY <1>5, <2>2
  <2>5. TRG_PLS' \in [Channels -> Bit]
      BY <1>2, EdgeOfTop, TrgEdge
  <2>6. TRG_PLS' = TRG_PLS
      BY <2>3, <2>4, <2>5, SameLevel
  <2> QED
      BY <1>1, <2>1, <2>6, StillStep
<1> QED
    BY <1>6, <1>7, <1>8

(* A clear of the page that leaves the outputs: Clear, alone or with an    *)
(* edge of CLK100M.                                                        *)
LEMMA ClearOnly ==
    ASSUME TopInv, Edge160, phase \in {"held", "pulse", "after"}, TRG_PLS' = TRG_PLS,
           PAGE_ADDR' = NoPage, held' = held,
           phase' = IF phase = "pulse" THEN "cut" ELSE "clear"
    PROVE  ChangePage \/ ChangePageAtTick
<1>1. CASE FrontTick
  <2>1. ~Falls
      BY DEF Falls
  <2>2. Clear(0)
      BY <1>1, FrontAlone DEF Clear
  <2> QED
      BY <1>1, <2>1, <2>2, FrontAlone DEF ChangePage, cntVars, cntPins
<1>2. CASE BothTick
  <2>1. Clear(1)
      BY <1>2, BothEdge DEF Clear
  <2>2. \E w \in Torn(PAGE_ADDR, PAGE_ADDR') : Edge100(w)
      BY <1>2, BothEdge DEF Edge100
  <2> QED
      BY <2>1, <2>2 DEF ChangePageAtTick
<1> QED
    BY <1>1, <1>2 DEF Edge160

(* The next frame clears the word: alone, with the rise of the trigger or  *)
(* with its fall.                                                          *)
LEMMA ClearStep ==
    ASSUME TopInv, Edge160, RESET_N = 1, NEW p \in 0..Last, ClearMove(p)
    PROVE  ChangePage \/ ChangePageAtTick \/ (\E c \in Channels : Raise(c)) \/ Fall
<1>1. /\ At(p) /\ phase' = (IF TRG_PLS' = Low THEN "clear" ELSE "cut")
      /\ held' = held /\ PAGE_ADDR' = NoPage
      /\ TRG_PLS = Low <=> ~(6 <= p /\ p <= PlsTop + 5)
      /\ TRG_PLS' = Low <=> ~(5 <= p /\ p <= PlsTop + 4)
      /\ \A c \in Channels : TRG_PLS'[c] = 1 <=> 5 <= p /\ p <= PlsTop + 4 /\ Drive(c)
    BY DEF ClearMove
<1>2. /\ p \in Nat /\ p <= PlsTop + 6 /\ Place(p) /\ phase = PhaseAt(p)
      /\ PlsTop \in Nat /\ PlsTop >= 5
    BY <1>1, TimedAt, TopTypes
<1>3. FrontEdge /\ 0 <= skew
    BY DEF Edge160, BothTick, FrontTick
<1>4. TRG_PLS' # TRG_PLS => FrontTick
    BY DEF Edge160, BothTick
<1>5. CASE p = 5
  <2>1. TRG_PLS = Low /\ TRG_PLS' # Low /\ phase' = "cut"
        /\ \A c \in Channels : TRG_PLS'[c] = 1 <=> Drive(c)
      BY <1>1, <1>2, <1>5
  <2> QED
      BY <1>1, <1>4, <1>5, <2>1, RaiseStep
<1>6. CASE p = PlsTop + 5
  <2>1. TRG_PLS # Low /\ TRG_PLS' = Low /\ phase' = "clear"
      BY <1>1, <1>2, <1>6
  <2>2. phase = "pulse" /\ highAge = 3
      BY <1>1, <1>3, <1>6, FullLength
  <2> QED
      BY <1>1, <1>4, <2>1, <2>2, FallStep
<1>7. CASE p # 5 /\ p # PlsTop + 5
  <2>1. (5 <= p /\ p <= PlsTop + 4) <=> (6 <= p /\ p <= PlsTop + 5)
      BY <1>2, <1>7
  <2>2. \A c \in Channels : TRG_PLS[c] = 1 <=> (6 <= p /\ p <= PlsTop + 5) /\ Drive(c)
      BY <1>2 DEF Place
  <2>3. \A c \in Channels : TRG_PLS'[c] = 1 <=> (6 <= p /\ p <= PlsTop + 5) /\ Drive(c)
      BY <1>1, <2>1
  <2>4. TRG_PLS' \in [Channels -> Bit]
      BY <1>3, EdgeOfTop, TrgEdge
  <2>5. TRG_PLS' = TRG_PLS
      BY <2>2, <2>3, <2>4, SameLevel
  <2>6. phase' = IF phase = "pulse" THEN "cut" ELSE "clear"
      BY <1>1, <1>2, <1>7, <2>1 DEF PhaseAt
  <2>7. phase \in {"held", "pulse", "after"}
      BY <1>2 DEF PhaseAt
  <2> QED
      BY <1>1, <2>5, <2>6, <2>7, ClearOnly
<1> QED
    BY <1>5, <1>6, <1>7

(* Every step of the composition is one of PtmchReg, or leaves it.         *)
LEMMA TopStepReg ==
    ASSUME TopInv, [TopNext]_topVars
    PROVE  [RegNext]_regVars
<1>1. CASE BackTick
  <2>1. phase = "cut" => phaseAge = 0
    <3>1. phase = "cut" => phaseAge = 0 \/ skew > 0
        BY DEF TopInv, PulseInv, InCut
    <3>2. skew <= 0 /\ skew \in Int
        BY <1>1, TopTypes DEF BackTick
    <3> QED
        BY <3>1, <3>2
  <2>2. RegTick100
      BY <1>1, <2>1 DEF BackTick, RegTick100, Edge100
  <2> QED
      BY <2>2 DEF RegNext
<1>2. CASE Edge160 /\ RESET_N = 0
  <2>1. FrontTick /\ UNCHANGED <<PAGE_ADDR, TRG_PLS, phase, phaseAge, held, want>>
      BY <1>2, DarkPulseInv
  <2> QED
      BY <2>1, FrontAlone DEF regVars, cntVars, cntPins, regEnv
<1>3. CASE Edge160 /\ RESET_N = 1
  <2>1. \/ IdleMove \/ LoadMove \/ CutMove
        \/ \E p \in 0..Last, q \in 0..Last : PulseMove(p, q)
        \/ \E p \in 0..Last : ClearMove(p)
      BY <1>3, MoveOf DEF Edge160, FrontTick, BothTick
  <2>2. CASE IdleMove
      BY <1>3, <2>2, StillStep DEF IdleMove
  <2>3. CASE LoadMove
      BY <1>3, <2>3, LoadStep DEF RegNext
  <2>4. CASE CutMove
    <3>1. /\ phase = "cut" /\ phase' = "clear" /\ held' = held /\ PAGE_ADDR' = PAGE_ADDR
          /\ TRG_PLS # Low /\ TRG_PLS' = Low
        BY <2>4 DEF CutMove
    <3>2. FrontTick
        BY <1>3, <3>1 DEF Edge160, BothTick
    <3>3. Fall
        BY <3>1, <3>2, FallStep
    <3> QED
        BY <3>3 DEF RegNext
  <2>5. ASSUME NEW p \in 0..Last, NEW q \in 0..Last, PulseMove(p, q)
        PROVE  [RegNext]_regVars
      BY <1>3, <2>5, PulseStep DEF RegNext
  <2>6. ASSUME NEW p \in 0..Last, ClearMove(p) PROVE [RegNext]_regVars
      BY <1>3, <2>6, ClearStep DEF RegNext
  <2> QED
      BY <2>1, <2>2, <2>3, <2>4, <2>5, <2>6
<1>4. ASSUME NEW b \in Bit, SendBit(b) PROVE UNCHANGED regVars
    BY <1>4, BitUnchanged
<1>5. CASE Fall_CS \/ Rise_CS
    BY <1>5, CsUnchanged
<1>6. CASE Release
    BY <1>6 DEF Release, RegNext
<1>7. CASE UNCHANGED topVars
    BY <1>7 DEF topVars
<1>8. RESET_N \in {0, 1}
    BY DEF TopInv, FrontInv, FrontTypes, Bit
<1> QED
    BY <1>1, <1>2, <1>3, <1>4, <1>5, <1>6, <1>7, <1>8 DEF TopNext, Edge160
-----------------------------------------------------------------------------
(* The invariant                                                           *)

(* What is assumed of the constants does not depend on the state.          *)
LEMMA TimesFixed == TimesAssumed' <=> TimesAssumed
BY DEF TimesAssumed, LogAssumed, Page, Vector

(* Nothing moves.                                                          *)
LEMMA StutterPulseInv ==
    ASSUME TopInv, UNCHANGED topVars
    PROVE  FrontInv' /\ PulseInv'
<1>1. /\ UNCHANGED <<RESET_N, TRG_PLS, PAGE_ADDR, phase, phaseAge, held, highAge, lowAge, seen,
                     bus, window, skew, doneAge, watched, hurried, frames, frontRegs>>
    BY DEF topVars, regVars, cntVars, cntPins, cntEnv, portRegs, regEnv, tally
<1>2. FrontInv' /\ Way' = Way /\ Stage' = Stage
    BY <1>1, SameFront
<1>3. sent' = sent /\ fresh' = fresh
    BY <1>1 DEF frontRegs
<1>4. /\ (Front!SentWord)' = Front!SentWord
      /\ (Front!AddrOf(Front!SentWord))' = Front!AddrOf(Front!SentWord)
      /\ (Front!Complete' <=> Front!Complete) /\ (Hit' <=> Hit)
      /\ \A c \in Channels : Drive(c)' <=> Drive(c)
    BY <1>1, <1>3, SameWord
<1>5. (Low)' = Low
    BY DEF Low
<1>6. InClear'
    BY <1>1, <1>2, <1>4, <1>5, ZeroFixed DEF TopInv, PulseInv, InClear, frontRegs
<1>7. InCut'
    BY <1>1, <1>4, ZeroFixed DEF TopInv, PulseInv, InCut, frontRegs
<1>8. InHeld'
  <2>1. ASSUME NEW p \in 0..Last, At(p) PROVE At(p)'
    <3>1. Place(p)'
        BY <1>1, <1>4, <2>1 DEF At, Place, frontRegs
    <3>2. Timed(p)'
        BY <1>1, <1>3, <1>4, <2>1 DEF At, Timed, frontRegs, Last
    <3> QED
        BY <1>1, <2>1, <3>1, <3>2 DEF At, PhaseAt
  <2> QED
      BY <1>1, <1>4, <2>1, ZeroFixed DEF TopInv, PulseInv, InHeld, frontRegs, Last
<1>9. PageKept'
  <2>1. PageOut' = PageOut
      BY <1>1 DEF PageOut, frontRegs, Front!AddrOf, Front!Slice, Slice
  <2> QED
      BY <1>1, <1>4, <2>1, ZeroFixed DEF TopInv, PulseInv, PageKept, frontRegs
<1>10. ASSUME NEW c \in Channels PROVE Open(c)' <=> Open(c)
    BY <1>1, <1>3, OpenNext DEF Open, frontRegs
<1>11. Tallied'
    BY <1>1, <1>3, <1>10, TallyKept DEF TopInv, PulseInv, Tallied
<1>12. TallyTypes'
    BY <1>1, TallyTyped, TopTypes
<1> QED
    BY <1>2, <1>6, <1>7, <1>8, <1>9, <1>11, <1>12 DEF PulseInv

(* Every step keeps the inductive invariant.                               *)
LEMMA TopStepInv == TopInv /\ [TopNext]_topVars => TopInv'
<1> SUFFICES ASSUME TopInv, [TopNext]_topVars PROVE TopInv'
    OBVIOUS
<1>1. TimesAssumed' /\ RegInv'
    BY TimesFixed, TopStepReg, RegStepInv DEF TopInv
<1>2. CASE Edge160
  <2>1. FrontEdge
      BY <1>2 DEF Edge160, FrontTick, BothTick
  <2>2. RESET_N \in {0, 1}
      BY DEF TopInv, FrontInv, FrontTypes, Bit
  <2> QED
      BY <1>1, <1>2, <2>1, <2>2, EdgeOfTop, EdgePulseInv, DarkPulseInv DEF TopInv
<1>3. CASE BackTick
    BY <1>1, <1>3, BackPulseInv DEF TopInv
<1>4. ASSUME NEW b \in Bit, SendBit(b) PROVE TopInv'
    BY <1>1, <1>4, BitPulseInv DEF TopInv
<1>5. CASE Fall_CS
    BY <1>1, <1>5, FallPulseInv DEF TopInv
<1>6. CASE Rise_CS
    BY <1>1, <1>6, RisePulseInv DEF TopInv
<1>7. CASE Release
    BY <1>1, <1>7, ReleasePulseInv DEF TopInv
<1>8. CASE UNCHANGED topVars
    BY <1>1, <1>8, StutterPulseInv DEF TopInv
<1> QED
    BY <1>2, <1>3, <1>4, <1>5, <1>6, <1>7, <1>8 DEF TopNext, Edge160

(* It holds when the device is switched on.                                *)
LEMMA TopInitInv == TimesAssumed /\ TopInit => TopInv
<1> SUFFICES ASSUME TimesAssumed, TopInit PROVE TopInv
    OBVIOUS
<1>1. RegInit /\ Front!Init /\ RegInv
    BY RegInitInv DEF TopInit, TimesAssumed
<1>2. /\ RESET_N = 0 /\ SPI_CS = 1 /\ window = Front!ResetWindows
      /\ sr_inst_cnt = 0 /\ sr_inst_sht = Front!Zero /\ PTMCH_RST_N = 0
      /\ ar_inst_cnt_160M_1d = 0 /\ sr_inst_cnt_160M_2d = 0
      /\ sr_inst_cnt_160M_3d = 0 /\ sr_inst_cnt_160M_sync = 0
      /\ sr_inst_chk = Front!Zero
      /\ ar_inst_mch_n_1d = 1 /\ sr_inst_mch_n_2d = 1 /\ sr_inst_mch_n_3d = 1
      /\ ar_spi_cs_1d = 0 /\ sr_spi_cs_2d = 0 /\ sr_spi_cs_3d = 0 /\ sr_cs_edge_n = 1
      /\ sr_inst_edge_n = 1 /\ sr_pls_cnt = 1 /\ sr_trg_pls = 0
      /\ csAge = 0 /\ spiAge = 1 /\ sent = <<>> /\ fresh = FALSE /\ clean = FALSE
    BY <1>1 DEF Front!Init
<1>3. /\ phase = "clear" /\ phaseAge = 0 /\ PAGE_ADDR = NoPage /\ bus = Idle
      /\ TRG_PLS = Low /\ highAge = 0 /\ seen = Low /\ watched = Low /\ hurried = Low
      /\ skew \in 0..7 /\ doneAge = 0 /\ frames = 0
    BY <1>1 DEF TopInit, RegInit, CntInit, Low, Period100
<1>4. InstLen \in Nat /\ InstLen >= 2 /\ PlsTop \in Nat /\ PlsTop > 1 /\ CsSetup \in Nat
    BY Sizes
<1>5. FrontInv
  <2>1. FrontTypes
    <3>1. sent \in Seq(Bit) /\ Len(sent) = 0 /\ ~(sent # <<>>)
        BY <1>2
    <3>2. fresh \in BOOLEAN /\ clean \in BOOLEAN /\ (clean <=> sent # <<>>)
        BY <1>2, <3>1
    <3>3. sr_pls_cnt \in 0..PlsTop /\ csAge \in 0..CsSetup /\ 0 \in 0..InstLen
        BY <1>2, <1>4
    <3> QED
        BY <1>2, <1>4, <3>1, <3>2, <3>3 DEF FrontTypes, Bit
  <2>2. Dark /\ Bus /\ Windowed
      BY <1>2 DEF Dark, Bus, Windowed
  <2>3. Captured
    <3>1. InStep
        BY <1>2, ReceivedNone DEF InStep, Front!SentWord
    <3>2. Still /\ Piped
        BY <1>2, <1>4 DEF Still, Piped
    <3> QED
        BY <1>2, <3>1, <3>2 DEF Captured
  <2> QED
      BY <2>1, <2>2, <2>3 DEF FrontInv
<1>6. InClear
  <2>1. Way = 0
      BY <1>2, <1>4 DEF Way
  <2> QED
      BY <1>2, <1>3, <1>4, <2>1 DEF InClear
<1>7. InCut /\ InHeld /\ PageKept
    BY <1>2, <1>3, NoCommand DEF InCut, InHeld, PageKept, PageOut
<1>8. ~Front!Complete
    BY <1>2, <1>4 DEF Front!Complete
<1>9. TallyTypes
  <2>1. DoneTop \in Nat /\ MaxFrames \in Nat
      BY Sizes DEF DoneTop
  <2>2. Low \in [Channels -> Nat]
      BY DEF Low
  <2> QED
      BY <1>3, <2>1, <2>2 DEF TallyTypes
<1>10. Tallied
    BY <1>2, <1>3, <1>8, LowType DEF Tallied, Open, Owed
<1> QED
    BY <1>1, <1>5, <1>6, <1>7, <1>9, <1>10 DEF TopInv, PulseInv
-----------------------------------------------------------------------------
(* What follows                                                            *)

(* By the time DoneTop edges have passed since the last bit, no command    *)
(* waits to be counted: each position bounds doneAge below that.           *)
LEMMA NothingOwed ==
    ASSUME TopInv, lowAge = Quiet, Front!Complete => doneAge = DoneTop, NEW c \in Channels
    PROVE  ~Owed(c)
<1> SUFFICES ASSUME Owed(c) PROVE FALSE
    OBVIOUS
<1>1. /\ Front!Complete /\ Command(c) /\ doneAge = DoneTop /\ Hit
      /\ \/ phase = "clear" /\ sr_inst_cnt = InstLen
         \/ phase = "held"
         \/ phase \in {"pulse", "cut"} /\ highAge <= 1
    BY DEF Owed, Open, Hit
<1>2. /\ DoneTop > PlsTop + 10 /\ DoneTop >= FrameGap + PlsTop /\ PlsTop \in Nat /\ PlsTop >= 5
      /\ DoneTop \in Nat /\ FrameGap \in Nat
    BY TopTypes
<1>3. highAge = 0
    BY TopTypes DEF TopInv, PulseInv, Tallied, Quiet
<1>4. CASE phase = "clear"
  <2>1. doneAge <= Stage
      BY <1>1, <1>4 DEF TopInv, PulseInv, InClear
  <2>2. Stage \in 0..4
      BY WayTypes DEF TopInv
  <2> QED
      BY <1>1, <1>2, <2>1, <2>2
<1>5. CASE phase = "cut"
  <2>1. highAge = 3 \/ 8 * highAge >= skew + 12
      BY <1>1, <1>2, <1>5 DEF TopInv, PulseInv, InCut
  <2> QED
      BY <1>3, <2>1, TopTypes
<1>6. CASE phase \in {"held", "pulse"}
  <2>1. PICK p \in 0..Last : At(p)
      BY <1>6 DEF TopInv, PulseInv, InHeld
  <2>2. p <= PlsTop + 5 /\ p \in Nat
      BY <1>6, <2>1, TimedAt, <1>2 DEF PhaseAt
  <2>3. doneAge <= p + 5
      BY <1>1, <1>2, <2>1, <2>2, TimedAt
  <2> QED
      BY <1>1, <1>2, <2>2, <2>3
<1> QED
    BY <1>1, <1>4, <1>5, <1>6

(* No counter is ahead of the commands, and when all is quiet none that    *)
(* had its time is missing.                                                *)
LEMMA InvFramesCounted == TopInv => FramesCounted
<1> SUFFICES ASSUME TopInv PROVE FramesCounted
    OBVIOUS
<1>1. CntTypeOK /\ CntInv /\ Bounded /\ MaxPulses < CntMax
    BY DEF TopInv, RegInv, RegTypeOK, LogInv, LogAssumed
<1>2. \A c \in Channels : /\ sr_counter[c] \in Nat /\ seen[c] \in Nat /\ watched[c] \in Nat
                          /\ hurried[c] \in Nat /\ seen[c] < CntMax
    BY <1>1, TopTypes, RegConstants DEF Bounded, CntTypeOK
<1>3. \A c \in Channels : c \in Known
    BY <1>2 DEF Known
<1>4. \A c \in Channels : seen[c] <= watched[c]
    BY DEF TopInv, PulseInv, Tallied
<1>5. ASSUME NEW c \in Channels PROVE sr_counter[c] <= watched[c]
  <2>1. sr_counter[c] <= seen[c]
      BY <1>1, <1>3, InvInStep DEF CountsInStep
  <2> QED
      BY <1>2, <1>4, <2>1
<1>6. ASSUME lowAge = Quiet, Front!Complete => doneAge = DoneTop, NEW c \in Channels
      PROVE  sr_counter[c] >= watched[c] - hurried[c]
  <2>1. sr_counter[c] = Saturated(seen[c])
      BY <1>1, <1>3, <1>6, InvCounts DEF CountsPulses
  <2>2. sr_counter[c] = seen[c]
      BY <1>2, <2>1 DEF Saturated
  <2>3. watched[c] <= seen[c] + hurried[c]
      BY <1>6, NothingOwed DEF TopInv, PulseInv, Tallied
  <2> QED
      BY <1>2, <2>2, <2>3
<1> QED
    BY <1>5, <1>6 DEF FramesCounted

(* The inductive invariant holds in every instance of the composition with *)
(* a pulse and an instruction long enough.                                 *)
THEOREM TopInvariant == TimesAssumed /\ TopSpec => []TopInv
BY TopInitInv, TopStepInv, PTL DEF TopSpec

(* The front end, its master and the two clocks do only what PtmchReg lets *)
(* its environment do: the page is stable long enough before each pulse    *)
(* and until the pulse ends or the next frame cuts it, and pulses keep     *)
(* their distance, whatever the phase of the clocks.                       *)
THEOREM TopImplementsReg == TimesAssumed /\ TopSpec => ImplementsReg
<1>1. TopInit => RegInit
    BY DEF TopInit
<1>2. TopInv /\ [TopNext]_topVars => [RegNext]_regVars
    BY TopStepReg
<1> QED
    BY <1>1, <1>2, TopInvariant, PTL DEF TopSpec, ImplementsReg

(* From the bus to the registers the host reads: no counter is ever ahead  *)
(* of the complete commands in their windows, none that had FrameGap       *)
(* clocks to itself is missing once all is quiet, and the log then shows   *)
(* the page of each.                                                       *)
THEOREM FramesLoggedAlways == TimesAssumed /\ TopSpec => []FramesLogged
<1>1. TopInv => FramesLogged
    BY InvFramesCounted DEF TopInv, RegInv, LogInv, Logged, LogTrue, FramesLogged
<1> QED
    BY <1>1, TopInvariant, PTL
=============================================================================
