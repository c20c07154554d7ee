------------------------------- MODULE PtmchTrg -------------------------------
(***************************************************************************)
(* The front end of the detector: ptmch_rst (per-frame reset) and          *)
(* ptmch_trg (SPI capture, transfer to the 160 MHz clock, command and      *)
(* address match, trigger pulse).                                          *)
(*                                                                         *)
(* Every register keeps the name it has in the source.  There are two      *)
(* clock domains: SPI_CLK shifts bits in, CLK160M does everything else.    *)
(* An action is one clock edge (or one change of an input pin), so the     *)
(* interleavings of the actions are the relative orders of the edges; two  *)
(* edges that coincide are an action of their own, in which the capturing  *)
(* flip-flops may see any mix of old and new bits.                         *)
(***************************************************************************)
EXTENDS PtmchBits, FiniteSets

CONSTANTS
    InstLen,    \* bits of an instruction; the source has 32 (6'b100000)
    OpLen,      \* bits of its opcode, the most significant ones; 8
    PlsTop,     \* the pulse counter stops here; 4'b1111
    Channels,   \* the five command classes, TRG_PLS[0..4]
    CmdOf,      \* CmdOf[c]: the opcodes of command class c
    HostWrites, \* the register writes the host may do: [ch, side, addr]
    LiveWrites, \* TRUE: also while instructions are running
    CsSetup,    \* CLK160M edges between CS falling and the first SPI_CLK
    CsHigh,     \* CLK160M edges CS stays high between two frames
    WriteGap,   \* CLK160M edges between two register writes
    Resets      \* TRUE: RESET_N may be asserted at any time

AddrLen == InstLen - OpLen
Sides   == {"low", "high"}
Address == Vector(AddrLen)
Windows == [Channels -> [Sides -> Address]]

ASSUME LenAssumption ==
    /\ InstLen \in Nat /\ OpLen \in Nat /\ 0 < OpLen /\ OpLen < InstLen
ASSUME PulseAssumption == PlsTop \in Nat /\ PlsTop > 1
(* No opcode is zero, and the classes share none: ptmch_trg.sv:44-50.      *)
ASSUME CmdAssumption ==
    /\ CmdOf \in [Channels -> SUBSET Vector(OpLen)]
    /\ \A c \in Channels : AllZero(OpLen) \notin CmdOf[c]
    /\ \A c, d \in Channels : c # d => CmdOf[c] \cap CmdOf[d] = {}
ASSUME HostAssumption ==
    /\ HostWrites \subseteq [ch : Channels, side : Sides, addr : Address]
    /\ LiveWrites \in BOOLEAN /\ Resets \in BOOLEAN
(* Four edges carry CS through the synchroniser into PTMCH_RST_N and the   *)
(* fifth ends that reset; the test bench waits for six (ptmch_top_tb.sv).  *)
ASSUME TimingAssumption ==
    /\ CsSetup \in Nat /\ CsSetup >= 5
    /\ CsHigh \in Nat /\ 1 <= CsHigh /\ CsHigh <= CsSetup
    /\ WriteGap \in Nat

VARIABLES
    \* --- input pins and the registers of ptmch_reg -----------------------
    RESET_N, SPI_CS,
    win,                      \* {PRGEXCT,...}_{LOW,HIGH}_ADDR
    \* --- SPI_CLK domain, cleared by PTMCH_RST_N --------------------------
    sr_inst_cnt, sr_inst_sht,
    \* --- CLK160M domain, cleared by PTMCH_RST_N --------------------------
    PTMCH_RST_N,
    ar_inst_cnt_160M_1d, sr_inst_cnt_160M_2d, sr_inst_cnt_160M_3d,
    sr_inst_cnt_160M_sync,
    ar_inst_sht_160M_1d, sr_inst_sht_160M_2d, sr_inst_sht_160M_3d,
    sr_inst_chk,
    ar_inst_mch_n_1d, sr_inst_mch_n_2d, sr_inst_mch_n_3d,
    \* --- CLK160M domain, cleared by RESET_N ------------------------------
    ar_spi_cs_1d, sr_spi_cs_2d, sr_spi_cs_3d, sr_cs_edge_n,
    sr_inst_edge_n, sr_pls_cnt, sr_trg_pls, TRG_PLS,
    ar_win_1d, sr_win_2d, sr_win_3d, sr_win_sync,
    \* --- time, in CLK160M edges, capped ----------------------------------
    csAge,                    \* since the last change of SPI_CS or reset
    spiAge,                   \* since the last SPI_CLK edge: 0 or 1
    winAge,                   \* since the last register write
    \* --- history: what the bus master did --------------------------------
    sent,                     \* the bits of the latest frame, at most InstLen
    fresh,                    \* CS fell, no bit of the new frame yet
    clean                     \* no RESET_N since the frame in sent began

pins    == <<RESET_N, SPI_CS, win>>
spiRegs == <<sr_inst_cnt, sr_inst_sht>>
instRegs == <<PTMCH_RST_N, ar_inst_cnt_160M_1d, sr_inst_cnt_160M_2d,
              sr_inst_cnt_160M_3d, sr_inst_cnt_160M_sync,
              ar_inst_sht_160M_1d, sr_inst_sht_160M_2d, sr_inst_sht_160M_3d,
              sr_inst_chk, ar_inst_mch_n_1d, sr_inst_mch_n_2d, sr_inst_mch_n_3d>>
csRegs  == <<ar_spi_cs_1d, sr_spi_cs_2d, sr_spi_cs_3d, sr_cs_edge_n>>
plsRegs == <<sr_inst_edge_n, sr_pls_cnt, sr_trg_pls, TRG_PLS>>
winRegs == <<ar_win_1d, sr_win_2d, sr_win_3d, sr_win_sync>>
resetRegs == <<csRegs, plsRegs, winRegs>>
ages    == <<csAge, spiAge, winAge>>
history == <<sent, fresh, clean>>
vars    == <<pins, spiRegs, instRegs, resetRegs, ages, history>>

-----------------------------------------------------------------------------
(* Values                                                                  *)

Word  == Vector(InstLen)
Zero  == AllZero(InstLen)
(* A counter wide enough for InstLen, whose top bit is set from InstLen on.*)
Count == 0..(2 * InstLen - 1)

Opcode(w)  == Slice(w, AddrLen, OpLen)
AddrOf(w)  == Slice(w, 0, AddrLen)
SentWord   == Received(sent, InstLen)
Complete   == Len(sent) = InstLen

(* c_prgex_mch and its siblings, for the window values in ws.              *)
InWindow(w, c, ws) ==
    /\ Opcode(w) \in CmdOf[c]
    /\ Geq(AddrOf(w), ws[c]["low"])
    /\ Geq(ws[c]["high"], AddrOf(w))
(* A mutant: the upper bound of the window is not looked at.               *)
c_inst_mch_n_lowOnly ==
    IF \E c \in Channels : /\ Opcode(sr_inst_chk) \in CmdOf[c]
                          /\ Geq(AddrOf(sr_inst_chk), sr_win_sync[c]["low"])
    THEN 0 ELSE 1
c_inst_mch_n ==
    IF \E c \in Channels : InWindow(sr_inst_chk, c, sr_win_sync) THEN 0 ELSE 1

(* A count caught in transit.  Its low bits are arbitrary, its top bit is  *)
(* set only if that bit is set on one of the two sides.                    *)
TornCount(old, new) ==
    {n \in Count : n \in {old, new} \/ (old # new /\ (n < InstLen \/ new = InstLen))}

ResetWindows == [c \in Channels |->
    [s \in Sides |-> IF s = "low" THEN AllZero(AddrLen) ELSE AllOne(AddrLen)]]
ZeroWindows == [c \in Channels |-> [s \in Sides |-> AllZero(AddrLen)]]

(* A written window has passed its synchroniser after this many edges.     *)
WinDelay == 4
WinTop == IF WriteGap > WinDelay THEN WriteGap ELSE WinDelay

-----------------------------------------------------------------------------
(* SPI_CLK domain                                                          *)

(* A mutant: the bit counter does not stop.                                *)
NextCount_running == sr_inst_cnt + 1

NextCount == IF sr_inst_cnt = InstLen THEN InstLen ELSE sr_inst_cnt + 1
NextShift(b) ==
    IF sr_inst_cnt = InstLen THEN sr_inst_sht ELSE ShiftIn(sr_inst_sht, b)

(* The master's side of a rising SPI_CLK: the first bit after CS fell      *)
(* starts a new frame, bits after the InstLen-th are data, not command.    *)
SendBit(b) ==
    /\ SPI_CS = 0 /\ csAge >= CsSetup /\ spiAge = 1
    /\ sent' = IF fresh THEN <<b>>
               ELSE IF clean /\ Len(sent) < InstLen THEN Append(sent, b) ELSE sent
    /\ fresh' = FALSE
    /\ clean' = (fresh \/ clean)

(* A rising SPI_CLK between two edges of CLK160M.                          *)
SpiRise(b) ==
    /\ SendBit(b)
    /\ sr_inst_cnt' = IF PTMCH_RST_N = 0 THEN 0 ELSE NextCount
    /\ sr_inst_sht' = IF PTMCH_RST_N = 0 THEN Zero ELSE NextShift(b)
    /\ spiAge' = 0
    /\ UNCHANGED <<pins, instRegs, resetRegs, csAge, winAge>>

-----------------------------------------------------------------------------
(* CLK160M domain                                                          *)

(* ptmch_rst: PTMCH_RST_N is a register, so it follows the CS edge by one  *)
(* clock; falling, it clears its registers (the SPI ones too) at once.     *)
(* A mutant: only RESET_N clears the frame.                                *)
FrameReset_powerOnly == RESET_N = 0
FrameReset == RESET_N = 0 \/ sr_cs_edge_n = 0
Cleared    == PTMCH_RST_N = 0 \/ FrameReset

(* The synchronised count lets the instruction through.                    *)
(* Mutants: the first synchroniser stage; a count that is never reached.   *)
CountFull_early == ar_inst_cnt_160M_1d = InstLen
CountFull_over  == sr_inst_cnt_160M_sync > InstLen
CountFull == sr_inst_cnt_160M_sync = InstLen

(* The registers that PTMCH_RST_N clears.  cntPin/shtPin are the SPI       *)
(* registers after this instant, cntSeen/shtSeen what the first stage of   *)
(* each synchroniser captures of them.                                     *)
InstEdge(cntPin, shtPin, cntSeen, shtSeen) ==
    /\ PTMCH_RST_N' = IF FrameReset THEN 0 ELSE 1
    /\ IF Cleared
       THEN /\ sr_inst_cnt' = 0           /\ sr_inst_sht' = Zero
            /\ ar_inst_cnt_160M_1d' = 0   /\ ar_inst_sht_160M_1d' = Zero
            /\ sr_inst_cnt_160M_2d' = 0   /\ sr_inst_sht_160M_2d' = Zero
            /\ sr_inst_cnt_160M_3d' = 0   /\ sr_inst_sht_160M_3d' = Zero
            /\ sr_inst_cnt_160M_sync' = 0 /\ sr_inst_chk' = Zero
            /\ ar_inst_mch_n_1d' = 1
            /\ sr_inst_mch_n_2d' = 1
            /\ sr_inst_mch_n_3d' = 1
       ELSE /\ sr_inst_cnt' = cntPin
            /\ sr_inst_sht' = shtPin
            /\ ar_inst_cnt_160M_1d' = cntSeen
            /\ sr_inst_cnt_160M_2d' = ar_inst_cnt_160M_1d
            /\ sr_inst_cnt_160M_3d' = sr_inst_cnt_160M_2d
            /\ sr_inst_cnt_160M_sync' =
                 DiffDetect(sr_inst_cnt_160M_2d, sr_inst_cnt_160M_3d, sr_inst_cnt_160M_sync)
            /\ ar_inst_sht_160M_1d' = shtSeen
            /\ sr_inst_sht_160M_2d' = ar_inst_sht_160M_1d
            /\ sr_inst_sht_160M_3d' = sr_inst_sht_160M_2d
            /\ sr_inst_chk' = IF CountFull
                              THEN DiffDetect(sr_inst_sht_160M_2d, sr_inst_sht_160M_3d, sr_inst_chk)
                              ELSE sr_inst_chk
            /\ ar_inst_mch_n_1d' = c_inst_mch_n
            /\ sr_inst_mch_n_2d' = ar_inst_mch_n_1d
            /\ sr_inst_mch_n_3d' = sr_inst_mch_n_2d

(* SPI_CS through its synchroniser to the falling-edge pulse.              *)
CsFell == sr_spi_cs_2d = 0 /\ sr_spi_cs_3d = 1
CsReset ==
    /\ ar_spi_cs_1d' = 0 /\ sr_spi_cs_2d' = 0 /\ sr_spi_cs_3d' = 0
    /\ sr_cs_edge_n' = 1
CsEdge ==
    /\ ar_spi_cs_1d' = SPI_CS
    /\ sr_spi_cs_2d' = ar_spi_cs_1d
    /\ sr_spi_cs_3d' = sr_spi_cs_2d
    /\ sr_cs_edge_n' = IF CsFell THEN 0 ELSE 1

(* The match edge, the pulse counter, the pulse and the output selection.  *)
(* Mutants: a match seen by its level or one stage early, a pulse one      *)
(* clock short, outputs that ignore the opcode.                            *)
MatchStarts_level == sr_inst_mch_n_2d = 0
MatchStarts_early == ar_inst_mch_n_1d = 0 /\ sr_inst_mch_n_2d = 1
PulseDone_short == sr_pls_cnt >= PlsTop - 1
Drives_always(c) == TRUE
MatchStarts == sr_inst_mch_n_2d = 0 /\ sr_inst_mch_n_3d = 1
PulseDone == sr_pls_cnt = PlsTop
Drives(c) == Opcode(sr_inst_chk) \in CmdOf[c]

PlsReset ==
    /\ sr_inst_edge_n' = 1 /\ sr_pls_cnt' = 1 /\ sr_trg_pls' = 0
    /\ TRG_PLS' = [c \in Channels |-> 0]
PlsEdge ==
    /\ sr_inst_edge_n' = IF MatchStarts THEN 0 ELSE 1
    /\ sr_pls_cnt' = IF sr_inst_edge_n = 0 THEN 0
                     ELSE IF PulseDone THEN sr_pls_cnt ELSE sr_pls_cnt + 1
    /\ sr_trg_pls' = IF PulseDone THEN 0 ELSE 1
    /\ TRG_PLS' = [c \in Channels |-> IF Drives(c) THEN sr_trg_pls ELSE 0]

(* The ten window registers, each through its own synchroniser.  winSeen   *)
(* is what the first stages capture.                                       *)
WinReset ==
    /\ ar_win_1d' = ZeroWindows /\ sr_win_2d' = ZeroWindows
    /\ sr_win_3d' = ZeroWindows /\ sr_win_sync' = ZeroWindows
WinEdge(winSeen) ==
    /\ ar_win_1d' = winSeen
    /\ sr_win_2d' = ar_win_1d
    /\ sr_win_3d' = sr_win_2d
    /\ sr_win_sync' = [c \in Channels |-> [s \in Sides |->
          DiffDetect(sr_win_2d[c][s], sr_win_3d[c][s], sr_win_sync[c][s])]]

(* One rising edge of CLK160M.                                             *)
Edge160(cntPin, shtPin, cntSeen, shtSeen, winSeen) ==
    /\ InstEdge(cntPin, shtPin, cntSeen, shtSeen)
    /\ IF RESET_N = 0 THEN CsReset /\ PlsReset /\ WinReset
                      ELSE CsEdge /\ PlsEdge /\ WinEdge(winSeen)
    /\ csAge' = Older(csAge, CsSetup)

Tick160 ==
    /\ Edge160(sr_inst_cnt, sr_inst_sht, sr_inst_cnt, sr_inst_sht, win)
    /\ spiAge' = 1
    /\ winAge' = Older(winAge, WinTop)
    /\ UNCHANGED <<pins, history>>

(* SPI_CLK rises with CLK160M: the synchronisers capture torn values.      *)
SpiRiseAtTick(b) ==
    /\ PTMCH_RST_N = 1
    /\ SendBit(b)
    /\ \E n \in TornCount(sr_inst_cnt, NextCount),
          w \in Torn(sr_inst_sht, NextShift(b)) :
          Edge160(NextCount, NextShift(b), n, w, win)
    /\ spiAge' = 0
    /\ winAge' = Older(winAge, WinTop)
    /\ UNCHANGED pins

-----------------------------------------------------------------------------
(* The bus, the host and the reset                                         *)

CsFall ==
    /\ SPI_CS = 1 /\ csAge >= CsHigh
    /\ SPI_CS' = 0
    /\ csAge' = 0
    /\ fresh' = (RESET_N = 1)
    /\ UNCHANGED <<RESET_N, win, spiRegs, instRegs, resetRegs, spiAge, winAge, sent, clean>>

CsRise ==
    /\ SPI_CS = 0 /\ csAge >= CsSetup
    /\ SPI_CS' = 1
    /\ csAge' = 0
    /\ UNCHANGED <<RESET_N, win, spiRegs, instRegs, resetRegs, spiAge, winAge, history>>

(* The host sets the windows up before the first frame, or (LiveWrites)    *)
(* whenever it likes.                                                      *)
WriteWindow(r) ==
    /\ RESET_N = 1 /\ winAge >= WriteGap
    /\ LiveWrites \/ (SPI_CS = 1 /\ sent = <<>>)
    /\ win' = [win EXCEPT ![r.ch][r.side] = r.addr]

HostWrite(r) ==
    /\ WriteWindow(r)
    /\ winAge' = 0
    /\ UNCHANGED <<RESET_N, SPI_CS, spiRegs, instRegs, resetRegs, csAge, spiAge, history>>

HostWriteAtTick(r) ==
    /\ WriteWindow(r)
    /\ \E a \in Torn(win[r.ch][r.side], r.addr) :
          Edge160(sr_inst_cnt, sr_inst_sht, sr_inst_cnt, sr_inst_sht,
                  [win EXCEPT ![r.ch][r.side] = a])
    /\ spiAge' = 1
    /\ winAge' = 0
    /\ UNCHANGED <<RESET_N, SPI_CS, history>>

(* RESET_N clears its registers at once, and the window registers of       *)
(* ptmch_reg with them; PTMCH_RST_N follows at the next CLK160M edge.      *)
ResetAssert ==
    /\ Resets /\ RESET_N = 1
    /\ RESET_N' = 0
    /\ win' = ResetWindows
    /\ CsReset /\ PlsReset /\ WinReset
    /\ csAge' = 0 /\ winAge' = 0
    /\ sent' = <<>> /\ fresh' = FALSE /\ clean' = FALSE
    /\ UNCHANGED <<SPI_CS, spiRegs, instRegs, spiAge>>

(* The reset controller holds RESET_N over at least one CLK160M edge.      *)
ResetRelease ==
    /\ RESET_N = 0 /\ csAge >= 1
    /\ RESET_N' = 1
    /\ csAge' = 0 /\ winAge' = 0
    /\ UNCHANGED <<SPI_CS, win, spiRegs, instRegs, resetRegs, spiAge, history>>

-----------------------------------------------------------------------------
(* Power-up: the FPGA configures with RESET_N low and its clocks running.  *)
Init ==
    /\ RESET_N = 0 /\ SPI_CS = 1 /\ win = ResetWindows
    /\ sr_inst_cnt = 0 /\ sr_inst_sht = Zero
    /\ PTMCH_RST_N = 0
    /\ ar_inst_cnt_160M_1d = 0 /\ sr_inst_cnt_160M_2d = 0 /\ sr_inst_cnt_160M_3d = 0
    /\ sr_inst_cnt_160M_sync = 0
    /\ ar_inst_sht_160M_1d = Zero /\ sr_inst_sht_160M_2d = Zero
    /\ sr_inst_sht_160M_3d = Zero /\ sr_inst_chk = Zero
    /\ ar_inst_mch_n_1d = 1 /\ sr_inst_mch_n_2d = 1 /\ sr_inst_mch_n_3d = 1
    /\ ar_spi_cs_1d = 0 /\ sr_spi_cs_2d = 0 /\ sr_spi_cs_3d = 0 /\ sr_cs_edge_n = 1
    /\ sr_inst_edge_n = 1 /\ sr_pls_cnt = 1 /\ sr_trg_pls = 0
    /\ TRG_PLS = [c \in Channels |-> 0]
    /\ ar_win_1d = ZeroWindows /\ sr_win_2d = ZeroWindows
    /\ sr_win_3d = ZeroWindows /\ sr_win_sync = ZeroWindows
    /\ csAge = 0 /\ spiAge = 1 /\ winAge = 0
    /\ sent = <<>> /\ fresh = FALSE /\ clean = FALSE

Next ==
    \/ Tick160
    \/ \E b \in Bit : SpiRise(b) \/ SpiRiseAtTick(b)
    \/ CsFall \/ CsRise
    \/ \E r \in HostWrites : HostWrite(r) \/ HostWriteAtTick(r)
    \/ ResetAssert \/ ResetRelease

(* The clock keeps running and the reset controller lets go.               *)
Spec == Init /\ [][Next]_vars /\ WF_vars(Tick160) /\ WF_vars(ResetRelease)

-----------------------------------------------------------------------------
TypeOK ==
    /\ RESET_N \in Bit /\ SPI_CS \in Bit /\ PTMCH_RST_N \in Bit
    /\ win \in Windows
    /\ sr_inst_cnt \in 0..InstLen /\ sr_inst_sht \in Word
    /\ ar_inst_cnt_160M_1d \in Count /\ sr_inst_cnt_160M_2d \in Count
    /\ sr_inst_cnt_160M_3d \in Count /\ sr_inst_cnt_160M_sync \in Count
    /\ ar_inst_sht_160M_1d \in Word /\ sr_inst_sht_160M_2d \in Word
    /\ sr_inst_sht_160M_3d \in Word /\ sr_inst_chk \in Word
    /\ ar_inst_mch_n_1d \in Bit /\ sr_inst_mch_n_2d \in Bit /\ sr_inst_mch_n_3d \in Bit
    /\ ar_spi_cs_1d \in Bit /\ sr_spi_cs_2d \in Bit /\ sr_spi_cs_3d \in Bit
    /\ sr_cs_edge_n \in Bit /\ sr_inst_edge_n \in Bit
    /\ sr_pls_cnt \in 0..PlsTop /\ sr_trg_pls \in Bit /\ TRG_PLS \in [Channels -> Bit]
    /\ ar_win_1d \in Windows /\ sr_win_2d \in Windows
    /\ sr_win_3d \in Windows /\ sr_win_sync \in Windows
    /\ csAge \in 0..CsSetup /\ spiAge \in Bit /\ winAge \in 0..WinTop
    /\ sent \in Seq(Bit) /\ Len(sent) <= InstLen
    /\ fresh \in BOOLEAN /\ clean \in BOOLEAN

(* The held instruction is the frame on the bus: outside a frame broken by *)
(* RESET_N, sr_inst_chk is clear or is exactly the first InstLen bits the  *)
(* master clocked since CS fell - never a prefix, a torn sample, a mix of  *)
(* two frames, or the instruction of an earlier frame.                     *)
HeldIsSent ==
    clean => sr_inst_chk = Zero \/ (Complete /\ sr_inst_chk = SentWord)

(* Whatever the host does to the windows meanwhile: a trigger output is    *)
(* high only while the latest frame is a complete instruction of its own   *)
(* command class, never for a short frame and never for another class.     *)
TriggerOwnClass ==
    \A c \in Channels :
        clean /\ TRG_PLS[c] = 1 => Complete /\ Opcode(SentWord) \in CmdOf[c]

(* Windows programmed before the frames: the page of the instruction is    *)
(* inside the window of its class as well.                                 *)
TriggerIsCommand ==
    \A c \in Channels :
        clean /\ TRG_PLS[c] = 1 => Complete /\ InWindow(SentWord, c, win)

(* The comparators never see an address the host did not write: torn       *)
(* samples of a register write in progress stop at the difference detect.  *)
WindowsGenuine ==
    \A c \in Channels, s \in Sides :
        sr_win_sync[c][s] \in
            {AllZero(AddrLen), ResetWindows[c][s]}
                \union {r.addr : r \in {h \in HostWrites : h.ch = c /\ h.side = s}}

(* WinDelay clocks after a write the comparators use what the host wrote.  *)
WindowsSettle == RESET_N = 1 /\ winAge >= WinDelay => sr_win_sync = win

(* Every complete instruction reaches the comparators in the end, even on  *)
(* a bus that keeps clocking data behind it, unless the next frame or a    *)
(* reset comes first.                                                      *)
InstructionArrives ==
    Complete /\ clean /\ ~fresh ~> sr_inst_chk = SentWord \/ fresh \/ ~clean

(* Together: a comparator works with an address that the host wrote, and   *)
(* soon with the last one.                                                 *)
WindowsTrue == WindowsGenuine /\ WindowsSettle
=============================================================================
