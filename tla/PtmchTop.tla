------------------------------- MODULE PtmchTop -------------------------------
(***************************************************************************)
(* ptmch_top: the front end (PtmchTrg) and the CLK100M half (PtmchReg) in  *)
(* one state space.  The two clocks come from one PLL: 160 MHz and 100 MHz,*)
(* so eight periods of one are five of the other, at any phase.  The bus   *)
(* master is as in PtmchTrg, but its edges fall between those of CLK160M.  *)
(*                                                                         *)
(* The host port is idle here: PtmchReg has its transfers.                 *)
(*                                                                         *)
(* What PtmchReg calls its environment (phase, held) is here a record of   *)
(* what the front end does, kept by FrontMoves.                            *)
(***************************************************************************)
EXTENDS PtmchReg

CONSTANTS
    InstLen, OpLen, PlsTop, CmdOf, CsSetup, CsHigh,   \* see PtmchTrg
    MaxFrames,   \* bound: falls of CS
    FrameGap     \* CLK160M edges from the last bit of a command to the next
                 \* fall of CS with which it is sure to be counted

ASSUME TopAssumption ==
    /\ InstLen \in Nat /\ OpLen \in Nat /\ 0 < OpLen /\ OpLen < InstLen
    /\ PageLen = InstLen - OpLen
    /\ PlsTop \in Nat /\ PlsTop > 1
    /\ CmdOf \in [Channels -> SUBSET Vector(OpLen)]
    /\ \A c \in Channels : AllZero(OpLen) \notin CmdOf[c]
    /\ \A c, d \in Channels : c # d => CmdOf[c] \cap CmdOf[d] = {}
    /\ CsSetup \in Nat /\ CsSetup >= 5
    /\ CsHigh \in Nat /\ 1 <= CsHigh /\ CsHigh <= CsSetup
    /\ MaxFrames \in Nat /\ FrameGap \in Nat

VARIABLES
    \* --- the front end, see PtmchTrg --------------------------------------
    SPI_CS, sr_inst_cnt, sr_inst_sht, PTMCH_RST_N,
    ar_inst_cnt_160M_1d, sr_inst_cnt_160M_2d, sr_inst_cnt_160M_3d,
    sr_inst_cnt_160M_sync,
    ar_inst_sht_160M_1d, sr_inst_sht_160M_2d, sr_inst_sht_160M_3d,
    sr_inst_chk,
    ar_inst_mch_n_1d, sr_inst_mch_n_2d, sr_inst_mch_n_3d,
    ar_spi_cs_1d, sr_spi_cs_2d, sr_spi_cs_3d, sr_cs_edge_n,
    sr_inst_edge_n, sr_pls_cnt, sr_trg_pls,
    ar_win_1d, sr_win_2d, sr_win_3d, sr_win_sync,
    csAge, spiAge, winAge, sent, fresh, clean,
    \* --- the composition --------------------------------------------------
    skew,        \* time to the next edge of CLK100M less that to the next of
                 \* CLK160M, in units of 1.25 ns
    doneAge,     \* CLK160M edges since the frame in sent became complete
    watched,     \* history: watched[c], complete commands of c in their window
    hurried,     \* history: those of them whose next frame came too soon
    frames       \* history: falls of CS

Front == INSTANCE PtmchTrg WITH
    win <- window, HostWrites <- {}, LiveWrites <- FALSE, WriteGap <- 0,
    Resets <- FALSE

frontRegs == <<
    SPI_CS, sr_inst_cnt, sr_inst_sht, PTMCH_RST_N,
    ar_inst_cnt_160M_1d, sr_inst_cnt_160M_2d, sr_inst_cnt_160M_3d,
    sr_inst_cnt_160M_sync,
    ar_inst_sht_160M_1d, sr_inst_sht_160M_2d, sr_inst_sht_160M_3d,
    sr_inst_chk,
    ar_inst_mch_n_1d, sr_inst_mch_n_2d, sr_inst_mch_n_3d,
    ar_spi_cs_1d, sr_spi_cs_2d, sr_spi_cs_3d, sr_cs_edge_n,
    sr_inst_edge_n, sr_pls_cnt, sr_trg_pls,
    ar_win_1d, sr_win_2d, sr_win_3d, sr_win_sync,
    csAge, spiAge, winAge, sent, fresh, clean>>
backRegs  == <<cntRegs, highAge, lowAge, seen, PAGEADDR_SEL, pageRegs, portRegs,
               bus, countRead>>
tally     == <<watched, hurried, frames>>
topVars   == <<regVars, frontRegs, skew, doneAge, tally>>

Period160 == 5
Period100 == 8
-----------------------------------------------------------------------------
(* PAGE_ADDR is the address of the instruction that is held.               *)
(* A mutant: the address as it is being shifted in.                        *)
PageOut_raw == Front!AddrOf(sr_inst_sht)
PageOut == Front!AddrOf(sr_inst_chk)

(* What the front end does at an edge of CLK160M, as PtmchReg sees it.     *)
Loaded == sr_inst_chk = Front!Zero /\ sr_inst_chk' # Front!Zero
Gone   == sr_inst_chk # Front!Zero /\ sr_inst_chk' = Front!Zero
Rises  == TRG_PLS = Low /\ TRG_PLS' # Low
Falls  == TRG_PLS # Low /\ TRG_PLS' = Low

FrontMoves ==
    /\ PAGE_ADDR' = PageOut'
    /\ phase' = CASE Loaded -> "held"
                  [] Gone -> IF TRG_PLS' = Low THEN "clear" ELSE "cut"
                  [] Rises /\ ~Gone -> "pulse"
                  [] Falls /\ ~Gone -> IF phase = "cut" THEN "clear" ELSE "after"
                  [] OTHER -> phase
    /\ held' = IF Loaded THEN Front!AddrOf(Front!SentWord) ELSE held

Done == Front!Complete /\ ~fresh
DoneTop == InstLen + FrameGap + PlsTop

FrontEdge ==
    /\ Front!Tick160 /\ FrontMoves
    /\ doneAge' = IF Done THEN Older(doneAge, DoneTop) ELSE doneAge

(* An edge of CLK160M alone, one of CLK100M alone, and both at once, when  *)
(* PAGE_ADDR changes under the capturing edge.  Both at once without that  *)
(* are the same as the one before the other.                               *)
FrontTick ==
    /\ skew >= 0 /\ skew' = skew - Period160
    /\ FrontEdge
    /\ phaseAge' = IF phase' = phase THEN phaseAge ELSE 0
    /\ want' = IF Falls /\ phase = "cut" /\ Up(Selected) /\ highAge = 2
               THEN Want(seen[Selected], {held, NoPage}) ELSE want
    /\ UNCHANGED <<backRegs, tally>>

BackTick ==
    /\ skew <= 0 /\ skew' = skew + Period100
    /\ RegEdge(PAGE_ADDR)
    /\ phaseAge' = Older(phaseAge, AgeTop)
    /\ UNCHANGED <<PAGE_ADDR, phase, held, frontRegs, doneAge, tally>>

BothTick ==
    /\ skew = 0 /\ skew' = Period100 - Period160
    /\ FrontEdge
    /\ PAGE_ADDR' # PAGE_ADDR /\ TRG_PLS' = TRG_PLS
    /\ phaseAge' = IF phase' = "held" THEN 0 ELSE 1
    /\ \E w \in Torn(PAGE_ADDR, PAGE_ADDR') : RegEdge(w)
    /\ UNCHANGED tally

(* The master.                                                             *)
Command(c) == Front!InWindow(Front!SentWord, c, window)
SendBit(b) ==
    /\ Front!SpiRise(b)
    /\ doneAge' = IF fresh THEN 0 ELSE doneAge
    /\ watched' = [c \in Channels |->
                     IF ~Front!Complete' \/ (Front!Complete /\ ~fresh) THEN watched[c]
                     ELSE IF Command(c)' THEN watched[c] + 1 ELSE watched[c]]
    /\ UNCHANGED <<PAGE_ADDR, regEnv, backRegs, skew, hurried, frames>>

Fall_CS ==
    /\ RESET_N = 1 /\ frames < MaxFrames /\ frames' = frames + 1
    /\ Front!CsFall
    /\ hurried' = [c \in Channels |->
                     IF Done /\ Command(c) /\ doneAge < FrameGap
                     THEN hurried[c] + 1 ELSE hurried[c]]
    /\ UNCHANGED <<PAGE_ADDR, TRG_PLS, regEnv, backRegs, skew, doneAge, watched>>
Rise_CS ==
    /\ Front!CsRise
    /\ UNCHANGED <<PAGE_ADDR, TRG_PLS, regEnv, backRegs, skew, doneAge, tally>>

Release ==
    /\ Front!ResetRelease /\ RegResetRelease
    /\ UNCHANGED <<skew, doneAge, tally>>

TopInit ==
    /\ RegInit /\ Front!Init
    /\ skew \in 0..(Period100 - 1) /\ doneAge = 0
    /\ watched = Low /\ hurried = Low /\ frames = 0

TopNext ==
    \/ FrontTick \/ BackTick \/ BothTick
    \/ \E b \in Bit : SendBit(b)
    \/ Fall_CS \/ Rise_CS \/ Release

TopSpec == TopInit /\ [][TopNext]_topVars
-----------------------------------------------------------------------------
(* From the bus to the counters: every command that is watched is counted  *)
(* once and nothing else is; only one whose next frame came sooner than    *)
(* FrameGap clocks after it may be missed.                                 *)
FramesCounted ==
    /\ \A c \in Channels : sr_counter[c] <= watched[c]
    /\ lowAge = Quiet /\ (Front!Complete => doneAge = DoneTop) =>
         \A c \in Channels : sr_counter[c] >= watched[c] - hurried[c]

(* The front end keeps what the CLK100M half relies on: its page is stable *)
(* long enough before each pulse and until it ends or the next frame has   *)
(* cut it, and one pulse leaves room for the next.                         *)
ImplementsReg == RegInit /\ [][RegNext]_regVars

(* From the bus to the registers the host reads: the counts and the pages. *)
FramesLogged == FramesCounted /\ LogTrue
=============================================================================
