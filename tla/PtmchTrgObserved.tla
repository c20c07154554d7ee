--------------------------- MODULE PtmchTrgObserved ---------------------------
(***************************************************************************)
(* PtmchTrg with an observer on its outputs: how often the triggers rose   *)
(* for the frame in sent, for how many CLK160M edges they were up, and how *)
(* long ago the frame became complete.  The observer changes nothing.      *)
(***************************************************************************)
EXTENDS PtmchTrg

VARIABLES pulses,    \* rising trigger edges since the frame began, capped at 2
          width,     \* CLK160M edges with a trigger up, capped
          doneAge,   \* CLK160M edges since the last bit of the instruction,
                     \* stopped when CS falls for the next frame
          pageAge    \* CLK160M edges since sr_inst_chk last changed, capped

observed == <<pulses, width, doneAge, pageAge>>

(* The last bit is captured at the latest one edge after the SPI edge, and *)
(* then takes 3 edges to sr_inst_cnt_160M_sync, 1 to sr_inst_chk, 3 to     *)
(* sr_inst_edge_n, 3 to TRG_PLS.                                           *)
Latency == 11
Settled == Latency + PlsTop
(* sr_inst_chk, and PAGE_ADDR with it, is this old when TRG_PLS rises.     *)
PageAhead == 6

Begins == fresh /\ ~fresh' /\ sent' # <<>> /\ clean'
Rises  == \E c \in Channels : TRG_PLS[c] = 0 /\ TRG_PLS'[c] = 1
Up     == \E c \in Channels : TRG_PLS'[c] = 1

ObserveTick ==
    /\ pulses' = IF Begins THEN 0 ELSE IF Rises THEN Older(pulses, 2) ELSE pulses
    /\ width' = IF Begins THEN 0 ELSE IF Up THEN Older(width, PlsTop + 1) ELSE width
    /\ doneAge' = IF Begins THEN 0
                  ELSE IF Complete /\ ~fresh THEN Older(doneAge, Settled) ELSE doneAge
    /\ pageAge' = IF sr_inst_chk' # sr_inst_chk THEN 0 ELSE Older(pageAge, PageAhead)

ObserveOther ==
    IF Begins \/ (RESET_N = 1 /\ RESET_N' = 0)
    THEN pulses' = 0 /\ width' = 0 /\ doneAge' = 0 /\ UNCHANGED pageAge
    ELSE UNCHANGED observed

ObservedInit == Init /\ pulses = 0 /\ width = 0 /\ doneAge = 0 /\ pageAge = 0

ObservedNext ==
    \/ /\ \/ Tick160
          \/ \E b \in Bit : SpiRiseAtTick(b)
          \/ \E r \in HostWrites : HostWriteAtTick(r)
       /\ ObserveTick
    \/ /\ \/ \E b \in Bit : SpiRise(b)
          \/ CsFall \/ CsRise \/ ResetAssert \/ ResetRelease
          \/ \E r \in HostWrites : HostWrite(r)
       /\ ObserveOther

ObservedSpec ==
    ObservedInit /\ [][ObservedNext]_<<vars, observed>> /\ WF_vars(Tick160)

-----------------------------------------------------------------------------
Matches == \E c \in Channels : InWindow(SentWord, c, win)

(* If the bus stays quiet long enough after an instruction, the detector   *)
(* has answered it with exactly one pulse, PlsTop clocks wide, when it is  *)
(* a watched command inside its window, and with nothing otherwise.        *)
PulseInTime ==
    clean /\ doneAge = Settled =>
        IF Matches THEN pulses = 1 /\ width = PlsTop ELSE pulses = 0

(* However soon the next frame follows, no instruction is answered twice   *)
(* and no pulse is longer than PlsTop clocks.                              *)
NeverTwice == clean => pulses <= 1 /\ width <= PlsTop

(* What the page log of ptmch_reg relies on (PageLead, Clear and Fall of   *)
(* PtmchReg): PAGE_ADDR is stable for PageAhead clocks before a trigger    *)
(* rises and until it falls, save that the next frame's reset clears it    *)
(* one clock before it makes the trigger fall.                             *)
PageContract ==
    clean /\ (\E c \in Channels : TRG_PLS[c] = 1) =>
        pageAge = PageAhead \/ (sr_inst_chk = Zero /\ pageAge = 0)

(* The front end implements the abstract detector.                         *)
Detector == INSTANCE InstDetect WITH
    Match <- InWindow, frame <- sent, whole <- clean, windows <- win,
    fired <- clean /\ pulses > 0, trigger <- {c \in Channels : TRG_PLS[c] = 1}
ImplementsDetector == Detector!Spec
=============================================================================
