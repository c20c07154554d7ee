------------------------------- MODULE PtmchCnt -------------------------------
(***************************************************************************)
(* ptmch_cnt: the trigger outputs of the front end cross from CLK160M to   *)
(* CLK100M, their rising edges are counted per command class, and the      *)
(* class that PAGEADDR_SEL selects drives the page log of ptmch_reg.       *)
(*                                                                         *)
(* The front end is the environment here: it raises and lowers one trigger *)
(* at a time, at any moment between two edges of CLK100M, and a pulse may  *)
(* be cut to any length (by the next frame's reset).                       *)
(***************************************************************************)
EXTENDS PtmchBits, FiniteSets

CONSTANTS
    Channels,  \* the command classes that are instantiated
    CntMax,    \* the counters' largest value; 32'hFFFF_FFFF
    IdxMod,    \* PADDR_CNT is the counter modulo this; 512 (9 bits)
    MaxPulses, \* bound: pulses the environment sends
    Resets     \* TRUE: RESET_N may be asserted at any time

AllChannels == {"prgexct", "rdstat", "blkers", "pdread", "wrstat"}

ASSUME ChannelAssumption ==
    /\ Channels \subseteq AllChannels /\ "prgexct" \in Channels
    /\ "blkers" \in Channels => "rdstat" \in Channels
ASSUME CounterAssumption ==
    /\ CntMax \in Nat /\ CntMax > 0
    /\ IdxMod \in Nat /\ IdxMod > 0
    /\ MaxPulses \in Nat /\ Resets \in BOOLEAN

VARIABLES
    RESET_N, TRG_PLS, PAGEADDR_SEL,          \* inputs
    ar_trg_pls_1d, sr_trg_pls_2d, sr_trg_pls_3d, sr_trg_pls_4d, sr_trg_pls_5d,
    sr_counter,                              \* sr_<class>_counter
    PLS_RISE, PADDR_CNT,
    highAge,   \* CLK100M edges that saw the present pulse, capped at HighTop
    lowAge,    \* CLK100M edges since the last pulse, capped at Quiet
    seen       \* history: seen[c], pulses of c that lasted two edges or more

cntPins == <<RESET_N, TRG_PLS, PAGEADDR_SEL>>
cntSync == <<ar_trg_pls_1d, sr_trg_pls_2d, sr_trg_pls_3d, sr_trg_pls_4d, sr_trg_pls_5d>>
cntRegs == <<cntSync, sr_counter, PLS_RISE, PADDR_CNT>>
cntEnv  == <<highAge, lowAge, seen>>
cntVars == <<cntPins, cntRegs, cntEnv>>

-----------------------------------------------------------------------------
Low == [c \in Channels |-> 0]
Up(c) == TRG_PLS[c] = 1
HighTop == 3
(* Edges from the last high sample until the counters have settled.        *)
Quiet == 6

(* A mutant: counting while the pulse is up.                               *)
c_pls_rise_level(c) == sr_trg_pls_4d[c] = 1
c_pls_rise(c) == sr_trg_pls_4d[c] = 1 /\ sr_trg_pls_5d[c] = 0

(* The case over PAGEADDR_SEL: 0..4 name the classes in order, the other   *)
(* three codes fall back to program execute.                               *)
SelectCase(sel) ==
    CASE sel = 1 -> "rdstat" [] sel = 2 -> "blkers"
      [] sel = 3 -> "pdread" [] sel = 4 -> "wrstat"
      [] OTHER -> "prgexct"
Selected == SelectCase(PAGEADDR_SEL)
(* The codes that stay within the classes of this instance.                *)
SelectCodes == {sel \in 0..7 : SelectCase(sel) \in Channels}

(* At its largest value a counter holds, except that the block-erase       *)
(* counter loads the read-status counter there.                            *)
AtMax(c) == IF c = "blkers" THEN sr_counter["rdstat"] ELSE sr_counter[c]
(* A mutant: a counter that runs on.                                       *)
NextCounter_running(c) == IF c_pls_rise(c) THEN sr_counter[c] + 1 ELSE sr_counter[c]
NextCounter(c) ==
    IF sr_counter[c] = CntMax THEN AtMax(c)
    ELSE IF c_pls_rise(c) THEN sr_counter[c] + 1 ELSE sr_counter[c]

(* PADDR_CNT has fewer bits than the counter it is loaded from.            *)
(* A mutant: PADDR_CNT as wide as the counter.                             *)
LowBits_wide(n) == n
LowBits(n) == n % IdxMod

CntReset ==
    /\ ar_trg_pls_1d' = Low /\ sr_trg_pls_2d' = Low /\ sr_trg_pls_3d' = Low
    /\ sr_trg_pls_4d' = Low /\ sr_trg_pls_5d' = Low
    /\ sr_counter' = Low /\ PLS_RISE' = 0 /\ PADDR_CNT' = 0

(* One rising edge of CLK100M.                                             *)
CntEdge ==
    IF RESET_N = 0 THEN CntReset
    ELSE /\ ar_trg_pls_1d' = TRG_PLS
         /\ sr_trg_pls_2d' = ar_trg_pls_1d
         /\ sr_trg_pls_3d' = sr_trg_pls_2d
         /\ sr_trg_pls_4d' = [c \in Channels |->
                DiffDetect(sr_trg_pls_2d[c], sr_trg_pls_3d[c], sr_trg_pls_4d[c])]
         /\ sr_trg_pls_5d' = sr_trg_pls_4d
         /\ sr_counter' = [c \in Channels |-> NextCounter(c)]
         /\ PLS_RISE' = IF c_pls_rise(Selected) THEN 1 ELSE 0
         /\ PADDR_CNT' = LowBits(sr_counter[Selected])

(* The environment's clocks, and the pulses long enough to be seen.        *)
CntClock ==
    IF RESET_N = 1 /\ \E c \in Channels : Up(c)
    THEN /\ highAge' = Older(highAge, HighTop) /\ lowAge' = 0
         /\ seen' = IF highAge = 1
                    THEN [c \in Channels |-> IF Up(c) THEN seen[c] + 1 ELSE seen[c]]
                    ELSE seen
    ELSE highAge' = 0 /\ lowAge' = Older(lowAge, Quiet) /\ UNCHANGED seen

-----------------------------------------------------------------------------
Tick100 == CntEdge /\ CntClock /\ UNCHANGED cntPins

(* The front end leaves two samples of low between two pulses: a frame     *)
(* takes far longer than that (NeverTwice and CsSetup in PtmchTrg).        *)
RisePls(c) ==
    /\ RESET_N = 1 /\ TRG_PLS = Low /\ lowAge >= 2
    /\ seen[c] < MaxPulses
    /\ TRG_PLS' = [TRG_PLS EXCEPT ![c] = 1]
    /\ highAge' = 0
    /\ UNCHANGED <<RESET_N, PAGEADDR_SEL, cntRegs, lowAge, seen>>

FallPls ==
    /\ TRG_PLS # Low
    /\ TRG_PLS' = Low
    /\ UNCHANGED <<RESET_N, PAGEADDR_SEL, cntRegs, cntEnv>>

(* The host writes the select register between two edges.                  *)
Select(sel) ==
    /\ RESET_N = 1 /\ PAGEADDR_SEL # sel /\ PAGEADDR_SEL' = sel
    /\ UNCHANGED <<RESET_N, TRG_PLS, cntRegs, cntEnv>>

(* RESET_N is common to the front end, the counters and the registers.     *)
CntResetAssert ==
    /\ Resets /\ RESET_N = 1 /\ RESET_N' = 0
    /\ TRG_PLS' = Low /\ PAGEADDR_SEL' = 0
    /\ CntReset
    /\ highAge' = 0 /\ lowAge' = 0 /\ seen' = Low

CntResetRelease ==
    /\ RESET_N = 0 /\ RESET_N' = 1
    /\ UNCHANGED <<TRG_PLS, PAGEADDR_SEL, cntRegs, cntEnv>>

CntInit ==
    /\ RESET_N = 0 /\ TRG_PLS = Low /\ PAGEADDR_SEL = 0
    /\ ar_trg_pls_1d = Low /\ sr_trg_pls_2d = Low /\ sr_trg_pls_3d = Low
    /\ sr_trg_pls_4d = Low /\ sr_trg_pls_5d = Low
    /\ sr_counter = Low /\ PLS_RISE = 0 /\ PADDR_CNT = 0
    /\ highAge = 0 /\ lowAge = 0 /\ seen = Low

CntNext ==
    \/ Tick100 \/ FallPls \/ CntResetAssert \/ CntResetRelease
    \/ \E c \in Channels : RisePls(c)
    \/ \E sel \in SelectCodes : Select(sel)

CntSpec == CntInit /\ [][CntNext]_cntVars
              /\ WF_cntVars(Tick100) /\ WF_cntVars(FallPls)

-----------------------------------------------------------------------------
CntTypeOK ==
    /\ RESET_N \in Bit /\ TRG_PLS \in [Channels -> Bit] /\ PAGEADDR_SEL \in SelectCodes
    /\ ar_trg_pls_1d \in [Channels -> Bit] /\ sr_trg_pls_2d \in [Channels -> Bit]
    /\ sr_trg_pls_3d \in [Channels -> Bit] /\ sr_trg_pls_4d \in [Channels -> Bit]
    /\ sr_trg_pls_5d \in [Channels -> Bit]
    /\ sr_counter \in [Channels -> 0..CntMax]
    /\ PLS_RISE \in Bit /\ PADDR_CNT \in 0..(IdxMod - 1)
    /\ highAge \in 0..HighTop /\ lowAge \in 0..Quiet /\ seen \in [Channels -> Nat]

Saturated(n) == IF n < CntMax THEN n ELSE CntMax
(* The block-erase counter is known only until it reaches its largest      *)
(* value, see CounterStops.                                                *)
Known == {c \in Channels : c # "blkers" \/ seen[c] < CntMax}

(* Every trigger pulse that lasts two samples of CLK100M is counted, once, *)
(* and nothing else is: the counters settle at the number of such pulses,  *)
(* up to their largest value.                                              *)
CountsPulses ==
    lowAge = Quiet => \A c \in Known : sr_counter[c] = Saturated(seen[c])

(* At no time, pulses under way included, has a counter run ahead of the   *)
(* pulses there were or fallen behind by more than the one in flight.      *)
CountsInStep ==
    \A c \in Known : /\ sr_counter[c] <= seen[c]
                     /\ Saturated(seen[c]) <= sr_counter[c] + 1

(* "STOP": a counter at its largest value stays there until reset.         *)
CounterStops ==
    [][\A c \in Channels :
          RESET_N' = 1 /\ sr_counter[c] = CntMax => sr_counter'[c] = CntMax]_cntVars
=============================================================================
