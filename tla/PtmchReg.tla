------------------------------- MODULE PtmchReg -------------------------------
(***************************************************************************)
(* The CLK100M half of the detector: ptmch_cnt together with ptmch_reg,    *)
(* which logs the page address of every counted command of the selected    *)
(* class and gives the host the counters, the log, the address windows and *)
(* the selection over an Avalon slave port.                                *)
(*                                                                         *)
(* The front end is the environment: it holds the page of an instruction   *)
(* on PAGE_ADDR some edges before it raises the trigger, and a new frame   *)
(* clears PAGE_ADDR one CLK160M period before the trigger falls.           *)
(***************************************************************************)
EXTENDS PtmchCnt

CONSTANTS
    PageLen,   \* bits of a page address; 24
    LogSize,   \* page address registers; 384
    Pages,     \* the page addresses the environment uses
    HostOps,   \* the transfers the host may do: [kind, reg, data]
    PageLead,  \* CLK100M edges PAGE_ADDR is held before the trigger rises
    PageGap    \* CLK100M edges PAGE_ADDR is clear between two instructions

Page     == Vector(PageLen)
NoPage   == AllZero(PageLen)
LogIndex == 1..LogSize
Sides    == {"low", "high"}

Registers ==
    {<<"id">>, <<"sel">>, <<"none">>}
        \union {<<"count", c>> : c \in Channels}
        \union {<<"window", c, s>> : c \in Channels, s \in Sides}
        \union {<<"paddr", k>> : k \in LogIndex}

ASSUME RegAssumption ==
    /\ PageLen \in Nat /\ PageLen > 0
    /\ LogSize \in Nat /\ LogSize < IdxMod
    /\ Pages \subseteq Page
    /\ \A op \in HostOps : op.kind \in {"read", "write"} /\ op.reg \in Registers
    /\ \A op \in HostOps : op.kind = "write" =>
           /\ op.reg = <<"sel">> => op.data \in SelectCodes
           /\ \A c \in Channels, s \in Sides :
                  op.reg = <<"window", c, s>> => op.data \in Page
    /\ PageLead \in Nat /\ PageGap \in Nat

VARIABLES
    PAGE_ADDR,                               \* input
    ar_page_paddr_1d, sr_page_paddr_2d, sr_page_paddr_3d, sr_page_paddr_sync,
    sr_page_paddr_buf, sr_paddr_dat,
    window,           \* <class>_{LOW,HIGH}_ADDR
    r_reg_readdata,   \* <<register, value>>
    bus,              \* the transfer on the Avalon port, see below
    phase,            \* what the front end is doing
    phaseAge,         \* CLK100M edges since it began that, capped
    held,             \* history: the page of the instruction it holds or held
    want,             \* history: want[k], the pages paddr register k may show
    countRead         \* history: the last count of the selected class read

pageRegs == <<ar_page_paddr_1d, sr_page_paddr_2d, sr_page_paddr_3d,
              sr_page_paddr_sync, sr_page_paddr_buf, sr_paddr_dat>>
portRegs == <<window, r_reg_readdata>>
regEnv   == <<phase, phaseAge, held, want>>
regVars  == <<cntVars, PAGE_ADDR, pageRegs, portRegs, bus, regEnv, countRead>>

-----------------------------------------------------------------------------
(* The Avalon port.  A transfer has a first cycle (REG_BEGINTRANSFER,      *)
(* answered with REG_WAITREQUEST) and a second in which the host takes the *)
(* data; step is the cycle it is in.                                       *)
Idle == [step |-> "idle"]
Begin(op) == [step |-> "begin", op |-> op]
Taking(op) == [step |-> "take", op |-> op]
REG_WAITREQUEST == bus.step = "begin"

Writes(reg) == REG_WAITREQUEST /\ bus.op.kind = "write" /\ bus.op.reg = reg

(* The read multiplexer; an address without a register reads as zero.      *)
ReadValue(reg) ==
    CASE reg[1] = "id"     -> "5a5a00ff"
      [] reg[1] = "sel"    -> PAGEADDR_SEL
      [] reg[1] = "count"  -> sr_counter[reg[2]]
      [] reg[1] = "window" -> window[reg[2]][reg[3]]
      [] reg[1] = "paddr"  -> sr_paddr_dat[reg[2]]
      [] OTHER             -> 0

PortReset ==
    /\ PAGEADDR_SEL' = 0
    /\ window' = [c \in Channels |-> [s \in Sides |->
                    IF s = "low" THEN NoPage ELSE AllOne(PageLen)]]
    /\ r_reg_readdata' = <<<<"none">>, 0>>

PortEdge ==
    IF RESET_N = 0 THEN PortReset
    ELSE /\ PAGEADDR_SEL' = IF Writes(<<"sel">>) THEN bus.op.data ELSE PAGEADDR_SEL
         /\ window' = [c \in Channels |-> [s \in Sides |->
                IF Writes(<<"window", c, s>>) THEN bus.op.data ELSE window[c][s]]]
         /\ r_reg_readdata' = IF REG_WAITREQUEST /\ bus.op.kind = "read"
                              THEN <<bus.op.reg, ReadValue(bus.op.reg)>>
                              ELSE r_reg_readdata

(* The page path: the synchroniser and the buffer.                         *)
(* Mutants: a buffer that follows the page all the time, and one that      *)
(* takes it when the trigger falls.                                        *)
BufferLoads_always == TRUE
BufferLoads_late == sr_trg_pls_4d[Selected] = 0 /\ sr_trg_pls_5d[Selected] = 1
BufferLoads == PLS_RISE = 1

PageReset ==
    /\ ar_page_paddr_1d' = NoPage /\ sr_page_paddr_2d' = NoPage
    /\ sr_page_paddr_3d' = NoPage /\ sr_page_paddr_sync' = NoPage
    /\ sr_page_paddr_buf' = NoPage

PageEdge(pageSeen) ==
    IF RESET_N = 0 THEN PageReset
    ELSE /\ ar_page_paddr_1d' = pageSeen
         /\ sr_page_paddr_2d' = ar_page_paddr_1d
         /\ sr_page_paddr_3d' = sr_page_paddr_2d
         /\ sr_page_paddr_sync' =
                DiffDetect(sr_page_paddr_2d, sr_page_paddr_3d, sr_page_paddr_sync)
         /\ sr_page_paddr_buf' = IF BufferLoads THEN sr_page_paddr_sync
                                 ELSE sr_page_paddr_buf

(* The log: the register that PADDR_CNT points at follows the buffer, for  *)
(* as long as PADDR_CNT stays there.                                       *)
LogReset == sr_paddr_dat' = [k \in LogIndex |-> NoPage]
LogEdge ==
    IF RESET_N = 0 THEN LogReset
    ELSE sr_paddr_dat' = [k \in LogIndex |->
             IF PADDR_CNT = k THEN sr_page_paddr_buf ELSE sr_paddr_dat[k]]

-----------------------------------------------------------------------------
(* History: the log register that the next counted pulse will fill, and    *)
(* what it may then hold.                                                  *)
LogSlot(n) == n % IdxMod
Want(n, pages) ==
    IF LogSlot(n) \in LogIndex THEN [want EXCEPT ![LogSlot(n)] = pages] ELSE want

AgeTop == IF PageGap > PageLead THEN PageGap ELSE PageLead

(* A new selection moves PADDR_CNT to the last command of the other class, *)
(* whose entry follows the buffer from then on.                            *)
Jump(sel) ==
    LET k == LogSlot(seen[SelectCase(sel)])
    IN  IF k \in LogIndex THEN [want EXCEPT ![k] = @ \union {sr_page_paddr_buf}]
        ELSE want

RegClock ==
    /\ want' = IF RESET_N = 1 /\ Up(Selected) /\ highAge = 1
               THEN Want(seen[Selected] + 1, {held})
               ELSE IF Writes(<<"sel">>) THEN Jump(bus.op.data) ELSE want
    /\ bus' = IF REG_WAITREQUEST THEN Taking(bus.op) ELSE Idle
    /\ countRead' = IF bus.step = "take" /\ bus.op.kind = "read"
                       /\ bus.op.reg = <<"count", Selected>>
                    THEN r_reg_readdata[2] ELSE countRead

(* One edge of CLK100M.                                                    *)
RegEdge(pageSeen) ==
    /\ CntEdge /\ CntClock /\ PageEdge(pageSeen) /\ LogEdge /\ PortEdge /\ RegClock
    /\ UNCHANGED <<RESET_N, TRG_PLS>>

(* A cut clears PAGE_ADDR 6.25 ns before the trigger falls: at most one    *)
(* edge lies between.                                                      *)
Edge100(pageSeen) == (phase = "cut" => phaseAge = 0) /\ RegEdge(pageSeen)

RegTick100 ==
    /\ Edge100(PAGE_ADDR)
    /\ phaseAge' = Older(phaseAge, AgeTop)
    /\ UNCHANGED <<PAGE_ADDR, phase, held>>

-----------------------------------------------------------------------------
(* The front end                                                           *)

Hold(a) ==
    /\ phase = "clear" /\ phaseAge >= PageGap /\ RESET_N = 1
    /\ PAGE_ADDR' = a /\ held' = a
    /\ phase' = "held" /\ phaseAge' = 0

(* The next frame's reset; while the trigger is up it cuts the pulse.  n   *)
(* is the number of CLK100M edges since, 1 if one coincides.               *)
Clear(n) ==
    /\ phase \in {"held", "pulse", "after"}
    /\ PAGE_ADDR' = NoPage
    /\ phase' = IF phase = "pulse" THEN "cut" ELSE "clear"
    /\ phaseAge' = n
    /\ UNCHANGED held

ChangePage ==
    /\ Clear(0) \/ \E a \in Pages : Hold(a)
    /\ UNCHANGED <<cntVars, pageRegs, portRegs, bus, want, countRead>>

(* PAGE_ADDR changes with the edge of CLK100M and is captured torn.        *)
ChangePageAtTick ==
    /\ Clear(1) \/ \E a \in Pages : Hold(a)
    /\ \E w \in Torn(PAGE_ADDR, PAGE_ADDR') : Edge100(w)

(* The next frame's reset may come with the pulse.                         *)
Raise(c) ==
    /\ phase = "held" /\ phaseAge >= PageLead
    /\ RisePls(c)
    /\ \/ phase' = "pulse" /\ UNCHANGED PAGE_ADDR
       \/ phase' = "cut" /\ PAGE_ADDR' = NoPage
    /\ phaseAge' = 0
    /\ UNCHANGED <<held, pageRegs, portRegs, bus, want, countRead>>

(* A pulse of full length, which may end together with its page, or one    *)
(* that the next frame cut.  If that one lasted two edges only it is       *)
(* counted, but the page may be gone already.                              *)
Fall ==
    /\ \/ /\ phase = "pulse" /\ highAge = HighTop /\ UNCHANGED want
          /\ \/ phase' = "after" /\ UNCHANGED PAGE_ADDR
             \/ phase' = "clear" /\ PAGE_ADDR' = NoPage
       \/ /\ phase = "cut" /\ phase' = "clear" /\ UNCHANGED PAGE_ADDR
          /\ want' = IF Up(Selected) /\ highAge = 2
                     THEN Want(seen[Selected], {held, NoPage}) ELSE want
    /\ FallPls
    /\ phaseAge' = 0
    /\ UNCHANGED <<held, pageRegs, portRegs, bus, countRead>>

(* The host: any transfer, but it selects a class between commands only,   *)
(* when the last one is in the log.                                        *)
MaySelect == lowAge = Quiet /\ phase = "clear"

Start(op) ==
    /\ RESET_N = 1 /\ bus = Idle
    /\ op.kind = "write" /\ op.reg = <<"sel">> => MaySelect
    /\ bus' = Begin(op)
    /\ UNCHANGED <<cntVars, PAGE_ADDR, pageRegs, portRegs, regEnv, countRead>>

RegResetAssert ==
    /\ Resets /\ RESET_N = 1 /\ RESET_N' = 0
    /\ TRG_PLS' = Low /\ PAGE_ADDR' = NoPage
    /\ CntReset /\ PageReset /\ LogReset /\ PortReset
    /\ highAge' = 0 /\ lowAge' = 0 /\ seen' = Low
    /\ phase' = "clear" /\ phaseAge' = 0 /\ held' = NoPage
    /\ want' = [k \in LogIndex |-> {NoPage}] /\ countRead' = 0
    /\ bus' = Idle

RegResetRelease ==
    /\ RESET_N = 0 /\ RESET_N' = 1
    /\ UNCHANGED <<TRG_PLS, PAGEADDR_SEL, cntRegs, cntEnv, PAGE_ADDR, pageRegs,
                   portRegs, bus, regEnv, countRead>>

RegInit ==
    /\ CntInit
    /\ PAGE_ADDR = NoPage
    /\ ar_page_paddr_1d = NoPage /\ sr_page_paddr_2d = NoPage
    /\ sr_page_paddr_3d = NoPage /\ sr_page_paddr_sync = NoPage
    /\ sr_page_paddr_buf = NoPage
    /\ sr_paddr_dat = [k \in LogIndex |-> NoPage]
    /\ window = [c \in Channels |-> [s \in Sides |->
                    IF s = "low" THEN NoPage ELSE AllOne(PageLen)]]
    /\ r_reg_readdata = <<<<"none">>, 0>>
    /\ bus = Idle
    /\ phase = "clear" /\ phaseAge = 0 /\ held = NoPage
    /\ want = [k \in LogIndex |-> {NoPage}] /\ countRead = 0

RegNext ==
    \/ RegTick100 \/ ChangePage \/ ChangePageAtTick \/ Fall
    \/ \E c \in Channels : Raise(c)
    \/ \E op \in HostOps : Start(op)
    \/ RegResetAssert \/ RegResetRelease

RegSpec == RegInit /\ [][RegNext]_regVars /\ WF_regVars(RegTick100)

-----------------------------------------------------------------------------
RegTypeOK ==
    /\ CntTypeOK
    /\ PAGE_ADDR \in Page /\ held \in Page
    /\ ar_page_paddr_1d \in Page /\ sr_page_paddr_2d \in Page
    /\ sr_page_paddr_3d \in Page /\ sr_page_paddr_sync \in Page
    /\ sr_page_paddr_buf \in Page /\ sr_paddr_dat \in [LogIndex -> Page]
    /\ window \in [Channels -> [Sides -> Page]]
    /\ r_reg_readdata[1] \in Registers
    /\ bus \in {Idle} \union {Begin(op) : op \in HostOps} \union {Taking(op) : op \in HostOps}
    /\ phase \in {"clear", "held", "pulse", "after", "cut"} /\ phaseAge \in 0..AgeTop
    /\ want \in [LogIndex -> SUBSET Page] /\ countRead \in 0..CntMax

(* Once the log is quiet, paddr register k shows the page of the latest    *)
(* counted command of the selected class whose number is k modulo IdxMod;  *)
(* commands of the other classes leave the log alone.  Only for a command  *)
(* whose pulse was cut after two samples may the page be lost (zero), and  *)
(* a new selection between commands may spoil the one entry it goes to.    *)
LogTrue ==
    lowAge = Quiet => \A k \in LogIndex : sr_paddr_dat[k] \in want[k]

(* A host that has read the count n of the selected class and then reads   *)
(* paddr register n finds the page of command n, not the stale content of  *)
(* the register: the wait state of the port covers the log's latency.      *)
CountThenEntry ==
    bus.step = "take" /\ bus.op.kind = "read" =>
        \A k \in LogIndex :
            bus.op.reg = <<"paddr", k>> /\ countRead # 0 /\ LogSlot(countRead) = k =>
                r_reg_readdata[2] \in want[k]
=============================================================================
