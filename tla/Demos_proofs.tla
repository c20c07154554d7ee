----------------------------- MODULE Demos_proofs -----------------------------
(***************************************************************************)
(* Proofs about the components of the demonstrations, each for every value *)
(* of its constants: no captured key is lost, ADC readings carry the right *)
(* channel, the SPI drivers deliver what they are given, the LED shows the *)
(* brightness it is asked for, and interrupts nest and return as they      *)
(* should.                                                                 *)
(***************************************************************************)
EXTENDS MC_Demos, SequenceTheorems, WellFoundedInduction, TLAPS
-----------------------------------------------------------------------------
(* The menu, for any set of keys, any table of demonstrations and any width  *)
(* of int: no captured key is lost.                                          *)

MenuRecord == [at : {"mask", "capture", "register", "ask", "check", "show",
                      "loop"},
                sel : IntRange, run : 0 .. (Tests - 1)]
PortRecord == [mask : BOOLEAN, edges : SUBSET Keys, known : BOOLEAN]
Starting == {"mask", "capture", "register"}

(* Where the interrupt can come from, and what main keeps still meanwhile:   *)
(* the port is armed from the menu on, a monitor's press is forgotten only   *)
(* when it ends, and the routine has set the flag before it clears an edge.  *)
Armed == /\ menu.at # "mask" => port.mask
         /\ menu.at \notin Starting => port.known
Monitored == pressed => menu.at = "loop"
FlagFirst == isr = "clear" => flag

MenuInv == MenuTypeOK /\ Armed /\ Monitored /\ FlagFirst /\ PressKept

LEMMA InitMenuInv == MenuInit => MenuInv
<1> SUFFICES ASSUME MenuInit PROVE MenuInv
    OBVIOUS
<1>1. PICK n \in IntRange : menu = [at |-> "mask", sel |-> n, run |-> 0]
    BY DEF MenuInit
<1>2. menu \in MenuRecord
    BY <1>1, MenuAssumption DEF MenuRecord
<1>3. MenuTypeOK
    BY <1>2 DEF MenuInit, MenuTypeOK, MenuRecord, Nothing
<1> QED
    BY <1>1, <1>3 DEF MenuInit, MenuInv, Armed, Monitored, FlagFirst, PressKept,
                      Starting

LEMMA BumpedType == ASSUME NEW n \in IntRange PROVE Bumped(n) \in IntRange
BY MenuAssumption DEF IntRange, Bumped

LEMMA PressInv == MenuInv /\ Press => MenuInv'
<1> SUFFICES ASSUME MenuInv, Press PROVE MenuInv'
    OBVIOUS
<1> USE DEF MenuInv, MenuTypeOK
<1>1. PICK k \in Keys \ port.edges : port' = [port EXCEPT !.edges = @ \union {k}]
    BY DEF Press
<1>2. /\ port'.mask = port.mask /\ port'.known = port.known
      /\ port'.edges = port.edges \union {k}
    BY <1>1
<1>3. MenuTypeOK'
    BY <1>1 DEF Press
<1>4. Armed' /\ Monitored' /\ FlagFirst'
    BY <1>2 DEF Press, Armed, Monitored, FlagFirst
<1>5. PressKept'
    BY <1>2 DEF Press, PressKept, KeyPending, Monitored, Armed, Starting
<1> QED
    BY <1>3, <1>4, <1>5

LEMMA KeyIsrInv == MenuInv /\ KeyIsr => MenuInv'
<1> SUFFICES ASSUME MenuInv, KeyIsr PROVE MenuInv'
    OBVIOUS
<1> USE DEF MenuInv, MenuTypeOK, MenuRecord, PortRecord, Armed, Monitored,
            FlagFirst, PressKept,
            KeyPending
<1>1. CASE Enter
    BY <1>1 DEF Enter
<1>2. CASE SetFlag
    BY <1>2 DEF SetFlag
<1>3. CASE ClearEdges
    BY <1>3 DEF ClearEdges
<1> QED
    BY <1>1, <1>2, <1>3 DEF KeyIsr

LEMMA MainInv == MenuInv /\ Main => MenuInv'
<1> SUFFICES ASSUME MenuInv, Main PROVE MenuInv'
    OBVIOUS
<1> USE DEF MenuInv, MenuTypeOK, MenuRecord, PortRecord, Armed, Monitored,
            FlagFirst, PressKept,
            KeyPending, Starting, Main
<1>1. CASE EnableMask
    BY <1>1 DEF EnableMask
<1>2. CASE ClearCapture
    <2>1. /\ port' \in PortRecord
          /\ port'.mask = port.mask
        BY <1>2 DEF ClearCapture
    <2>2. /\ menu' \in MenuRecord
          /\ menu'.at = "register"
        BY <1>2 DEF ClearCapture
    <2> QED
        BY <1>2, <2>1, <2>2 DEF ClearCapture
<1>3. CASE RegisterIsr
    <2>1. /\ port' \in PortRecord
          /\ port'.mask /\ port'.known
        BY <1>3 DEF RegisterIsr
    <2>2. /\ menu' \in MenuRecord
          /\ menu'.at = "ask"
        BY <1>3 DEF RegisterIsr
    <2> QED
        BY <1>3, <2>1, <2>2 DEF RegisterIsr
<1>4. CASE Scan
    <2>1. 0 \in IntRange
        BY MenuAssumption DEF IntRange
    <2>2. /\ menu' \in MenuRecord
          /\ menu'.at = "check"
        BY <1>4 DEF Scan
    <2>3. /\ stdin'.kind \in {"none", "letter", "number"}
          /\ stdin'.kind = "number" => stdin'.n \in IntRange
        BY <1>4, <2>1 DEF Scan, Nothing
    <2> QED
        BY <1>4, <2>2, <2>3 DEF Scan
<1>5. CASE Choose
    <2>1. menu.sel \in 0 .. (Tests - 1)
        BY <1>5, MenuAssumption DEF Choose, Valid, IntRange
    <2>2. /\ menu' \in MenuRecord
          /\ menu'.at = "show"
        BY <1>5, <2>1 DEF Choose
    <2> QED
        BY <1>5, <2>2 DEF Choose
<1>6. CASE Invalid
    BY <1>6, BumpedType DEF Invalid
<1>7. CASE Prompt
    BY <1>7 DEF Prompt
<1>8. CASE EndMonitor
    BY <1>8, BumpedType DEF EndMonitor, Back
<1>9. CASE EndOther
    BY <1>9, BumpedType DEF EndOther, Back
<1> QED
    BY <1>1, <1>2, <1>3, <1>4, <1>5, <1>6, <1>7, <1>8, <1>9

LEMMA TypeInv == MenuInv /\ Type => MenuInv'
<1> SUFFICES ASSUME MenuInv, Type PROVE MenuInv'
    OBVIOUS
<1>1. MenuTypeOK'
    BY MenuAssumption
    DEF Type, MenuInv, MenuTypeOK, Letter, Number, IntRange
<1> QED
    BY <1>1 DEF Type, MenuInv, Armed, Monitored, FlagFirst, PressKept, KeyPending

(* The invariant holds in every state of every instance.                     *)
THEOREM MenuInvariant == MenuSpec => []MenuInv
<1>1. MenuInv /\ [MenuNext]_menuVars => MenuInv'
    <2> SUFFICES ASSUME MenuInv, [MenuNext]_menuVars PROVE MenuInv'
        OBVIOUS
    <2>1. CASE UNCHANGED menuVars
        BY <2>1 DEF menuVars, MenuInv, MenuTypeOK, Armed, Monitored, FlagFirst,
                    PressKept, KeyPending
    <2> QED
        BY <2>1, PressInv, KeyIsrInv, MainInv, TypeInv DEF MenuNext
<1> QED
    BY <1>1, InitMenuInv, PTL DEF MenuSpec

(* KEY_ISR loses no key pressed while a monitor runs, although its write     *)
(* clears the edges of all keys: until the monitor ends, the edge is still   *)
(* captured or bKeyPressed is set.                                           *)
THEOREM NoPressLost == MenuSpec => []PressKept
BY MenuInvariant, PTL DEF MenuInv
-----------------------------------------------------------------------------
(* The ADC demonstration, for any number of channels and any sleep that      *)
(* lasts at least one step of the controller: its labels are right, if the   *)
(* polls outlast a frame.                                                    *)

Loop == demo.at = "loop"
AtEase == adcCore.st \in {"st_00", "st_03"} /\ ~adcCore.en

(* A call before its frame, between the frame and its end, and after it.     *)
Before == adcCore.en /\ adcCore.st # "st_02" /\ (Loop => adcCore.conv = demo.ch)
Within == /\ ~adcCore.en /\ adcCore.st = "st_02" /\ adcCore.conv = adcDrv.next
          /\ Loop => adcCore.read = demo.ch
After == /\ ~adcCore.en /\ adcCore.st = "st_03" /\ adcCore.conv = adcDrv.next
         /\ Loop => adcCore.data = demo.ch

Accepted == adcCore.st = "st_01" \/ ~adcCore.en

(* What the controller has reached at each step of the driver: ch is the     *)
(* channel the converter will answer with, and the start is accepted before  *)
(* the done flag is looked at.                                               *)
Resting == adcDrv.at \in {"idle", "call", "start"} =>
                  AtEase /\ ~adcCore.start
Asking == adcDrv.at \in {"call", "start"} /\ Loop => adcCore.conv = demo.ch
Waiting == adcDrv.at \in {"sleep", "poll"} =>
                  adcCore.start /\ adcCore.chan = adcDrv.next /\ (Before \/ Within \/ After)
Slow == (adcDrv.at = "sleep" /\ adcDrv.ticks # 0) \/ adcDrv.at = "poll" => Accepted
Ending == adcDrv.at \in {"stop", "back"} => After /\ (Loop => adcDrv.val = demo.ch)
Flag == adcDrv.at = "back" => ~adcCore.start
Caller == /\ adcDrv.at = "idle" <=> demo.at = "menu"
          /\ demo.at # "menu" => adcDrv.next = demo.next

Right == printed[2] = printed[1]

AdcInv == /\ AdcTypeOK /\ Right
          /\ Resting /\ Asking /\ Waiting /\ Slow /\ Ending /\ Flag /\ Caller

LEMMA InitAdcInv == AdcInit => AdcInv
BY AdcAssumption
DEF AdcInit, AdcInv, AdcTypeOK, Right, Resting, Asking, Waiting, Slow,
    Ending, Flag, Caller, AtEase, Loop, Chan, None

LEMMA FollowingType == ASSUME NEW c \in Chan PROVE Following(c) \in Chan
BY AdcAssumption DEF Chan, Following

LEMMA TickInv == AdcInv /\ AdcTick => AdcInv'
<1> SUFFICES ASSUME AdcInv, AdcTick PROVE AdcInv'
    OBVIOUS
<1> USE DEF AdcInv, AdcTypeOK
<1>1. /\ adcDrv'.at = adcDrv.at /\ adcDrv'.next = adcDrv.next /\ adcDrv'.val = adcDrv.val
      /\ adcDrv'.ticks \in 0 .. AdcSleepTicks
      /\ adcDrv' \in [at : {"idle", "call", "start", "sleep", "poll", "stop", "back"},
                      next : Chan, ticks : 0 .. AdcSleepTicks,
                      val : Chan \union {None}]
    BY AdcAssumption DEF AdcTick
<1>2. CASE Accept
    BY <1>1, <1>2
    DEF AdcTick, Accept, Right, Resting, Asking, Waiting, Slow, Ending, Flag,
        Caller, AtEase, Before, Within, After, Accepted, Loop
<1>3. CASE Frame
    BY <1>1, <1>3
    DEF AdcTick, Frame, Right, Resting, Asking, Waiting, Slow, Ending, Flag,
        Caller, AtEase, Before, Within, After, Accepted, Loop
<1>4. CASE Store
    BY <1>1, <1>4
    DEF AdcTick, Store, Right, Resting, Asking, Waiting, Slow, Ending, Flag,
        Caller, AtEase, Before, Within, After, Accepted, Loop
<1>5. CASE Wait
    BY <1>1, <1>5
    DEF AdcTick, Wait, Right, Resting, Asking, Waiting, Slow, Ending, Flag,
        Caller, AtEase, Before, Within, After, Accepted, Loop
<1> QED
    BY <1>2, <1>3, <1>4, <1>5 DEF AdcTick

LEMMA DriverInv ==
    ASSUME adcPatient, AdcSleepTicks # 0 PROVE AdcInv /\ AdcDriver => AdcInv'
<1> SUFFICES ASSUME AdcInv, AdcDriver PROVE AdcInv'
    OBVIOUS
<1> USE DEF AdcInv, AdcTypeOK, Right, Resting, Asking, Waiting, Slow,
            Ending, Flag, Caller, AtEase, Before, Within, After, Accepted, Loop
<1>1. CASE Arm
    BY <1>1 DEF Arm, Written
<1>2. CASE Start
    <2>1. /\ adcCore'.start /\ adcCore'.en /\ adcCore'.chan = adcDrv.next
          /\ adcCore'.st = adcCore.st /\ adcCore'.conv = adcCore.conv
          /\ adcCore'.read = adcCore.read /\ adcCore'.data = adcCore.data
        BY <1>2 DEF Start, Written
    <2>2. adcCore' \in [start : BOOLEAN, en : BOOLEAN,
                        st : {"st_00", "st_01", "st_02", "st_03"}, chan : Chan,
                        conv : Chan, read : Chan \union {None},
                        data : Chan \union {None}]
        BY <1>2 DEF Start, Written
    <2>0. 0 \in 0 .. AdcSleepTicks
        BY AdcAssumption
    <2>3. /\ adcDrv' \in [at : {"idle", "call", "start", "sleep", "poll", "stop",
                                "back"},
                          next : Chan, ticks : 0 .. AdcSleepTicks,
                          val : Chan \union {None}]
          /\ adcDrv'.at = "sleep" /\ adcDrv'.ticks = 0 /\ adcDrv'.next = adcDrv.next
        BY <1>2, <2>0 DEF Start
    <2>4. /\ adcDrv.at = "start" /\ UNCHANGED <<demo, printed>>
        BY <1>2 DEF Start
    <2>5. AdcTypeOK'
        BY <2>2, <2>3, <2>4
    <2>6. Before'
        BY <2>1, <2>4
    <2>7. Right' /\ Caller'
        BY <2>3, <2>4
    <2> QED
        BY <2>1, <2>3, <2>5, <2>6, <2>7
<1>3. CASE AdcWake
    BY <1>3, AdcAssumption DEF AdcWake, AdcSlept
<1>4. CASE AdcPoll
    BY <1>4 DEF AdcPoll
<1>5. CASE AdcStop
    BY <1>5 DEF AdcStop, Written
<1> QED
    BY <1>1, <1>2, <1>3, <1>4, <1>5 DEF AdcDriver

LEMMA AgainInv ==
    AdcInv /\ adcDrv.at = "back" /\ demo.at # "menu" /\ AdcAgain
        /\ UNCHANGED adcCore /\ Right' => AdcInv'
<1> SUFFICES ASSUME AdcInv, adcDrv.at = "back", demo.at # "menu", AdcAgain,
                    UNCHANGED adcCore, Right'
             PROVE  AdcInv'
    OBVIOUS
<1> USE DEF AdcInv, AdcTypeOK, Resting, Asking, Waiting, Slow,
            Ending, Flag, Caller, AtEase, Before, Within, After, Accepted, Loop
<1>1. CASE demo.key
    <2>1. /\ demo' = [demo EXCEPT !.at = "menu"]
          /\ adcDrv' = [adcDrv EXCEPT !.at = "idle"]
        BY <1>1 DEF AdcAgain
    <2> QED
        BY <2>1
<1>2. CASE ~demo.key
    <2>1. Following(demo.next) \in Chan
        BY FollowingType
    <2>2. /\ demo' = [demo EXCEPT !.at = "loop", !.ch = demo.next,
                                  !.next = Following(@)]
          /\ adcDrv' = [adcDrv EXCEPT !.at = "call", !.next = Following(demo.next)]
        BY <1>2 DEF AdcAgain, AdcCall
    <2>3. AdcTypeOK'
        BY <2>1, <2>2
    <2>4. /\ adcDrv'.at = "call" /\ adcDrv'.next = Following(demo.next)
          /\ demo'.at = "loop" /\ demo'.ch = demo.next
          /\ demo'.next = Following(demo.next)
        BY <2>2
    <2> QED
        BY <2>3, <2>4
<1> QED
    BY <1>1, <1>2

LEMMA DemoInv == AdcInv /\ (Demo \/ AdcSelect \/ AdcPressKey) => AdcInv'
<1> SUFFICES ASSUME AdcInv, Demo \/ AdcSelect \/ AdcPressKey PROVE AdcInv'
    OBVIOUS
<1> USE DEF AdcInv, AdcTypeOK, Right, Resting, Asking, Waiting, Slow,
            Ending, Flag, Caller, AtEase, Before, Within, After, Accepted, Loop
<1>1. CASE FirstCall
    <2>1. demo.at = "first" /\ adcDrv.at = "back" /\ AdcAgain
          /\ UNCHANGED <<adcCore, printed>>
        BY <1>1 DEF FirstCall
    <2> QED
        BY <2>1, AgainInv
<1>2. CASE AdcShow
    <2>1. demo.at = "loop" /\ adcDrv.at = "back" /\ AdcAgain
          /\ UNCHANGED adcCore /\ Right'
        BY <1>2 DEF AdcShow, Label
    <2> QED
        BY <2>1, AgainInv
<1>3. CASE AdcSelect
    <2>1. /\ 0 \in Chan /\ demo.at = "menu" /\ adcDrv.at = "idle"
          /\ UNCHANGED <<adcCore, printed>>
        BY <1>3, AdcAssumption DEF AdcSelect, Chan
    <2>2. adcDrv' = [adcDrv EXCEPT !.at = "call", !.next = 0]
        BY <1>3 DEF AdcSelect, AdcCall
    <2>3. demo' = [at |-> "first", ch |-> 0, next |-> 0, key |-> FALSE]
        BY <1>3 DEF AdcSelect
    <2>4. AdcTypeOK'
        BY <2>1, <2>2, <2>3
    <2>5. /\ adcDrv'.at = "call" /\ adcDrv'.next = 0
          /\ demo'.at = "first" /\ demo'.next = 0
        BY <2>2, <2>3
    <2> QED
        BY <2>1, <2>4, <2>5
<1>4. CASE AdcPressKey
    BY <1>4 DEF AdcPressKey
<1> QED
    BY <1>1, <1>2, <1>3, <1>4 DEF Demo

(* The invariant holds in every state of a behaviour with patient polls.     *)
THEOREM AdcInvariant ==
    ASSUME AdcSleepTicks # 0 PROVE AdcSpec => [](adcPatient => AdcInv)
<1> DEFINE Inv == adcPatient => AdcInv
<1>1. AdcInit => Inv
    BY InitAdcInv
<1>2. Inv /\ [AdcNext]_adcVars => Inv'
    <2> SUFFICES ASSUME Inv, [AdcNext]_adcVars, adcPatient' PROVE AdcInv'
        OBVIOUS
    <2>1. adcPatient
        BY DEF AdcNext, AdcTick, AdcDriver, Arm, Start, AdcWake, AdcPoll, AdcStop,
               Demo, FirstCall, AdcShow, AdcSelect, AdcPressKey, adcVars
    <2>2. AdcInv
        BY <2>1
    <2>3. CASE UNCHANGED adcVars
        BY <2>2, <2>3
        DEF adcVars, AdcInv, AdcTypeOK, Right, Resting, Asking, Waiting, Slow,
            Ending, Flag, Caller, AtEase, Before, Within, After, Accepted, Loop
    <2> QED
        BY <2>1, <2>2, <2>3, TickInv, DriverInv, DemoInv DEF AdcNext
<1> HIDE DEF Inv
<1>3. AdcSpec => []Inv
    BY <1>1, <1>2, PTL DEF AdcSpec
<1> QED
    BY <1>3 DEF Inv

(* DEMO_ADC prints every value beside the channel it is a sample of.         *)
THEOREM LabelsRight ==
    ASSUME AdcSleepTicks # 0 PROVE AdcSpec => []LabelsTrue
<1>1. (adcPatient => AdcInv) => LabelsTrue
    BY DEF AdcInv, Right, LabelsTrue
<1> QED
    BY <1>1, AdcInvariant, PTL

(* ADC_Read returns only after the frame it started.                         *)
THEOREM FrameEnds ==
    ASSUME AdcSleepTicks # 0 PROVE AdcSpec => []FrameOver
<1>1. (adcPatient => AdcInv) => FrameOver
    BY DEF AdcInv, Ending, After, FrameOver
<1> QED
    BY <1>1, AdcInvariant, PTL

(* Both, as the demonstration relies on them.                                *)
THEOREM SamplesAlways ==
    ASSUME AdcSleepTicks # 0 PROVE AdcSpec => []SamplesTrue
<1>1. LabelsTrue /\ FrameOver => SamplesTrue
    BY DEF SamplesTrue
<1> QED
    BY <1>1, LabelsRight, FrameEnds, PTL
-----------------------------------------------------------------------------
(* alt_avalon_spi_command, for any bytes and any lengths of the commands:    *)
(* the core never loses a byte.                                              *)

Empty == tx = <<>> /\ shift = <<>> /\ rx = <<>>

(* There is at most one byte on its way: a credit is a byte not yet sent, so *)
(* a positive one means that nothing is in the core.                         *)
OneByte == /\ tx # <<>> => shift = <<>> /\ rx = <<>>
           /\ shift # <<>> => tx = <<>> /\ rx = <<>>
Credit == /\ credits \in Int /\ credits <= 1
          /\ pc # "idle" /\ credits > 0 => Empty
AtRest == pc = "idle" => Tmt

(* What the status word said of the receive register is still so when the    *)
(* driver acts on it.                                                        *)
Fresh == pc \in {"send", "receive"} /\ status.rrdy => rx # <<>>

SpiInv == OneByte /\ Credit /\ AtRest /\ Fresh /\ NoOverrun

LEMMA InitSpiInv == SpiInit => SpiInv
BY DEF SpiInit, SpiInv, OneByte, Credit, AtRest, Fresh, NoOverrun, Tmt

LEMMA CommandInv == SpiInv /\ Command => SpiInv'
BY DEF SpiInv, OneByte, Credit, AtRest, Fresh, NoOverrun, Tmt, Empty,
       Command, Discarded, Credits

LEMMA PollInv == SpiInv /\ SpiPoll => SpiInv'
<1> SUFFICES ASSUME SpiInv, SpiPoll PROVE SpiInv'
    OBVIOUS
<1>1. status'.rrdy = Rrdy
    BY DEF SpiPoll
<1>2. pc = "poll" /\ pc' \in {"poll", "send"} /\ UNCHANGED <<credits, spiCore>>
    BY DEF SpiPoll
<1>3. Fresh'
    BY <1>1, <1>2 DEF Fresh, Rrdy, spiCore
<1> QED
    BY <1>2, <1>3 DEF SpiInv, OneByte, Credit, AtRest, NoOverrun, Tmt, Empty,
                      spiCore

LEMMA SendInv == SpiInv /\ Send => SpiInv'
<1> SUFFICES ASSUME SpiInv, Send PROVE SpiInv'
    OBVIOUS
<1> USE DEF SpiInv, OneByte, Credit, AtRest, Fresh, NoOverrun, Tmt, Empty
<1>1. CASE ~status.trdy \/ credits <= 0
    <2>1. /\ pc = "send" /\ pc' = "receive"
          /\ UNCHANGED <<credits, tx, status, shift, rx, roe>>
        BY <1>1 DEF Send
    <2> QED
        BY <2>1
<1>2. CASE status.trdy /\ ~(credits <= 0)
    <2>1. Empty
        BY <1>2 DEF Send
    <2>2. credits' = credits - 1 \/ credits' = -1024
        BY <1>2 DEF Send
    <2>3. credits = 1
        BY <1>2
    <2>4. credits' <= 0 /\ credits' \in Int
        BY <2>2, <2>3
    <2>5. /\ pc = "send" /\ pc' = "receive"
          /\ UNCHANGED <<status, shift, rx, roe>>
        BY DEF Send
    <2> QED
        BY <2>1, <2>4, <2>5
<1> QED
    BY <1>1, <1>2

LEMMA ReceiveInv == SpiInv /\ Receive => SpiInv'
<1> SUFFICES ASSUME SpiInv, Receive PROVE SpiInv'
    OBVIOUS
<1> USE DEF SpiInv, OneByte, Credit, AtRest, Fresh, NoOverrun, Tmt, Empty
<1>1. CASE ~status.rrdy
    BY <1>1 DEF Receive
<1>2. CASE status.rrdy
    <2>1. rx # <<>>
        BY <1>2 DEF Receive
    <2>2. credits <= 0 /\ tx = <<>> /\ shift = <<>>
        BY <2>1 DEF Receive
    <2>3. rx' = <<>> /\ credits' = credits + 1 /\ pc' \in {"finish", "poll"}
        BY <1>2 DEF Receive
    <2>4. UNCHANGED <<status, tx, shift, roe>>
        BY DEF Receive
    <2> QED
        BY <2>2, <2>3, <2>4
<1> QED
    BY <1>1, <1>2

LEMMA FinishInv == SpiInv /\ Finish => SpiInv'
BY DEF SpiInv, OneByte, Credit, AtRest, Fresh, NoOverrun, Tmt, Empty, Finish

(* The core loads only into an empty shift register and, having one byte at  *)
(* most, never receives over an unread one.                                  *)
LEMMA CoreInv == SpiInv /\ (Load \/ Shifted) => SpiInv'
<1> SUFFICES ASSUME SpiInv, Load \/ Shifted PROVE SpiInv'
    OBVIOUS
<1> USE DEF SpiInv, OneByte, Credit, AtRest, Fresh, NoOverrun, Tmt, Empty,
            driver
<1>1. CASE Load
    BY <1>1 DEF Load
<1>2. CASE Shifted
    <2>1. shift # <<>> /\ tx = <<>> /\ rx = <<>>
        BY <1>2 DEF Shifted
    <2>2. shift' = <<>> /\ tx' = <<>> /\ ~roe' /\ UNCHANGED driver
        BY <1>2, <2>1 DEF Shifted
    <2>3. pc # "idle" /\ ~(credits > 0) /\ ~(pc \in {"send", "receive"} /\ status.rrdy)
        BY <2>1
    <2> QED
        BY <2>2, <2>3
<1> QED
    BY <1>1, <1>2

(* The invariant holds in every state.                                       *)
THEOREM SpiInvariant == SpiSpec => []SpiInv
<1>1. SpiInv /\ [SpiNext]_spiVars => SpiInv'
    <2> SUFFICES ASSUME SpiInv, [SpiNext]_spiVars PROVE SpiInv'
        OBVIOUS
    <2>1. CASE UNCHANGED spiVars
        BY <2>1 DEF spiVars, driver, spiCore, SpiInv, OneByte, Credit, AtRest, Fresh,
                    NoOverrun, Tmt, Empty
    <2> QED
        BY <2>1, CommandInv, PollInv, SendInv, ReceiveInv, FinishInv, CoreInv
        DEF SpiNext, SpiDriver
<1> QED
    BY <1>1, InitSpiInv, PTL DEF SpiSpec

(* However the driver and the core are interleaved, the core never receives  *)
(* a byte over one that alt_avalon_spi_command has not read.                 *)
THEOREM NeverOverrun == SpiSpec => []NoOverrun
BY SpiInvariant, PTL DEF SpiInv
-----------------------------------------------------------------------------
(* What a command on the SPI core delivers: the driver counts the bytes out  *)
(* and in, at most one of them is in the core, and what was asked for is     *)
(* expected, of which the wire holds a prefix.                               *)

Total == Len(call.write) + call.read
Out == spiSent + (call.read - zeros)
In == Len(got) + (Len(call.write) - ignore)
Flight == Len(tx) + Len(shift) + Len(rx)
Base == Len(expected) - Total   \* bytes of the commands this one is merged with

SpiTypes ==
    /\ call \in [write : Seq(Nat), read : Nat, merge : BOOLEAN]
    /\ {wire, expected, got, tx, shift, rx} \subseteq Seq(Nat)
    /\ spiSent \in 0..Len(call.write) /\ zeros \in 0..call.read
    /\ ignore \in 0..Len(call.write) /\ Len(got) <= call.read
    /\ Len(tx) <= 1 /\ Len(shift) <= 1 /\ Len(rx) <= 1 /\ credits \in Int

(* What was asked for, behind what was asked for before.                     *)
Asked ==
    /\ Base >= 0
    /\ \A k \in 1..Len(call.write) : expected[Base + k] = call.write[k]
    /\ \A k \in 1..call.read : expected[Base + Len(call.write) + k] = Zero

(* The bytes out and in, and the credits.                                    *)
Counts ==
    /\ spiSent < Len(call.write) => zeros = call.read
    /\ ignore > 0 => got = <<>>
    /\ Out - In = Flight /\ credits = 1 - Flight
    /\ pc \in {"poll", "send", "receive"} => In < Total
    /\ pc = "finish" => In = Total

(* Where each byte sent is.                                                  *)
OnTheWire ==
    /\ Len(wire) + Len(shift) + Len(tx) = Base + Out
    /\ \A k \in 1..Len(wire) : wire[k] = expected[k]
    /\ shift # <<>> => shift[1] = expected[Len(wire) + 1]
    /\ tx # <<>> => tx[1] = expected[Len(wire) + Len(shift) + 1]

(* The slave's answers, by their positions in the transaction.               *)
Answers ==
    /\ \A k \in 1..Len(got) : got[k] = Base + Len(call.write) + k
    /\ rx # <<>> => rx[1] = Len(wire)

SpiFlow ==
    /\ SpiTypes
    /\ pc = "idle" => wire = expected
    /\ pc # "idle" => Asked /\ Counts /\ OnTheWire /\ Answers

LEMMA InitSpiFlow == SpiInit => SpiFlow
<1> SUFFICES ASSUME SpiInit PROVE SpiFlow
    OBVIOUS
<1>1. <<>> \in Seq(Nat) /\ <<Stale>> \in Seq(Nat) /\ Len(<<Stale>>) = 1 /\ Len(<<>>) = 0
    BY EmptySeq DEF Stale
<1>2. call = [write |-> <<>>, read |-> 0, merge |-> FALSE]
    BY DEF SpiInit
<1>3. call \in [write : Seq(Nat), read : Nat, merge : BOOLEAN] /\ call.write = <<>> /\ call.read = 0
    BY <1>1, <1>2
<1>4. SpiTypes
  <2>1. {wire, expected, got, tx, shift, rx} \subseteq Seq(Nat)
      BY <1>1 DEF SpiInit
  <2>2. Len(tx) <= 1 /\ Len(shift) <= 1 /\ Len(rx) <= 1 /\ Len(got) <= 0
    <3>1. tx = <<>> /\ shift = <<>> /\ got = <<>> /\ (rx = <<>> \/ rx = <<Stale>>)
        BY DEF SpiInit
    <3>2. Len(rx) = 0 \/ Len(rx) = 1
        BY <1>1, <3>1
    <3> QED
        BY <1>1, <3>1, <3>2
  <2>3. spiSent = 0 /\ zeros = 0 /\ ignore = 0 /\ credits = 0
      BY DEF SpiInit
  <2> QED
      BY <1>1, <1>3, <2>1, <2>2, <2>3 DEF SpiTypes
<1> QED
    BY <1>4 DEF SpiInit, SpiFlow

(* A command: its bytes are appended to what was asked for.                  *)
LEMMA CommandFlow == ASSUME SpiFlow, SpiInv, Command PROVE SpiFlow'
<1>1. PICK n \in Writes, r \in Reads :
        \E m \in BOOLEAN : \E w \in [1..n -> Bytes] :
          /\ n + r > 0 /\ call' = [write |-> w, read |-> r, merge |-> m]
          /\ zeros' = r /\ ignore' = n /\ expected' = expected \o w \o Zeros(r)
    BY DEF Command, ZerosFor
<1>0. PICK m \in BOOLEAN, w \in [1..n -> Bytes] :
        /\ n + r > 0 /\ call' = [write |-> w, read |-> r, merge |-> m]
        /\ zeros' = r /\ ignore' = n /\ expected' = expected \o w \o Zeros(r)
    BY <1>1
<1>2. /\ pc = "idle" /\ pc' = "poll" /\ spiSent' = 0 /\ credits' = 1 /\ got' = <<>>
      /\ rx' = <<>> /\ UNCHANGED <<tx, shift, wire>>
    BY DEF Command, Credits, Discarded
<1>3. /\ tx = <<>> /\ shift = <<>> /\ wire = expected /\ expected \in Seq(Nat)
      /\ Len(expected) \in Nat /\ \A k \in 1..Len(expected) : expected[k] \in Nat
    BY <1>2, ElementOfSeq DEF SpiFlow, SpiTypes, SpiInv, AtRest, Tmt
<1>4. n \in Nat /\ r \in Nat /\ Bytes \subseteq Nat
    BY SpiAssumption
<1>5. w \in Seq(Nat) /\ Len(w) = n
  <2>1. w \in [1..n -> Nat]
      BY <1>4
  <2>2. w \in Seq(Nat)
      BY <1>4, <2>1, SeqDef
  <2> QED
      BY <1>4, <2>1, <2>2, LenProperties
<1>6. Zeros(r) \in Seq(Nat) /\ Len(Zeros(r)) = r /\ \A k \in 1..r : Zeros(r)[k] = Zero
  <2>1. Zeros(r) \in [1..r -> Nat] /\ \A k \in 1..r : Zeros(r)[k] = Zero
      BY DEF Zeros, Zero
  <2>2. Zeros(r) \in Seq(Nat)
      BY <1>4, <2>1, SeqDef
  <2> QED
      BY <1>4, <2>1, <2>2, LenProperties
<1>7. /\ call'.write = w /\ call'.read = r
      /\ call' \in [write : Seq(Nat), read : Nat, merge : BOOLEAN]
    BY <1>0, <1>4, <1>5
<1> DEFINE ew == expected \o w
           z == Zeros(r)
           b == Len(expected)
<1>8. /\ ew \in Seq(Nat) /\ Len(ew) = b + n
      /\ \A k \in 1..(b + n) : ew[k] = IF k <= b THEN expected[k] ELSE w[k - b]
  <2>1. /\ ew \in Seq(Nat) /\ Len(ew) = b + Len(w)
        /\ \A k \in 1..(b + Len(w)) : ew[k] = IF k <= b THEN expected[k] ELSE w[k - b]
      BY <1>3, <1>5, ConcatProperties
  <2> QED
      BY <1>5, <2>1
<1> HIDE DEF ew, z
<1>9. /\ expected' \in Seq(Nat) /\ Len(expected') = (b + n) + r
      /\ \A k \in 1..((b + n) + r) :
           expected'[k] = IF k <= b + n THEN ew[k] ELSE z[k - (b + n)]
  <2>1. expected' = ew \o z
      BY <1>0 DEF ew, z
  <2>2. z \in Seq(Nat) /\ Len(z) = r
      BY <1>6 DEF z
  <2>3. /\ ew \o z \in Seq(Nat) /\ Len(ew \o z) = Len(ew) + Len(z)
        /\ \A k \in 1..(Len(ew) + Len(z)) :
             (ew \o z)[k] = IF k <= Len(ew) THEN ew[k] ELSE z[k - Len(ew)]
      BY <1>8, <2>2, ConcatProperties
  <2> QED
      BY <1>8, <2>1, <2>2, <2>3
<1> HIDE DEF b
<1>10. b \in Nat /\ b = Len(expected)
    BY <1>3 DEF b
<1>11. Base' = b /\ Total' = n + r /\ Out' = 0 /\ In' = 0 /\ Flight' = 0 /\ n + r > 0
  <2>1. Len(<<>>) = 0
      BY EmptySeq
  <2>2. /\ Len(call'.write) = n /\ call'.read = r /\ spiSent' = 0 /\ zeros' = r /\ ignore' = n
        /\ Len(got') = 0 /\ Len(tx') = 0 /\ Len(shift') = 0 /\ Len(rx') = 0
      BY <1>0, <1>2, <1>3, <1>5, <1>7, <2>1
  <2>3. Total' = n + r
      BY <2>2 DEF Total
  <2>4. Base' = b
      BY <1>4, <1>9, <1>10, <2>3 DEF Base
  <2>5. Out' = 0 /\ In' = 0 /\ Flight' = 0
      BY <1>4, <2>2 DEF Out, In, Flight
  <2> QED
      BY <1>0, <2>3, <2>4, <2>5
<1>12. Asked'
  <2>1. ASSUME NEW k \in 1..n PROVE expected'[b + k] = w[k]
    <3>1. /\ b + k \in 1..((b + n) + r) /\ b + k \in 1..(b + n) /\ b + k <= b + n
          /\ ~(b + k <= b) /\ (b + k) - b = k
        BY <1>4, <1>10
    <3> QED
        BY <1>8, <1>9, <3>1
  <2>2. ASSUME NEW k \in 1..r PROVE expected'[b + n + k] = Zero
    <3>1. b + n + k \in 1..((b + n) + r) /\ ~(b + n + k <= b + n) /\ (b + n + k) - (b + n) = k
        BY <1>4, <1>10
    <3> QED
        BY <1>6, <1>9, <3>1 DEF z
  <2> QED
    <3>1. Base' = b /\ b >= 0 /\ call'.write = w /\ call'.read = r /\ Len(w) = n
        BY <1>5, <1>7, <1>10, <1>11
    <3>2. \A k \in 1..Len(call'.write) : expected'[Base' + k] = call'.write[k]
        BY <2>1, <3>1
    <3>3. \A k \in 1..call'.read : expected'[Base' + Len(call'.write) + k] = Zero
        BY <2>2, <3>1
    <3> QED
        BY <3>1, <3>2, <3>3 DEF Asked
<1>13. Counts'
    BY <1>0, <1>2, <1>4, <1>5, <1>7, <1>11 DEF Counts
<1>14. OnTheWire'
  <2>1. /\ Len(wire') = b /\ Len(shift') = 0 /\ Len(tx') = 0
        /\ shift' = <<>> /\ tx' = <<>>
      BY <1>2, <1>3, <1>10, EmptySeq
  <2>2. ASSUME NEW k \in 1..b PROVE wire'[k] = expected'[k]
    <3>1. k \in 1..((b + n) + r) /\ k \in 1..(b + n) /\ k <= b + n /\ k <= b
        BY <1>4, <1>10
    <3> QED
        BY <1>2, <1>3, <1>8, <1>9, <3>1
  <2> QED
      BY <1>10, <1>11, <2>1, <2>2 DEF OnTheWire
<1>15. Answers'
    BY <1>2, EmptySeq DEF Answers
<1>16. SpiTypes'
  <2>1. {wire', expected', got', tx', shift', rx'} \subseteq Seq(Nat)
      BY <1>2, <1>3, <1>9, EmptySeq
  <2>2. /\ Len(tx') = 0 /\ Len(shift') = 0 /\ Len(rx') = 0 /\ Len(got') = 0
        /\ spiSent' = 0 /\ zeros' = r /\ ignore' = n /\ credits' = 1
      BY <1>0, <1>2, <1>3, EmptySeq
  <2> QED
      BY <1>4, <1>5, <1>7, <2>1, <2>2 DEF SpiTypes
<1> QED
    BY <1>2, <1>12, <1>13, <1>14, <1>15, <1>16 DEF SpiFlow

LEMMA PollFlow == ASSUME SpiFlow, SpiPoll PROVE SpiFlow'
<1>1. /\ pc = "poll" /\ pc' \in {"poll", "send"}
      /\ UNCHANGED <<call, spiSent, zeros, ignore, credits, got, spiCore, expected>>
    BY DEF SpiPoll
<1>2. UNCHANGED <<tx, shift, rx, wire>>
    BY <1>1 DEF spiCore
<1> QED
    BY <1>1, <1>2 DEF SpiFlow, SpiTypes, Asked, Counts, OnTheWire, Answers, Base, Total, Out,
       In, Flight

(* Numbers behind the counts.                                                *)
LEMMA SpiNumbers ==
    ASSUME SpiFlow
    PROVE  /\ Len(call.write) \in Nat /\ call.read \in Nat /\ spiSent \in Nat /\ zeros \in Nat
           /\ ignore \in Nat /\ Len(got) \in Nat /\ Len(wire) \in Nat /\ Len(expected) \in Nat
           /\ Len(tx) \in 0..1 /\ Len(shift) \in 0..1 /\ Len(rx) \in 0..1
           /\ (tx = <<>> <=> Len(tx) = 0) /\ (shift = <<>> <=> Len(shift) = 0)
           /\ (rx = <<>> <=> Len(rx) = 0)
           /\ Flight \in Nat /\ Out \in Nat /\ In \in Nat /\ Total \in Nat /\ Base \in Int
<1>1. call.write \in Seq(Nat) /\ call.read \in Nat
    BY DEF SpiFlow, SpiTypes
<1>2. \A s \in Seq(Nat) : Len(s) \in Nat /\ (s = <<>> <=> Len(s) = 0)
    BY LenProperties, EmptySeq
<1>3. {wire, expected, got, tx, shift, rx} \subseteq Seq(Nat)
    BY DEF SpiFlow, SpiTypes
<1>4. /\ spiSent \in 0..Len(call.write) /\ zeros \in 0..call.read
      /\ ignore \in 0..Len(call.write) /\ Len(tx) <= 1 /\ Len(shift) <= 1 /\ Len(rx) <= 1
    BY DEF SpiFlow, SpiTypes
<1>5. Len(call.write) \in Nat
    BY <1>1, <1>2
<1>6. Len(got) \in Nat /\ Len(wire) \in Nat /\ Len(expected) \in Nat
    BY <1>2, <1>3
<1>7. Len(tx) \in 0..1 /\ Len(shift) \in 0..1 /\ Len(rx) \in 0..1
  <2>1. Len(tx) \in Nat /\ Len(shift) \in Nat /\ Len(rx) \in Nat
      BY <1>2, <1>3
  <2>2. \A k \in Nat : k <= 1 => k \in 0..1
      OBVIOUS
  <2>3. Len(tx) <= 1 /\ Len(shift) <= 1 /\ Len(rx) <= 1
      BY <1>4
  <2> QED
      BY <2>1, <2>2, <2>3
<1>8. /\ tx = <<>> <=> Len(tx) = 0
      /\ shift = <<>> <=> Len(shift) = 0
      /\ rx = <<>> <=> Len(rx) = 0
    BY <1>2, <1>3
<1>9. spiSent \in Nat /\ zeros \in Nat /\ ignore \in Nat
    BY <1>1, <1>4, <1>5
<1>10. Flight \in Nat /\ Total \in Nat /\ Base \in Int
    BY <1>1, <1>5, <1>6, <1>7 DEF Flight, Total, Base
<1>11. Out \in Nat /\ In \in Nat
  <2>1. \A x, y, z \in Nat : z <= y => x + y - z \in Nat
      OBVIOUS
  <2>2. zeros <= call.read /\ ignore <= Len(call.write)
      BY <1>1, <1>4, <1>5
  <2>3. spiSent + call.read - zeros \in Nat
      BY <1>1, <1>9, <2>1, <2>2
  <2>4. Len(got) + Len(call.write) - ignore \in Nat
      BY <1>5, <1>6, <1>9, <2>1, <2>2
  <2> QED
      BY <2>3, <2>4 DEF Out, In
<1> QED
    BY <1>1, <1>5, <1>6, <1>7, <1>8, <1>9, <1>10, <1>11

(* A byte goes out only with nothing in the core and something left to send. *)
LEMMA SendFlow == ASSUME SpiFlow, Send PROVE SpiFlow'
<1>1. /\ pc = "send" /\ pc' = "receive"
      /\ UNCHANGED <<call, ignore, status, got, shift, rx, roe, sso, wire, expected>>
    BY DEF Send
<1>2. CASE ~status.trdy \/ credits <= 0
  <2>1. UNCHANGED <<spiSent, zeros, credits, tx>>
      BY <1>2 DEF Send
  <2> QED
      BY <1>1, <2>1 DEF SpiFlow, SpiTypes, Asked, Counts, OnTheWire, Answers, Base, Total,
         Out, In, Flight
<1>3. CASE status.trdy /\ ~(credits <= 0)
  <2> DEFINE more == spiSent < Len(call.write)
  <2>1. /\ credits' = (IF more \/ zeros > 0 THEN credits - 1 ELSE -1024)
        /\ tx' = (IF more THEN <<call.write[spiSent + 1]>>
                  ELSE IF zeros > 0 THEN <<Zero>> ELSE tx)
        /\ spiSent' = (IF more THEN spiSent + 1 ELSE spiSent)
        /\ zeros' = (IF ~more /\ zeros > 0 THEN zeros - 1 ELSE zeros)
      BY <1>3 DEF Send
  <2>2. Counts /\ Asked /\ OnTheWire /\ Answers /\ SpiTypes
      BY <1>1 DEF SpiFlow
  <2>3. /\ Flight = 0 /\ credits = 1 /\ Out = In /\ Out < Total
        /\ tx = <<>> /\ shift = <<>> /\ rx = <<>>
        /\ Len(tx) = 0 /\ Len(shift) = 0 /\ Len(rx) = 0
    <3>1. credits = 1 - Flight /\ Out - In = Flight /\ In < Total /\ credits \in Int
        BY <1>1, <2>2 DEF Counts, SpiTypes
    <3>2. Flight = 0
        BY <1>3, <3>1, SpiNumbers
    <3>3. Len(tx) = 0 /\ Len(shift) = 0 /\ Len(rx) = 0
        BY <3>2, SpiNumbers DEF Flight
    <3> QED
        BY <3>1, <3>2, <3>3, SpiNumbers
  <2>4. more \/ zeros > 0
      BY <2>2, <2>3, SpiNumbers DEF Out, Total, SpiTypes
  <2>5. PICK v \in Nat : tx' = <<v>> /\ v = expected[Base + Out + 1]
    <3>1. CASE more
      <4>1. call.write \in Seq(Nat) /\ spiSent + 1 \in 1..Len(call.write)
          BY <2>2, <3>1, SpiNumbers DEF SpiTypes
      <4>2. call.write[spiSent + 1] \in Nat
          BY <4>1, ElementOfSeq
      <4>3. Out = spiSent
          BY <2>2, <3>1, SpiNumbers DEF Counts, Out
      <4>4. expected[Base + (spiSent + 1)] = call.write[spiSent + 1]
          BY <2>2, <4>1 DEF Asked
      <4>5. Base + Out + 1 = Base + (spiSent + 1)
          BY <4>3, SpiNumbers
      <4> QED
          BY <2>1, <3>1, <4>2, <4>4, <4>5
    <3>2. CASE ~more
      <4>1. spiSent = Len(call.write) /\ zeros > 0 /\ zeros <= call.read
          BY <2>2, <2>4, <3>2, SpiNumbers DEF SpiTypes
      <4>2. tx' = <<Zero>> /\ Zero \in Nat
          BY <2>1, <3>2, <4>1 DEF Zero
      <4>3. call.read - zeros + 1 \in 1..call.read
            /\ Base + Out + 1 = Base + Len(call.write) + (call.read - zeros + 1)
        <5>1. Base \in Int /\ zeros \in Nat /\ call.read \in Nat /\ Len(call.write) \in Nat
            BY SpiNumbers
        <5>2. \A b, m, r, z \in Int : z > 0 /\ z <= r =>
                /\ r - z + 1 \in 1..r
                /\ b + (m + (r - z)) + 1 = b + m + (r - z + 1)
            OBVIOUS
        <5>3. Out = Len(call.write) + (call.read - zeros)
            BY <4>1 DEF Out
        <5> QED
          <6>1. Len(call.write) \in Int /\ call.read \in Int /\ zeros \in Int
              BY <5>1
          <6>2. /\ call.read - zeros + 1 \in 1..call.read
                /\ Base + (Len(call.write) + (call.read - zeros)) + 1
                   = Base + Len(call.write) + (call.read - zeros + 1)
            <7>1. PICK b \in Int, m \in Int, r \in Int, z \in Int :
                    b = Base /\ m = Len(call.write) /\ r = call.read /\ z = zeros
                BY <5>1, <6>1
            <7>2. z > 0 /\ z <= r
                BY <4>1, <7>1
            <7>3. r - z + 1 \in 1..r /\ b + (m + (r - z)) + 1 = b + m + (r - z + 1)
                BY <5>2, <7>2
            <7> QED
                BY <7>1, <7>3
          <6> QED
              BY <5>3, <6>2
      <4>4. expected[Base + Len(call.write) + (call.read - zeros + 1)] = Zero
          BY <2>2, <4>3 DEF Asked
      <4> QED
          BY <4>2, <4>3, <4>4
    <3> QED
        BY <3>1, <3>2
  <2>6. tx' \in Seq(Nat) /\ Len(tx') = 1 /\ tx'[1] = v
      BY <2>5
  <2>7. /\ spiSent' \in 0..Len(call.write) /\ zeros' \in 0..call.read
        /\ credits' = 0 /\ Out' = Out + 1
        /\ spiSent' < Len(call.write) => zeros' = call.read
    <3>1. spiSent \in 0..Len(call.write) /\ zeros \in 0..call.read
          /\ (spiSent < Len(call.write) => zeros = call.read)
        BY <2>2 DEF SpiTypes, Counts
    <3>2. Out' = spiSent' + (call.read - zeros')
        BY <1>1 DEF Out
    <3>5. zeros \in Nat /\ call.read \in Nat /\ Len(call.write) \in Nat /\ spiSent \in Nat
        BY SpiNumbers
    <3>6. Out = spiSent + (call.read - zeros)
        BY DEF Out
    <3>3. CASE more
        BY <2>1, <2>3, <3>1, <3>2, <3>3, <3>5, <3>6, SMTT(30)
    <3>4. CASE ~more
        BY <2>1, <2>3, <2>4, <3>1, <3>2, <3>4, <3>5, <3>6
    <3> QED
        BY <3>3, <3>4
  <2>8. Base' = Base /\ In' = In /\ Total' = Total /\ Flight' = 1
      BY <1>1, <2>3, <2>6 DEF Base, In, Total, Flight
  <2>9. SpiTypes'
      BY <1>1, <2>2, <2>6, <2>7 DEF SpiTypes
  <2>10. Asked' /\ Answers'
      BY <1>1, <2>2, <2>8 DEF Asked, Answers
  <2>11. Counts'
    <3>1. Out' - In' = 1 /\ credits' = 1 - Flight'
        BY <2>3, <2>7, <2>8, SpiNumbers
    <3> QED
        BY <1>1, <2>2, <2>7, <2>8, <3>1 DEF Counts
  <2>12. OnTheWire'
    <3>1. Len(wire) = Base + Out
        BY <2>2, <2>3, SpiNumbers DEF OnTheWire
    <3>2. Len(wire') + Len(shift') + Len(tx') = Base' + Out'
        BY <1>1, <2>3, <2>6, <2>7, <2>8, <3>1, SpiNumbers
    <3>3. tx'[1] = expected'[Len(wire') + Len(shift') + 1]
      <4>1. Len(wire) + Len(shift) + 1 = Base + Out + 1
          BY <2>3, <3>1, SpiNumbers
      <4> QED
          BY <1>1, <2>5, <2>6, <4>1
    <3> QED
        BY <1>1, <2>2, <2>3, <3>2, <3>3 DEF OnTheWire
  <2> QED
      BY <1>1, <2>9, <2>10, <2>11, <2>12 DEF SpiFlow
<1> QED
    BY <1>2, <1>3

(* A byte is read: it is the answer to the last one sent.                    *)
LEMMA ReceiveFlow == ASSUME SpiFlow, SpiInv, Receive PROVE SpiFlow'
<1>1. /\ pc = "receive"
      /\ UNCHANGED <<call, spiSent, zeros, status, tx, shift, roe, sso, wire, expected>>
    BY DEF Receive
<1>2. Counts /\ Asked /\ OnTheWire /\ Answers /\ SpiTypes
    BY <1>1 DEF SpiFlow
<1>3. CASE ~status.rrdy
  <2>1. pc' = "poll" /\ UNCHANGED <<ignore, credits, got, rx>>
      BY <1>3 DEF Receive
  <2> QED
      BY <1>1, <1>2, <2>1 DEF SpiFlow, SpiTypes, Asked, Counts, OnTheWire, Answers, Base,
         Total, Out, In, Flight
<1>4. CASE status.rrdy
  <2>1. /\ rx' = <<>> /\ credits' = credits + 1
        /\ pc' = IF ignore' = 0 /\ Len(got') = call.read THEN "finish" ELSE "poll"
      BY <1>4 DEF Receive
  <2>2. rx # <<>> /\ tx = <<>> /\ shift = <<>>
      BY <1>1, <1>4 DEF SpiInv, Fresh, OneByte
  <2>3. Len(rx) = 1 /\ Len(tx) = 0 /\ Len(shift) = 0 /\ Flight = 1
    <3>1. Len(rx) # 0 /\ Len(rx) \in 0..1 /\ Len(tx) = 0 /\ Len(shift) = 0
        BY <2>2, SpiNumbers
    <3> QED
        BY <3>1 DEF Flight
  <2>4. /\ credits = 0 /\ Out = In + 1 /\ In < Total /\ Len(wire) = Base + Out
        /\ rx[1] = Len(wire)
    <3>1. credits = 1 - Flight /\ Out - In = Flight /\ In < Total
        BY <1>1, <1>2 DEF Counts
    <3>2. Len(wire) + Len(shift) + Len(tx) = Base + Out /\ rx[1] = Len(wire)
        BY <1>2, <2>2 DEF OnTheWire, Answers
    <3> QED
        BY <2>3, <3>1, <3>2, SpiNumbers
  <2>5. Base' = Base /\ Total' = Total /\ Out' = Out /\ Flight' = 0 /\ credits' = 1
    <3>1. Len(rx') = 0 /\ Len(tx') = 0 /\ Len(shift') = 0
        BY <1>1, <2>1, <2>3, EmptySeq
    <3> QED
        BY <1>1, <2>1, <2>4, <3>1 DEF Base, Total, Out, Flight
  <2>6. /\ ignore' \in 0..Len(call.write) /\ got' \in Seq(Nat) /\ Len(got') <= call.read
        /\ Len(got') \in Nat /\ In' = In + 1 /\ (ignore' > 0 => got' = <<>>)
        /\ \A k \in 1..Len(got') : got'[k] = Base + Len(call.write) + k
    <3>1. CASE ignore > 0
      <4>1. ignore' = ignore - 1 /\ got' = got
          BY <1>4, <3>1 DEF Receive
      <4>2. In' = Len(got) + (Len(call.write) - (ignore - 1))
          BY <1>1, <4>1 DEF In
      <4>3. In = Len(got) + (Len(call.write) - ignore)
          BY DEF In
      <4>4. got \in Seq(Nat) /\ ignore \in 0..Len(call.write) /\ Len(got) <= call.read
          BY <1>2 DEF SpiTypes
      <4>5. got = <<>> /\ \A k \in 1..Len(got) : got[k] = Base + Len(call.write) + k
          BY <1>2, <3>1 DEF Counts, Answers
      <4>6. Len(call.write) \in Nat /\ Len(got) \in Nat
          BY SpiNumbers
      <4>7. In' = In + 1 /\ ignore' \in 0..Len(call.write)
          BY <3>1, <4>1, <4>2, <4>3, <4>4, <4>6
      <4> QED
          BY <4>1, <4>4, <4>5, <4>6, <4>7
    <3>2. CASE ~(ignore > 0)
      <4>1. ignore' = ignore /\ got' = got \o rx
          BY <1>4, <3>2 DEF Receive
      <4>2. ignore = 0
          BY <3>2, SpiNumbers
      <4>3. got \in Seq(Nat) /\ rx \in Seq(Nat)
          BY <1>2 DEF SpiTypes
      <4>4. /\ got \o rx \in Seq(Nat) /\ Len(got \o rx) = Len(got) + Len(rx)
            /\ \A k \in 1..(Len(got) + Len(rx)) :
                 (got \o rx)[k] = IF k <= Len(got) THEN got[k] ELSE rx[k - Len(got)]
          BY <4>3, ConcatProperties
      <4>5. In = Len(got) + Len(call.write) /\ Total = Len(call.write) + call.read
            /\ In' = Len(got') + Len(call.write)
          BY <1>1, <4>1, <4>2, SpiNumbers DEF In, Total
      <4>6. Len(got') = Len(got) + 1 /\ Len(got) + 1 <= call.read /\ In' = In + 1
        <5>1. Len(call.write) \in Nat /\ Len(got) \in Nat /\ call.read \in Nat
            BY SpiNumbers
        <5>2. Len(got') = Len(got) + 1
            BY <2>3, <4>1, <4>4
        <5>3. Len(got) + Len(call.write) < Len(call.write) + call.read
            BY <2>4, <4>5
        <5> QED
          <6>1. \A g, w, r \in Nat : g + w < w + r => g + 1 <= r
              OBVIOUS
          <6>2. Len(got) + 1 <= call.read
              BY <5>1, <5>3, <6>1
          <6>3. \A g, w \in Nat : (g + 1) + w = (g + w) + 1
              OBVIOUS
          <6>4. In' = In + 1
              BY <4>5, <5>1, <5>2, <6>3
          <6> QED
              BY <5>2, <6>2, <6>4
      <4>7. \A k \in 1..Len(got) : got[k] = Base + Len(call.write) + k
          BY <1>2 DEF Answers
      <4>8. ASSUME NEW k \in 1..Len(got') PROVE got'[k] = Base + Len(call.write) + k
        <5>1. CASE k <= Len(got)
          <6>1. k \in 1..Len(got) /\ k \in 1..(Len(got) + Len(rx))
              BY <2>3, <4>6, <5>1, SpiNumbers
          <6> QED
              BY <4>1, <4>4, <4>7, <5>1, <6>1
        <5>2. CASE ~(k <= Len(got))
          <6>1. /\ k = Len(got) + 1 /\ k - Len(got) = 1 /\ k \in 1..(Len(got) + Len(rx))
              BY <2>3, <4>6, <5>2, SpiNumbers, SMTT(30)
          <6>2. Base + Out = Base + Len(call.write) + k
            <7>1. Out = Len(got) + Len(call.write) + 1
                BY <2>4, <4>5
            <7>2. Len(call.write) \in Nat /\ Len(got) \in Nat /\ Base \in Int
                BY SpiNumbers
            <7> QED
              <8>1. \A b, g, w \in Int : b + (g + w + 1) = b + w + (g + 1)
                  OBVIOUS
              <8>2. Base + (Len(got) + Len(call.write) + 1) = Base + Len(call.write) + (Len(got) + 1)
                <9>1. Len(call.write) \in Int /\ Len(got) \in Int
                    BY <7>2
                <9> QED
                    BY <7>2, <8>1, <9>1
              <8> QED
                  BY <6>1, <7>1, <8>2
          <6> QED
              BY <2>4, <4>1, <4>4, <5>2, <6>1, <6>2
        <5> QED
            BY <5>1, <5>2
      <4> QED
        <5>1. Len(got) \in Nat /\ Len(call.write) \in Nat /\ ignore' = 0
            BY <4>1, <4>2, SpiNumbers
        <5>2. ignore' \in 0..Len(call.write) /\ ~(ignore' > 0)
            BY <5>1
        <5>3. Len(got') \in Nat /\ Len(got') <= call.read /\ got' \in Seq(Nat)
            BY <4>1, <4>4, <4>6, <5>1
        <5> QED
            BY <4>6, <4>8, <5>2, <5>3
    <3> QED
        BY <3>1, <3>2
  <2>7. SpiTypes'
    <3>1. rx' \in Seq(Nat) /\ Len(rx') <= 1 /\ credits' \in Int
        BY <2>1, <2>5, EmptySeq
    <3> QED
        BY <1>1, <1>2, <2>6, <3>1 DEF SpiTypes
  <2>8. Asked'
      BY <1>1, <1>2, <2>5 DEF Asked
  <2>9. OnTheWire'
      BY <1>1, <1>2, <2>5 DEF OnTheWire
  <2>10. Answers'
      BY <1>1, <2>1, <2>5, <2>6 DEF Answers
  <2>11. Counts'
    <3>1. Out' - In' = Flight' /\ credits' = 1 - Flight'
        BY <2>4, <2>5, <2>6, SpiNumbers
    <3>2. spiSent' < Len(call'.write) => zeros' = call'.read
        BY <1>1, <1>2 DEF Counts
    <3>3. In' = Len(got') + (Len(call.write) - ignore')
        BY <1>1 DEF In
    <3>4. Total' = Len(call.write) + call.read /\ In' <= Total'
        BY <2>4, <2>5, <2>6, SpiNumbers, SMTT(30) DEF Total
    <3>5. (ignore' = 0 /\ Len(got') = call.read) <=> In' = Total'
      <4>1. Len(call.write) \in Nat /\ call.read \in Nat
          BY SpiNumbers
      <4>2. ignore' \in 0..Len(call.write) /\ Len(got') <= call.read /\ Len(got') \in Nat
          BY <2>6
      <4>3. \A w, r, g, i \in Nat : i <= w /\ g <= r =>
              ((i = 0 /\ g = r) <=> g + (w - i) = w + r)
          OBVIOUS
      <4>4. ignore' \in Nat /\ ignore' <= Len(call.write)
          BY <4>1, <4>2
      <4>5. PICK w \in Nat, r \in Nat, g \in Nat, i \in Nat :
              w = Len(call.write) /\ r = call.read /\ g = Len(got') /\ i = ignore'
          BY <4>1, <4>2, <4>4
      <4>6. i <= w /\ g <= r
          BY <4>2, <4>4, <4>5
      <4>7. (i = 0 /\ g = r) <=> g + (w - i) = w + r
          BY <4>3, <4>6
      <4>8. In' = g + (w - i) /\ Total' = w + r
          BY <3>3, <3>4, <4>5
      <4> QED
          BY <4>5, <4>7, <4>8
    <3>6. pc' = "finish" => In' = Total'
        BY <2>1, <3>5
    <3>7. pc' # "finish" => In' < Total'
      <4>1. In' \in Nat /\ Total' \in Nat
          BY <2>5, <2>6, SpiNumbers, SMTT(30)
      <4> QED
          BY <2>1, <3>4, <3>5, <4>1
    <3> QED
        BY <2>6, <3>1, <3>2, <3>6, <3>7 DEF Counts
  <2>12. pc' # "idle"
      BY <2>1
  <2> QED
      BY <2>7, <2>8, <2>9, <2>10, <2>11, <2>12 DEF SpiFlow
<1> QED
    BY <1>3, <1>4

(* When all answers are in, all bytes are out.                               *)
LEMMA DeliveredThen == ASSUME SpiFlow PROVE Delivered
<1> SUFFICES ASSUME pc = "finish"
             PROVE  /\ wire = expected /\ Tmt
                    /\ got = [i \in 1..call.read |-> Len(wire) - call.read + i]
    BY DEF Delivered
<1>1. Counts /\ Asked /\ OnTheWire /\ Answers /\ SpiTypes
    BY DEF SpiFlow
<1>2. Out <= Total
  <2>1. spiSent <= Len(call.write) /\ call.read - zeros <= call.read
      BY <1>1, SpiNumbers, SMTT(30) DEF SpiTypes
  <2> QED
      BY <2>1, SpiNumbers, SMTT(30) DEF Out, Total
<1>3. Out - In = Flight /\ In = Total
    BY <1>1 DEF Counts
<1>4. Out = Total /\ Flight = 0
    BY <1>2, <1>3, SpiNumbers
<1>5. Len(tx) = 0 /\ Len(shift) = 0 /\ tx = <<>> /\ shift = <<>>
    BY <1>4, SpiNumbers DEF Flight
<1>6. Len(wire) = Len(expected) /\ Len(wire) = Base + Total
  <2>1. Len(wire) + Len(shift) + Len(tx) = Base + Out
      BY <1>1 DEF OnTheWire
  <2> QED
      BY <1>4, <1>5, <2>1, SpiNumbers DEF Base
<1>7. wire = expected
  <2>1. wire \in Seq(Nat) /\ expected \in Seq(Nat) /\ \A k \in 1..Len(wire) : wire[k] = expected[k]
      BY <1>1 DEF SpiTypes, OnTheWire
  <2> QED
      BY <1>6, <2>1, SeqEqual
<1>8. Len(got) = call.read
  <2>1. ignore \in 0..Len(call.write) /\ Len(got) <= call.read
      BY <1>1 DEF SpiTypes
  <2>2. Len(got) + (Len(call.write) - ignore) = Len(call.write) + call.read
      BY <1>3 DEF In, Total
  <2> QED
      BY <2>1, <2>2, SpiNumbers, SMTT(30)
<1>9. got = [i \in 1..call.read |-> Len(wire) - call.read + i]
  <2> DEFINE all == [i \in 1..call.read |-> Len(wire) - call.read + i]
  <2>1. ASSUME NEW i \in 1..call.read PROVE Len(wire) - call.read + i = Base + Len(call.write) + i
    <3>1. Total = Len(call.write) + call.read
        BY DEF Total
    <3>2. Len(call.write) \in Nat /\ call.read \in Nat /\ Base \in Int /\ i \in Int
        BY SpiNumbers
    <3> QED
        BY <1>6, <3>1, <3>2, SMTT(30)
  <2>2. got \in Seq(Nat) /\ \A i \in 1..Len(got) : got[i] = Base + Len(call.write) + i
      BY <1>1 DEF SpiTypes, Answers
  <2>3. \A i \in 1..call.read : got[i] \in Nat
      BY <1>8, <2>2, ElementOfSeq
  <2>4. all \in [1..call.read -> Nat] /\ \A i \in 1..call.read : all[i] = got[i]
      BY <1>8, <2>1, <2>2, <2>3
  <2>5. all \in Seq(Nat) /\ Len(all) = call.read
    <3>1. call.read \in Nat
        BY SpiNumbers
    <3>2. all \in Seq(Nat)
        BY <2>4, <3>1, SeqDef
    <3> QED
        BY <2>4, <3>1, <3>2, LenProperties
  <2> HIDE DEF all
  <2>6. got = all
      BY <1>8, <2>2, <2>4, <2>5, SeqEqual
  <2> QED
      BY <2>6 DEF all
<1> QED
    BY <1>5, <1>7, <1>9 DEF Tmt

LEMMA FinishFlow == ASSUME SpiFlow, Finish PROVE SpiFlow'
<1>1. /\ pc = "finish" /\ pc' = "idle" /\ wire' = (IF call.merge THEN wire ELSE <<>>)
      /\ expected' = (IF call.merge THEN expected ELSE <<>>)
      /\ UNCHANGED <<call, spiSent, zeros, ignore, credits, got, tx, shift, rx>>
    BY DEF Finish, Keeps
<1>2. wire = expected /\ wire \in Seq(Nat) /\ SpiTypes
    BY <1>1, DeliveredThen DEF Delivered, SpiFlow, SpiTypes
<1>3. wire' = expected' /\ wire' \in Seq(Nat)
    BY <1>1, <1>2, EmptySeq
<1> QED
    BY <1>1, <1>2, <1>3 DEF SpiFlow, SpiTypes

(* The core: a byte moves to the shift register, and is shifted out while    *)
(* its answer comes in.                                                      *)
LEMMA LoadFlow == ASSUME SpiFlow, SpiInv, Load PROVE SpiFlow'
<1>1. /\ tx # <<>> /\ shift = <<>> /\ shift' = tx /\ tx' = <<>>
      /\ UNCHANGED <<driver, rx, wire, expected>>
    BY DEF Load
<1>2. UNCHANGED <<pc, call, spiSent, zeros, ignore, credits, got>>
    BY <1>1 DEF driver
<1>3. pc # "idle"
    BY <1>1 DEF SpiInv, AtRest, Tmt
<1>4. Counts /\ Asked /\ OnTheWire /\ Answers /\ SpiTypes
    BY <1>3 DEF SpiFlow
<1>5. Len(shift) = 0 /\ Len(tx') = 0 /\ Len(shift') = Len(tx)
    BY <1>1, EmptySeq
<1>6. Base' = Base /\ Total' = Total /\ Out' = Out /\ In' = In
    BY <1>1, <1>2 DEF Base, Total, Out, In
<1>7. Flight' = Flight
    BY <1>1, <1>5, SpiNumbers DEF Flight
<1>8. SpiTypes'
    BY <1>1, <1>2, <1>4, <1>5, EmptySeq DEF SpiTypes
<1>9. Asked' /\ Counts' /\ Answers'
    BY <1>1, <1>2, <1>4, <1>6, <1>7 DEF Asked, Counts, Answers
<1>10. OnTheWire'
  <2>1. Len(wire) + Len(shift) + Len(tx) = Base + Out /\ Len(wire) + Len(shift) + 1 = Len(wire) + 1
      BY <1>4, <1>5, SpiNumbers DEF OnTheWire
  <2>2. tx[1] = expected[Len(wire) + Len(shift) + 1] /\ \A k \in 1..Len(wire) : wire[k] = expected[k]
      BY <1>1, <1>4 DEF OnTheWire
  <2>3. Len(wire') + Len(shift') + Len(tx') = Base' + Out'
      BY <1>1, <1>5, <1>6, <2>1, SpiNumbers
  <2> QED
      BY <1>1, <2>1, <2>2, <2>3 DEF OnTheWire
<1> QED
    BY <1>2, <1>3, <1>8, <1>9, <1>10 DEF SpiFlow

LEMMA ShiftedFlow == ASSUME SpiFlow, SpiInv, Shifted PROVE SpiFlow'
<1>1. /\ shift # <<>> /\ shift' = <<>> /\ wire' = wire \o shift /\ rx' = <<Len(wire')>>
      /\ UNCHANGED <<driver, tx, expected>>
    BY DEF Shifted
<1>2. UNCHANGED <<pc, call, spiSent, zeros, ignore, credits, got>>
    BY <1>1 DEF driver
<1>3. pc # "idle" /\ tx = <<>> /\ rx = <<>>
    BY <1>1 DEF SpiInv, AtRest, Tmt, OneByte
<1>4. Counts /\ Asked /\ OnTheWire /\ Answers /\ SpiTypes
    BY <1>3 DEF SpiFlow
<1>5. Len(shift) = 1 /\ Len(tx) = 0 /\ Len(rx) = 0
    BY <1>1, <1>3, SpiNumbers
<1>6. /\ wire' \in Seq(Nat) /\ Len(wire') = Len(wire) + 1 /\ Len(wire') \in Nat
      /\ \A k \in 1..(Len(wire) + 1) :
           wire'[k] = IF k <= Len(wire) THEN wire[k] ELSE shift[k - Len(wire)]
  <2>1. wire \in Seq(Nat) /\ shift \in Seq(Nat)
      BY <1>4 DEF SpiTypes
  <2>2. /\ wire \o shift \in Seq(Nat) /\ Len(wire \o shift) = Len(wire) + Len(shift)
        /\ \A k \in 1..(Len(wire) + Len(shift)) :
             (wire \o shift)[k] = IF k <= Len(wire) THEN wire[k] ELSE shift[k - Len(wire)]
      BY <2>1, ConcatProperties
  <2> QED
      BY <1>1, <1>5, <2>2, SpiNumbers, SMTT(30)
<1>7. rx' \in Seq(Nat) /\ Len(rx') = 1 /\ rx'[1] = Len(wire')
  <2> DEFINE v == Len(wire')
  <2>1. v \in Nat /\ rx' = <<v>>
      BY <1>1, <1>6
  <2> HIDE DEF v
  <2>2. rx' \in Seq(Nat) /\ Len(rx') = 1 /\ rx'[1] = v
      BY <2>1
  <2> QED
      BY <2>2 DEF v
<1>8. /\ Base' = Base /\ Total' = Total /\ Out' = Out /\ In' = In
    BY <1>1, <1>2 DEF Base, Total, Out, In
<1>9. Len(shift') = 0 /\ Len(tx') = 0 /\ Flight' = Flight
  <2>1. Len(shift') = 0 /\ Len(tx') = 0
      BY <1>1, <1>5, EmptySeq
  <2> QED
      BY <1>5, <1>7, <2>1 DEF Flight
<1>10. SpiTypes'
    BY <1>1, <1>2, <1>4, <1>6, <1>7, <1>9, EmptySeq DEF SpiTypes
<1>11. Asked' /\ Counts'
    BY <1>1, <1>2, <1>4, <1>8, <1>9 DEF Asked, Counts
<1>12. Answers'
    BY <1>2, <1>4, <1>7, <1>8 DEF Answers
<1>13. OnTheWire'
  <2>1. Len(wire) + Len(shift) + Len(tx) = Base + Out /\ shift[1] = expected[Len(wire) + 1]
        /\ \A k \in 1..Len(wire) : wire[k] = expected[k]
      BY <1>1, <1>4 DEF OnTheWire
  <2>2. ASSUME NEW k \in 1..Len(wire') PROVE wire'[k] = expected[k]
    <3>1. CASE k <= Len(wire)
      <4>1. k \in 1..Len(wire) /\ k \in 1..(Len(wire) + 1)
          BY <1>6, <3>1, SpiNumbers
      <4> QED
          BY <1>6, <2>1, <3>1, <4>1
    <3>2. CASE ~(k <= Len(wire))
      <4>1. k = Len(wire) + 1 /\ k - Len(wire) = 1 /\ k \in 1..(Len(wire) + 1)
          BY <1>6, <3>2, SpiNumbers
      <4> QED
          BY <1>6, <2>1, <3>2, <4>1
    <3> QED
        BY <3>1, <3>2
  <2>3. Len(wire') + Len(shift') + Len(tx') = Base' + Out'
      BY <1>5, <1>6, <1>8, <1>9, <2>1, SpiNumbers
  <2> QED
      BY <1>1, <1>3, <2>2, <2>3 DEF OnTheWire
<1> QED
    BY <1>2, <1>3, <1>10, <1>11, <1>12, <1>13 DEF SpiFlow

LEMMA SpiFlowAlways == SpiSpec => []SpiFlow
<1>1. SpiFlow /\ SpiInv /\ [SpiNext]_spiVars => SpiFlow'
  <2> SUFFICES ASSUME SpiFlow, SpiInv, [SpiNext]_spiVars PROVE SpiFlow'
      OBVIOUS
  <2>1. CASE UNCHANGED spiVars
      BY <2>1 DEF spiVars, driver, spiCore, SpiFlow, SpiTypes, Asked, Counts, OnTheWire,
         Answers, Base, Total, Out, In, Flight
  <2> QED
      BY <2>1, CommandFlow, PollFlow, SendFlow, ReceiveFlow, FinishFlow, LoadFlow, ShiftedFlow
      DEF SpiNext, SpiDriver
<1> QED
    BY <1>1, InitSpiFlow, SpiInvariant, PTL DEF SpiSpec

(* When alt_avalon_spi_command is done the slave has got the bytes of the    *)
(* command and no other, behind those of the commands it was merged with;    *)
(* what the caller gets are the slave's answers to the zeros; and no byte    *)
(* was overrun on the way.                                                   *)
THEOREM CommandTrueAlways == SpiSpec => []CommandTrue
<1>1. SpiFlow /\ SpiInv => CommandTrue
    BY DeliveredThen DEF CommandTrue, SpiInv
<1> QED
    BY <1>1, SpiFlowAlways, SpiInvariant, PTL
-----------------------------------------------------------------------------
(* The breathing LED, for any number of steps and any time a step is held.   *)

LEMMA LedConstants ==
    /\ Steps \in Nat /\ Steps > 0 /\ Hold \in Nat /\ Hold > 0
    /\ Steps * Hold \in Nat /\ MaxResets \in Nat
<1>1. Steps \in Nat /\ Steps > 0 /\ Hold \in Nat /\ Hold > 0 /\ MaxResets \in Nat
    BY LedAssumption
<1> QED
    BY <1>1

(* The quotient, by what it is.                                              *)
LEMMA Quotient ==
    ASSUME NEW c \in Nat, NEW h \in Nat, h > 0
    PROVE  /\ c \div h \in Nat
           /\ h * (c \div h) <= c /\ c < h * (c \div h) + h
BY SMT

LEMMA Product ==
    ASSUME NEW h \in Nat, NEW a \in Nat, NEW b \in Nat, a <= b
    PROVE  h * a <= h * b /\ h * a \in Nat /\ h * b \in Nat
BY SMT

LEMMA ProductNext ==
    ASSUME NEW h \in Nat, NEW a \in Nat
    PROVE  h * (a + 1) = h * a + h /\ h * (2 * a) = 2 * (h * a) /\ h * a = a * h
BY SMT

(* Steps are held one after the other.                                       *)
LEMMA QuotientSteps ==
    ASSUME NEW c \in Nat, NEW h \in Nat, h > 0, NEW s \in Nat
    PROVE  /\ c > 0 => c \div h \in {(c - 1) \div h, (c - 1) \div h + 1}
           /\ c >= s * h <=> c \div h >= s
           /\ c < 2 * s * h => c \div h < 2 * s
<1> DEFINE q == c \div h
           p == (c - 1) \div h
<1>1. q \in Nat /\ h * q <= c /\ c < h * q + h
    BY Quotient
<1>2. \A a, b \in Nat : h * a < h * b + h => a <= b
  <2> SUFFICES ASSUME NEW a \in Nat, NEW b \in Nat, h * a < h * b + h, b + 1 <= a
               PROVE  FALSE
      BY Z3
  <2>1. h * (b + 1) <= h * a /\ h * (b + 1) = h * b + h /\ h * a \in Nat /\ h * b \in Nat
      BY Product, ProductNext
  <2> QED
      BY <2>1
<1>3. ASSUME c > 0 PROVE q = p \/ q = p + 1
  <2>1. c - 1 \in Nat
      BY <1>3
  <2>2. p \in Nat /\ h * p <= c - 1 /\ c - 1 < h * p + h
      BY <2>1, Quotient
  <2> HIDE DEF p, q
  <2>3. h * p \in Nat /\ h * q \in Nat /\ h * (p + 1) = h * p + h /\ p + 1 \in Nat
      BY <1>1, <2>2, Product, ProductNext
  <2>4. h * p < h * q + h
      BY <1>1, <2>1, <2>2, <2>3
  <2>5. h * q < h * (p + 1) + h
      BY <1>1, <2>1, <2>2, <2>3
  <2>6. p <= q /\ q <= p + 1
      BY <1>1, <1>2, <2>2, <2>3, <2>4, <2>5
  <2> QED
      BY <1>1, <2>2, <2>6
<1>4. s * h = h * s /\ 2 * s * h = h * (2 * s) /\ h * s \in Nat /\ 2 * s \in Nat /\ h * (2 * s) \in Nat
  <2>1. 2 * s * h = h * (2 * s)
      BY SMT
  <2> QED
      BY <2>1, Product, ProductNext
<1> HIDE DEF p, q
<1>5. c >= s * h => q >= s
  <2>1. h * s <= c => h * s < h * q + h
      BY <1>1, <1>4, Product
  <2> QED
      BY <1>1, <1>2, <1>4, <2>1
<1>6. q >= s => c >= s * h
  <2>1. q >= s => h * s <= h * q
      BY <1>1, Product
  <2>2. h * q \in Nat
      BY <1>1, Product
  <2> QED
      BY <1>1, <1>4, <2>1, <2>2
<1>7. c < 2 * s * h => q < 2 * s
  <2>1. q >= 2 * s => h * (2 * s) <= h * q
      BY <1>1, <1>4, Product
  <2>2. h * q \in Nat
      BY <1>1, Product
  <2> QED
      BY <1>1, <1>4, <2>1, <2>2
<1> QED
    BY <1>3, <1>5, <1>6, <1>7 DEF p, q

(* The brightness at a value of the counter: it falls, then rises.           *)
BrightAt(c) == IF c \div Hold >= Steps THEN c \div Hold - Steps ELSE Steps - 1 - c \div Hold

LEMMA BrightnessIs ==
    ASSUME r_counter \in 0..(2 * Steps * Hold - 1)
    PROVE  Brightness = BrightAt(r_counter) /\ Brightness \in 0..(Steps - 1)
<1> DEFINE q == r_counter \div Hold
<1>1. Steps \in Nat /\ Steps > 0 /\ Hold \in Nat /\ Hold > 0 /\ 2 * Steps * Hold \in Nat
  <2>1. 2 * Steps * Hold = 2 * (Steps * Hold)
      BY LedConstants
  <2> QED
      BY <2>1, LedConstants
<1>2. r_counter \in Nat /\ r_counter < 2 * Steps * Hold
    BY <1>1
<1>3. q \in Nat /\ q < 2 * Steps /\ (Rising <=> q >= Steps)
    BY <1>1, <1>2, Quotient, QuotientSteps DEF Rising
<1> HIDE DEF q
<1>4. q % Steps = IF q >= Steps THEN q - Steps ELSE q
    BY <1>1, <1>3
<1>5. Step = q % Steps
    BY DEF Step, q
<1>6. BrightAt(r_counter) = IF q >= Steps THEN q - Steps ELSE Steps - 1 - q
    BY DEF BrightAt, q
<1> QED
    BY <1>1, <1>3, <1>4, <1>5, <1>6 DEF Brightness

(* One clock moves it by one step at most.                                   *)
LEMMA BrightMoves ==
    ASSUME NEW c \in Nat, c > 0, c < 2 * Steps * Hold
    PROVE  BrightAt(c) \in {BrightAt(c - 1) - 1, BrightAt(c - 1), BrightAt(c - 1) + 1}
<1> DEFINE q == c \div Hold
           p == (c - 1) \div Hold
<1>1. Steps \in Nat /\ Steps > 0 /\ Hold \in Nat /\ Hold > 0
    BY LedConstants
<1>2. q \in Nat /\ q < 2 * Steps /\ (q = p \/ q = p + 1)
    BY <1>1, Quotient, QuotientSteps
<1>3. c - 1 \in Nat
    OBVIOUS
<1>4. p \in Nat
    BY <1>1, <1>3, Quotient
<1>5. /\ BrightAt(c) = IF q >= Steps THEN q - Steps ELSE Steps - 1 - q
      /\ BrightAt(c - 1) = IF p >= Steps THEN p - Steps ELSE Steps - 1 - p
    BY DEF BrightAt
<1> HIDE DEF p, q
<1> QED
    BY <1>1, <1>2, <1>4, <1>5

(* The accumulator holds exactly the light owed, and the brightness is that  *)
(* of the clock before.                                                      *)
LedInv ==
    /\ LedTypeOK
    /\ owed = r_pwm_width /\ r_pwm_width <= 2 * Steps - 2
    /\ r_counter # 0 => r_pwm_adj = BrightAt(r_counter - 1)

LEMMA ClockInv == ASSUME LedInv, Clock PROVE LedInv'
<1>1. Steps \in Nat /\ Steps > 0 /\ Hold \in Nat /\ Hold > 0 /\ 2 * Steps * Hold \in Nat
      /\ 2 * Steps * Hold > 0
  <2>1. 2 * Steps * Hold = 2 * (Steps * Hold) /\ Steps * Hold > 0
      BY LedConstants
  <2> QED
      BY <2>1, LedConstants
<1>2. /\ r_counter \in 0..(2 * Steps * Hold - 1) /\ r_pwm_adj \in 0..(Steps - 1)
      /\ r_pwm_width \in 0..(2 * Steps - 1) /\ resets \in 0..MaxResets
      /\ owed = r_pwm_width /\ r_pwm_width <= 2 * Steps - 2
    BY DEF LedInv, LedTypeOK
<1>3. /\ r_counter' = (r_counter + 1) % (2 * Steps * Hold) /\ r_pwm_adj' = Brightness
      /\ r_pwm_width' = (r_pwm_width % Steps) + r_pwm_adj
      /\ owed' = owed + r_pwm_adj - (IF LED' THEN Steps ELSE 0) /\ resets' = resets
    BY DEF Clock, Counted, Kept
<1>4. r_pwm_width % Steps = IF r_pwm_width >= Steps THEN r_pwm_width - Steps ELSE r_pwm_width
    BY <1>1, <1>2
<1>5. /\ owed' = r_pwm_width' /\ r_pwm_width' \in 0..(2 * Steps - 1)
      /\ r_pwm_width' <= 2 * Steps - 2
  <2>1. LED' <=> r_pwm_width >= Steps
      BY Zenon DEF Clock, Lit
  <2>2. r_pwm_adj \in Int /\ r_pwm_width \in Int /\ Steps \in Int
      BY <1>1, <1>2
  <2>3. owed' = IF r_pwm_width >= Steps THEN r_pwm_width + (r_pwm_adj - Steps)
                                       ELSE r_pwm_width + r_pwm_adj
    <3>1. CASE r_pwm_width >= Steps
        BY <1>2, <1>3, <2>1, <2>2, <3>1
    <3>2. CASE ~(r_pwm_width >= Steps)
        BY <1>2, <1>3, <2>1, <2>2, <3>2
    <3> QED
        BY <3>1, <3>2
  <2>4. r_pwm_width' = IF r_pwm_width >= Steps THEN (r_pwm_width - Steps) + r_pwm_adj
                                              ELSE r_pwm_width + r_pwm_adj
      BY <1>3, <1>4
  <2> QED
      BY <1>1, <1>2, <2>2, <2>3, <2>4
<1>6. r_counter' = IF r_counter + 1 = 2 * Steps * Hold THEN 0 ELSE r_counter + 1
  <2> DEFINE w == 2 * Steps * Hold
  <2>1. w \in Nat /\ w > 0 /\ r_counter \in 0..(w - 1) /\ r_counter' = (r_counter + 1) % w
      BY <1>1, <1>2, <1>3
  <2> HIDE DEF w
  <2>2. r_counter' = IF r_counter + 1 = w THEN 0 ELSE r_counter + 1
      BY <2>1
  <2> QED
      BY <2>2 DEF w
<1>7. r_counter' \in 0..(2 * Steps * Hold - 1)
    BY <1>1, <1>2, <1>6
<1>8. r_pwm_adj' = BrightAt(r_counter) /\ r_pwm_adj' \in 0..(Steps - 1)
    BY <1>2, <1>3, BrightnessIs
<1>9. r_counter' # 0 => r_counter' - 1 = r_counter
    BY <1>1, <1>2, <1>6
<1> QED
    BY <1>2, <1>3, <1>5, <1>7, <1>8, <1>9 DEF LedInv, LedTypeOK

LEMMA LedInvAlways == LedSpec => []LedInv
<1>1. 0 \in 0..(2 * Steps * Hold - 1) /\ 0 \in 0..(Steps - 1) /\ 0 \in 0..(2 * Steps - 1)
      /\ 0 <= 2 * Steps - 2 /\ 0 \in 0..MaxResets
  <2>1. 2 * Steps * Hold = 2 * (Steps * Hold) /\ Steps * Hold > 0
      BY LedConstants
  <2> QED
      BY <2>1, LedConstants
<1>2. LedInit => LedInv
    BY <1>1 DEF LedInit, LedInv, LedTypeOK
<1>3. LedInv /\ [LedNext]_ledVars => LedInv'
  <2> SUFFICES ASSUME LedInv, [LedNext]_ledVars PROVE LedInv'
      OBVIOUS
  <2>1. CASE Reset
    <3>1. resets' \in 0..MaxResets
      <4>1. resets \in 0..MaxResets /\ resets < MaxResets /\ resets' = resets + 1
          BY <2>1 DEF Reset, LedInv, LedTypeOK
      <4> QED
          BY <4>1, LedConstants
    <3> QED
        BY <1>1, <2>1, <3>1 DEF Reset, LedCleared, LedInv, LedTypeOK
  <2>2. CASE ResetRelease \/ UNCHANGED ledVars
      BY <2>2 DEF ResetRelease, ledVars, LedInv, LedTypeOK
  <2> QED
      BY <2>1, <2>2, ClockInv DEF LedNext
<1> QED
    BY <1>2, <1>3, PTL DEF LedSpec

(* The LEDs show what is asked for but for the two clocks under way, however *)
(* the brightness moves; and it moves one step at a time.                    *)
THEOREM LedTrueAlways == LedSpec => LedTrue
<1>1. LedInv => LightTrue
    BY LedConstants DEF LedInv, LedTypeOK, LightTrue
<1>2. LedInv /\ [LedNext]_ledVars =>
        [Clock /\ r_counter # 0 =>
           r_pwm_adj' \in {r_pwm_adj - 1, r_pwm_adj, r_pwm_adj + 1}]_ledVars
  <2> SUFFICES ASSUME LedInv, Clock, r_counter # 0
               PROVE  r_pwm_adj' \in {r_pwm_adj - 1, r_pwm_adj, r_pwm_adj + 1}
      OBVIOUS
  <2>1. r_pwm_adj = BrightAt(r_counter - 1) /\ r_pwm_adj' = Brightness
      BY DEF LedInv, Clock
  <2>2. r_counter \in 0..(2 * Steps * Hold - 1)
      BY DEF LedInv, LedTypeOK
  <2>3. r_counter \in Nat /\ r_counter > 0 /\ r_counter < 2 * Steps * Hold
    <3>1. 2 * Steps * Hold = 2 * (Steps * Hold) /\ Steps * Hold \in Nat
        BY LedConstants
    <3> QED
        BY <2>2, <3>1
  <2> QED
      BY <2>1, <2>2, <2>3, BrightnessIs, BrightMoves
<1> QED
    BY <1>1, <1>2, LedInvAlways, PTL DEF LedSpec, LedTrue, Smooth
-----------------------------------------------------------------------------
(* The interrupts: the table is never seen half changed, and, unless         *)
(* handlers change the enables, only a more urgent interrupt nests and every *)
(* enable comes back, for any number of interrupts, handlers and requests.   *)

Entries == [handler : Handlers \union {NULL}, context : Contexts]
Frames == [pc : {"pass", "isr", "acked"}, id : 0..NIrq, old : SUBSET Ids,
           open : BOOLEAN, call : Entries \union {NULL}]

Typed ==
    /\ pie \in BOOLEAN /\ ienable \subseteq Ids /\ line \subseteq Ids
    /\ active \subseteq Ids /\ mask \subseteq Ids
    /\ table \in [Ids -> Entries] /\ registered \in [Ids -> Entries]
    /\ main \in [pc : {"idle", "handler", "context", "enable", "restore"},
                 id : Ids, entry : Entries, saved : BOOLEAN]
    /\ stack \in Seq(Frames)

(* No handler runs while the program registers one.                          *)
Closed ==
    /\ stack # <<>> => main.pc = "idle"
    /\ main.pc # "idle" => ~pie

(* The table holds what was registered, but for the entry being written.     *)
TableSame ==
    table = IF main.pc = "context"
              THEN [registered EXCEPT ![main.id].handler = main.entry.handler]
              ELSE registered

(* The enable that follows is that of the entry just registered.             *)
Entered == main.pc = "enable" => registered[main.id] = main.entry

(* An enabled interrupt has a handler, but for the one whose enable is about *)
(* to follow.                                                                *)
Handled ==
    /\ ienable \subseteq active
    /\ \A i \in active : \/ registered[i].handler # NULL
                         \/ main.pc = "enable" /\ i = main.id

TableInv == Typed /\ Closed /\ TableSame /\ Entered /\ Handled /\ PairsMatch
-----------------------------------------------------------------------------
(* The handlers below the top were interrupted, so they are interruptible;   *)
(* and the processor's enable is on only if the top one is.                  *)
Opened ==
    /\ \A k \in 1..(Len(stack) - 1) : stack[k].open
    /\ \A k \in 1..Len(stack) : stack[k].open => stack[k].pc \in {"isr", "acked"}
    /\ pie /\ stack # <<>> => Top.open

(* The mask is the one the last interruptible handler made, and each keeps   *)
(* the mask of the one it interrupted.                                       *)
Highest == IF stack = <<>> THEN 0
           ELSE IF Top.open THEN Len(stack) ELSE Len(stack) - 1
Limit(k) == IF k = 0 THEN Ids ELSE Above(stack[k].id)
Masks ==
    /\ mask = Limit(Highest)
    /\ \A k \in 1..Len(stack) : stack[k].open => stack[k].old = Limit(k - 1)

Enables ==
    /\ ienable = active \intersect mask
    /\ main.pc # "idle" => main.saved
    /\ main.pc = "idle" /\ stack = <<>> => pie

Ordered ==
    \A k \in 1..(Len(stack) - 1) :
      stack[k + 1].pc # "pass" => stack[k + 1].id < stack[k].id

NestInv == Opened /\ Masks /\ Enables /\ Ordered
-----------------------------------------------------------------------------
(* What comes first of some requests is one of them.                         *)
LEMMA FirstIsPending ==
    ASSUME NEW s \in SUBSET Ids, s # {}
    PROVE FirstIrq(s) \in s
<1> DEFINE Less == {ss \in Nat \X Nat : ss[1] < ss[2]}
<1>1. OpToRel(<, Nat) = Less
    BY DEF OpToRel
<1>2. IsWellFoundedOn(Less, Nat)
    BY <1>1, NatLessThanWellFounded
<1>3. s \subseteq Nat
    BY IrqAssumption DEF Ids
<1> HIDE DEF Less
<1>4. PICK x \in s : \A y \in s : ~(<<y, x>> \in Less)
    BY <1>2, <1>3, WFMin
<1>5. ASSUME NEW y \in s PROVE x <= y
    <2>1. x \in Nat /\ y \in Nat /\ ~(<<y, x>> \in {ss \in Nat \X Nat : ss[1] < ss[2]})
        BY <1>3, <1>4 DEF Less
    <2>2. ~(y < x)
        BY <2>1
    <2> QED
        BY <2>1, <2>2
<1> QED
    BY <1>5 DEF FirstIrq, Min

(* The stack after its top frame is replaced, a frame is pushed, or popped.  *)
LEMMA SetTopFacts ==
    ASSUME NEW s \in Seq(Frames), s # <<>>, NEW f \in Frames, NEW t,
           t = [s EXCEPT ![Len(s)] = f]
    PROVE  /\ t \in Seq(Frames) /\ Len(t) = Len(s) /\ t # <<>>
           /\ Len(s) \in Nat \ {0} /\ t[Len(s)] = f
           /\ \A k \in 1..(Len(s) - 1) : t[k] = s[k]
<1>1. Len(s) \in Nat \ {0}
    BY EmptySeq
<1>2. Len(s) \in 1..Len(s)
    BY <1>1
<1>3. /\ t \in Seq(Frames) /\ Len(t) = Len(s)
      /\ \A k \in 1..Len(s) : t[k] = IF k = Len(s) THEN f ELSE s[k]
    BY <1>2, ExceptSeq
<1>4. t # <<>>
    BY <1>1, <1>3, EmptySeq
<1>5. t[Len(s)] = f
    BY <1>2, <1>3
<1>6. ASSUME NEW k \in 1..(Len(s) - 1) PROVE t[k] = s[k]
    <2>1. k \in 1..Len(s) /\ k # Len(s)
        BY <1>1
    <2> QED
        BY <1>3, <2>1
<1> QED
    BY <1>1, <1>3, <1>4, <1>5, <1>6

LEMMA PushFacts ==
    ASSUME NEW s \in Seq(Frames), NEW f \in Frames, NEW t, t = Append(s, f)
    PROVE  /\ t \in Seq(Frames) /\ Len(t) = Len(s) + 1 /\ t # <<>>
           /\ Len(s) \in Nat /\ t[Len(s) + 1] = f
           /\ \A k \in 1..Len(s) : t[k] = s[k]
BY AppendProperties, LenProperties

LEMMA PopFacts ==
    ASSUME NEW s \in Seq(Frames), s # <<>>, NEW t, t = SubSeq(s, 1, Len(s) - 1)
    PROVE  /\ t \in Seq(Frames) /\ Len(t) = Len(s) - 1
           /\ Len(s) \in Nat \ {0} /\ (t = <<>> <=> Len(s) = 1)
           /\ \A k \in 1..(Len(s) - 1) : t[k] = s[k]
<1>1. Len(s) \in Nat \ {0}
    BY EmptySeq
<1>2. \A k \in 1..(Len(s) - 1) : s[k] \in Frames
    BY <1>1, ElementOfSeq
<1>3. /\ t \in Seq(Frames)
      /\ Len(t) = IF 1 <= Len(s) - 1 THEN (Len(s) - 1) - 1 + 1 ELSE 0
      /\ \A k \in 1..((Len(s) - 1) - 1 + 1) : t[k] = s[1 + k - 1]
    BY <1>1, <1>2, SubSeqProperties
<1> DEFINE n == Len(s)
<1>4. Len(t) = n - 1
    <2>1. n \in Nat \ {0} /\ Len(t) = IF 1 <= n - 1 THEN (n - 1) - 1 + 1 ELSE 0
        BY <1>1, <1>3
    <2> HIDE DEF n
    <2> QED
        BY <2>1
<1>5. t = <<>> <=> Len(t) = 0
    BY <1>3, EmptySeq
<1>6. ASSUME NEW k \in 1..(Len(s) - 1) PROVE t[k] = s[k]
    BY <1>1, <1>3
<1> QED
    BY <1>1, <1>3, <1>4, <1>5, <1>6

(* The frame on the processor.                                               *)
LEMMA TopFacts ==
    ASSUME Typed, stack # <<>>
    PROVE  /\ Len(stack) \in Nat \ {0} /\ Top \in Frames
           /\ Len(stack) \in 1..Len(stack)
<1>1. Len(stack) \in Nat \ {0}
    BY EmptySeq DEF Typed
<1> QED
    BY <1>1, ElementOfSeq DEF Typed, Top
-----------------------------------------------------------------------------
LEMMA InitTable == IrqInit => TableInv
<1> SUFFICES ASSUME IrqInit PROVE TableInv
    OBVIOUS
<1> USE IrqAssumption
<1>1. PICK c \in Contexts :
        /\ table = [i \in Ids |-> [handler |-> NULL, context |-> c]] /\ registered = table
        /\ main = [pc |-> "idle", id |-> 0, entry |-> table[0], saved |-> TRUE]
    BY DEF IrqInit
<1>2. 0 \in Ids
    BY DEF Ids
<1>3. table \in [Ids -> Entries]
    BY <1>1 DEF Entries
<1>4. table[0] \in Entries
    BY <1>2, <1>3
<1>5. stack \in Seq(Frames) /\ stack = <<>>
    BY EmptySeq DEF IrqInit
<1>6. Typed
    BY <1>1, <1>2, <1>3, <1>4, <1>5 DEF IrqInit, Typed
<1>7. PairsMatch
    BY <1>5, EmptySeq DEF PairsMatch
<1> QED
    BY <1>1, <1>5, <1>6, <1>7 DEF IrqInit, TableInv, Closed, TableSame, Entered, Handled

(* The steps of a registration, with no handler on the processor.            *)
LEMMA ProgramTable == TableInv /\ Program => TableInv'
<1> SUFFICES ASSUME TableInv, Program PROVE TableInv'
    OBVIOUS
<1> USE DEF TableInv
<1>0. stack = <<>> /\ stack' = stack
    BY DEF Program, IrqRegister, StoreHandler, StoreContext, EnableIrq, Restore, cpu
<1>1. PairsMatch'
    BY <1>0 DEF PairsMatch
<1>2. CASE IrqRegister
    <2>1. PICK i \in Ids, h \in Handlers \union {NULL}, c \in Contexts :
            main' = [pc |-> "handler", id |-> i, entry |-> [handler |-> h, context |-> c], saved |-> pie]
        BY <1>2 DEF IrqRegister
    <2>2. /\ main.pc = "idle" /\ pie' = FALSE
          /\ UNCHANGED <<ienable, line, active, mask, table, stack, registered, raises>>
        BY <1>2 DEF IrqRegister, PieWhile
    <2>3. Typed'
        BY <2>1, <2>2 DEF Typed, Entries
    <2> QED
        BY <2>1, <2>2, <2>3, <1>0, <1>1 DEF Closed, TableSame, Entered, Handled
<1>3. CASE StoreHandler
    <2>1. /\ main.pc = "handler" /\ main' = [main EXCEPT !.pc = "context"]
          /\ table' = [table EXCEPT ![main.id].handler = main.entry.handler]
          /\ UNCHANGED <<pie, ienable, line, active, mask, stack, registered, raises>>
        BY <1>3 DEF StoreHandler, cpu
    <2>2. main' \in [pc : {"idle", "handler", "context", "enable", "restore"},
                     id : Ids, entry : Entries, saved : BOOLEAN]
          /\ main'.pc = "context" /\ main'.id = main.id /\ main'.entry = main.entry
        BY <2>1 DEF Typed
    <2>3. table' \in [Ids -> Entries]
        BY <2>1 DEF Typed, Entries
    <2>4. Typed'
        BY <2>1, <2>2, <2>3 DEF Typed
    <2> QED
        BY <2>1, <2>2, <2>4, <1>0, <1>1 DEF Closed, TableSame, Entered, Handled
<1>4. CASE StoreContext
    <2>1. /\ main.pc = "context" /\ main' = [main EXCEPT !.pc = "enable"]
          /\ table' = [table EXCEPT ![main.id].context = main.entry.context]
          /\ registered' = [registered EXCEPT ![main.id] = main.entry]
          /\ UNCHANGED <<pie, ienable, line, active, mask, stack, raises>>
        BY <1>4 DEF StoreContext, cpu
    <2>2. main' \in [pc : {"idle", "handler", "context", "enable", "restore"},
                     id : Ids, entry : Entries, saved : BOOLEAN]
          /\ main'.pc = "enable" /\ main'.id = main.id
        BY <2>1 DEF Typed
    <2>3. /\ table' \in [Ids -> Entries] /\ registered' \in [Ids -> Entries]
          /\ main.id \in Ids /\ main.entry \in Entries
        BY <2>1 DEF Typed, Entries
    <2>4. Typed'
        BY <2>1, <2>2, <2>3 DEF Typed
    <2>5. table'[main.id] = main.entry
        <3>1. table[main.id].handler = main.entry.handler /\ table[main.id] \in Entries
            BY <2>1, <2>3 DEF TableSame, Typed, Entries
        <3>2. table'[main.id] = [table[main.id] EXCEPT !.context = main.entry.context]
            BY <2>1, <2>3 DEF Typed
        <3> QED
            BY <3>1, <3>2, <2>3 DEF Entries
    <2>6. ASSUME NEW i \in Ids, i # main.id PROVE table'[i] = registered'[i]
        BY <2>1, <2>3, <2>6 DEF TableSame, Typed
    <2>7. registered'[main.id] = main.entry
        BY <2>1, <2>3 DEF Typed
    <2>8. TableSame'
        BY <2>2, <2>3, <2>5, <2>6, <2>7 DEF TableSame
    <2>9. Handled'
        BY <2>1, <2>2, <2>3 DEF Handled, Typed
    <2>10. Entered'
        BY <2>1, <2>2, <2>7 DEF Entered
    <2> QED
        BY <2>1, <2>2, <2>4, <2>8, <2>9, <2>10, <1>0, <1>1 DEF Closed
<1>5. CASE EnableIrq
    <2>1. /\ main.pc = "enable" /\ main' = [main EXCEPT !.pc = "restore"]
          /\ active' = IF main.entry.handler # NULL THEN active \union {main.id}
                                                    ELSE active \ {main.id}
          /\ ienable' = active'
          /\ UNCHANGED <<pie, line, mask, table, stack, registered, raises>>
        BY <1>5 DEF EnableIrq, SetActive
    <2>2. main' \in [pc : {"idle", "handler", "context", "enable", "restore"},
                     id : Ids, entry : Entries, saved : BOOLEAN]
          /\ main'.pc = "restore" /\ main.id \in Ids
        BY <2>1 DEF Typed
    <2>3. Typed'
        BY <2>1, <2>2 DEF Typed
    <2>4. Handled'
        BY <2>1, <2>2 DEF Handled, Entered
    <2> QED
        BY <2>1, <2>2, <2>3, <2>4, <1>0, <1>1 DEF Closed, TableSame, Entered
<1>6. CASE Restore
    <2>1. /\ main.pc = "restore" /\ main' = [main EXCEPT !.pc = "idle"] /\ pie' = main.saved
          /\ UNCHANGED <<ienable, line, active, mask, table, stack, registered, raises>>
        BY <1>6 DEF Restore, Restored
    <2>2. main' \in [pc : {"idle", "handler", "context", "enable", "restore"},
                     id : Ids, entry : Entries, saved : BOOLEAN]
          /\ main'.pc = "idle" /\ main.saved \in BOOLEAN
        BY <2>1 DEF Typed
    <2>3. Typed'
        BY <2>1, <2>2 DEF Typed
    <2> QED
        BY <2>1, <2>2, <2>3, <1>0, <1>1 DEF Closed, TableSame, Entered, Handled
<1> QED
    BY <1>2, <1>3, <1>4, <1>5, <1>6 DEF Program

(* The exception pushes a frame that has called nothing yet.                 *)
LEMMA ExceptionTable == TableInv /\ Exception => TableInv'
<1> SUFFICES ASSUME TableInv, Exception PROVE TableInv'
    OBVIOUS
<1> USE DEF TableInv
<1> DEFINE f == [pc |-> "pass", id |-> NIrq, old |-> {}, open |-> FALSE, call |-> NULL]
<1>1. /\ stack' = Append(stack, f) /\ pie' = FALSE /\ pie
      /\ UNCHANGED <<ienable, line, active, mask, table, main, registered, raises>>
    BY DEF Exception, Interrupted
<1>2. f \in Frames
    BY IrqAssumption DEF Frames
<1>3. f.pc = "pass"
    OBVIOUS
<1> HIDE DEF f
<1>4. /\ stack' \in Seq(Frames) /\ Len(stack') = Len(stack) + 1 /\ stack' # <<>>
      /\ Len(stack) \in Nat /\ stack'[Len(stack) + 1] = f
      /\ \A k \in 1..Len(stack) : stack'[k] = stack[k]
    BY <1>1, <1>2, PushFacts DEF Typed
<1>5. DOMAIN stack = 1..Len(stack) /\ DOMAIN stack' = 1..(Len(stack) + 1)
    BY <1>4, LenProperties DEF Typed
<1>6. ASSUME NEW k \in DOMAIN stack', stack'[k].pc = "isr"
      PROVE k \in DOMAIN stack /\ stack'[k] = stack[k]
    <2>1. k # Len(stack) + 1
        BY <1>3, <1>4, <1>6
    <2> QED
        BY <2>1, <1>4, <1>5
<1>7. PairsMatch'
    BY <1>1, <1>6 DEF PairsMatch
<1>8. Typed'
    BY <1>1, <1>4 DEF Typed
<1>9. main.pc = "idle"
    BY <1>1 DEF Closed
<1> QED
    BY <1>1, <1>7, <1>8, <1>9 DEF Closed, TableSame, Entered, Handled

(* A pass calls the handler of a pending interrupt: one that is enabled, so  *)
(* its entry is whole and not cleared.                                       *)
LEMMA PassTable == TableInv /\ Pass => TableInv'
<1> SUFFICES ASSUME TableInv, Pass PROVE TableInv'
    OBVIOUS
<1> USE DEF TableInv
<1>1. /\ stack # <<>>
      /\ UNCHANGED <<ienable, line, active, mask, table, main, registered, raises>>
    BY DEF Pass
<1>2. main.pc = "idle" /\ table = registered
    BY <1>1 DEF Closed, TableSame
<1>3. CASE /\ IrqPending # {} /\ UNCHANGED pie
           /\ SetTop([Top EXCEPT !.pc = "isr", !.id = FirstIrq(IrqPending), !.open = FALSE,
                                 !.call = table[FirstIrq(IrqPending)]])
    <2> DEFINE i == FirstIrq(IrqPending)
               f == [Top EXCEPT !.pc = "isr", !.id = i, !.open = FALSE, !.call = table[i]]
    <2>1. i \in IrqPending /\ IrqPending \subseteq Ids /\ IrqPending \subseteq active
        BY <1>3, FirstIsPending DEF IrqPending, Typed, Handled
    <2>2. table[i] \in Entries /\ table[i] = registered[i] /\ registered[i].handler # NULL
        BY <2>1, <1>2 DEF Typed, Handled
    <2>3. stack' = [stack EXCEPT ![Len(stack)] = f]
        BY <1>3 DEF SetTop
    <2>4. i \in 0..NIrq
        <3> HIDE DEF i
        <3> QED
            BY <2>1, IrqAssumption DEF Ids
    <2>5. Top \in Frames
        BY <1>1, TopFacts
    <2> HIDE DEF i
    <2>6. f \in Frames /\ f.pc = "isr" /\ f.call = table[i] /\ f.id = i
        BY <2>2, <2>4, <2>5 DEF Frames
    <2> HIDE DEF f
    <2>7. /\ stack' \in Seq(Frames) /\ Len(stack') = Len(stack) /\ stack' # <<>>
          /\ Len(stack) \in Nat \ {0} /\ stack'[Len(stack)] = f
          /\ \A k \in 1..(Len(stack) - 1) : stack'[k] = stack[k]
        BY <1>1, <2>3, <2>6, SetTopFacts DEF Typed
    <2>8. DOMAIN stack = 1..Len(stack) /\ DOMAIN stack' = 1..Len(stack)
        BY <2>7, LenProperties DEF Typed
    <2>9. ASSUME NEW k \in DOMAIN stack', stack'[k].pc = "isr"
          PROVE stack'[k].call = registered[stack'[k].id] /\ stack'[k].call.handler # NULL
        <3>1. CASE k = Len(stack)
            BY <3>1, <2>2, <2>6, <2>7
        <3>2. CASE k # Len(stack)
            <4>1. k \in DOMAIN stack /\ stack'[k] = stack[k]
                BY <3>2, <2>7, <2>8
            <4> QED
                BY <4>1, <2>9 DEF PairsMatch
        <3> QED
            BY <3>1, <3>2
    <2>10. PairsMatch'
        BY <1>1, <2>9 DEF PairsMatch
    <2>11. Typed'
        BY <1>1, <1>3, <2>7 DEF Typed
    <2> QED
        BY <1>1, <1>2, <2>10, <2>11 DEF Closed, TableSame, Entered, Handled
<1>4. CASE IrqPending = {} /\ pie' = TRUE /\ stack' = SubSeq(stack, 1, Len(stack) - 1)
    <2>1. /\ stack' \in Seq(Frames) /\ Len(stack') = Len(stack) - 1
          /\ Len(stack) \in Nat \ {0}
          /\ \A k \in 1..(Len(stack) - 1) : stack'[k] = stack[k]
        BY <1>1, <1>4, PopFacts DEF Typed
    <2>2. DOMAIN stack = 1..Len(stack) /\ DOMAIN stack' = 1..(Len(stack) - 1)
        BY <2>1, LenProperties DEF Typed
    <2>3. ASSUME NEW k \in DOMAIN stack' PROVE k \in DOMAIN stack /\ stack'[k] = stack[k]
        BY <2>1, <2>2
    <2>4. PairsMatch'
        BY <1>1, <2>3 DEF PairsMatch
    <2>5. Typed'
        BY <1>1, <1>4, <2>1 DEF Typed
    <2> QED
        BY <1>1, <1>2, <2>4, <2>5 DEF Closed, TableSame, Entered, Handled
<1> QED
    BY <1>3, <1>4 DEF Pass

(* The steps of a handler leave its call and the table as they are.          *)
LEMMA HandlerTable ==
    ASSUME TableInv, stack # <<>>, NEW f \in Frames,
           f.pc = "isr" => Top.pc = "isr",
           f.id = Top.id, f.call = Top.call,
           stack' = [stack EXCEPT ![Len(stack)] = f],
           pie' \in BOOLEAN, ienable' \subseteq active, line' \subseteq Ids, mask' \subseteq Ids,
           UNCHANGED <<active, table, main, registered>>
    PROVE  TableInv'
<1> USE DEF TableInv
<1>1. /\ stack' \in Seq(Frames) /\ Len(stack') = Len(stack) /\ stack' # <<>>
      /\ Len(stack) \in Nat \ {0} /\ stack'[Len(stack)] = f
      /\ \A k \in 1..(Len(stack) - 1) : stack'[k] = stack[k]
    BY SetTopFacts DEF Typed
<1>2. DOMAIN stack = 1..Len(stack) /\ DOMAIN stack' = 1..Len(stack)
    BY <1>1, LenProperties DEF Typed
<1>3. ASSUME NEW k \in DOMAIN stack', stack'[k].pc = "isr"
      PROVE k \in DOMAIN stack /\ stack[k].pc = "isr"
            /\ stack'[k].call = stack[k].call /\ stack'[k].id = stack[k].id
    <2>1. CASE k = Len(stack)
        BY <2>1, <1>1, <1>2, <1>3 DEF Top
    <2>2. CASE k # Len(stack)
        BY <2>2, <1>1, <1>2, <1>3
    <2> QED
        BY <2>1, <2>2
<1>4. PairsMatch'
    BY <1>3 DEF PairsMatch
<1>5. Typed'
    BY <1>1 DEF Typed, Handled
<1>6. main.pc = "idle"
    BY DEF Closed
<1> QED
    BY <1>4, <1>5, <1>6 DEF Closed, TableSame, Entered, Handled

LEMMA ServeTable ==
    TableInv /\ (Acknowledge \/ Interruptible \/ NonInterruptible \/ IrqReturn) => TableInv'
<1> SUFFICES ASSUME TableInv, Acknowledge \/ Interruptible \/ NonInterruptible \/ IrqReturn
             PROVE TableInv'
    OBVIOUS
<1>1. stack # <<>>
    BY DEF Acknowledge, Interruptible, NonInterruptible, IrqReturn, Running
<1>2. Top \in Frames /\ Typed /\ ienable \subseteq active /\ mask \subseteq Ids
    BY <1>1, TopFacts DEF TableInv, Typed, Handled
<1>3. CASE Acknowledge
    <2> DEFINE f == [Top EXCEPT !.pc = "acked"]
    <2>1. f \in Frames /\ f.pc # "isr" /\ f.id = Top.id /\ f.call = Top.call
        BY <1>2 DEF Frames
    <2>2. /\ stack' = [stack EXCEPT ![Len(stack)] = f] /\ line' \subseteq Ids
          /\ UNCHANGED <<pie, ienable, active, mask, table, main, registered, raises>>
        BY <1>2, <1>3 DEF Acknowledge, SetTop, cpu, Typed
    <2> HIDE DEF f
    <2> QED
        BY <1>1, <1>2, <2>1, <2>2, HandlerTable DEF Typed
<1>4. CASE Interruptible
    <2> DEFINE f == [Top EXCEPT !.open = TRUE, !.old = mask]
    <2>1. f \in Frames /\ f.pc = Top.pc /\ f.id = Top.id /\ f.call = Top.call
        BY <1>2 DEF Frames
    <2>2. Above(Top.id) \subseteq Ids
        BY <1>2, IrqAssumption DEF Frames, Above, Ids
    <2>3. /\ stack' = [stack EXCEPT ![Len(stack)] = f] /\ mask' \subseteq Ids
          /\ ienable' \subseteq active /\ pie' \in BOOLEAN
          /\ UNCHANGED <<line, active, table, main, registered, raises>>
        BY <1>4, <2>2 DEF Interruptible, SetTop
    <2> HIDE DEF f
    <2> QED
        BY <1>1, <1>2, <2>1, <2>3, HandlerTable DEF Typed
<1>5. CASE NonInterruptible
    <2> DEFINE f == [Top EXCEPT !.open = FALSE]
    <2>1. f \in Frames /\ f.pc = Top.pc /\ f.id = Top.id /\ f.call = Top.call
        BY <1>2 DEF Frames
    <2>2. Top.old \subseteq Ids
        BY <1>2 DEF Frames
    <2>3. /\ stack' = [stack EXCEPT ![Len(stack)] = f] /\ mask' \subseteq Ids
          /\ ienable' \subseteq active /\ pie' \in BOOLEAN
          /\ UNCHANGED <<line, active, table, main, registered, raises>>
        BY <1>5, <2>2 DEF NonInterruptible, MaskAfter, SetTop
    <2> HIDE DEF f
    <2> QED
        BY <1>1, <1>2, <2>1, <2>3, HandlerTable DEF Typed
<1>6. CASE IrqReturn
    <2> DEFINE f == [Top EXCEPT !.pc = "pass"]
    <2>1. f \in Frames /\ f.pc # "isr" /\ f.id = Top.id /\ f.call = Top.call
        BY <1>2 DEF Frames
    <2>2. /\ stack' = [stack EXCEPT ![Len(stack)] = f]
          /\ UNCHANGED <<pie, ienable, line, active, mask, table, main, registered, raises>>
        BY <1>6 DEF IrqReturn, SetTop, cpu
    <2> HIDE DEF f
    <2> QED
        BY <1>1, <1>2, <2>1, <2>2, HandlerTable DEF Typed
<1> QED
    BY <1>3, <1>4, <1>5, <1>6

LEMMA NextTable == TableInv /\ [IrqNext]_irqVars => TableInv'
<1> SUFFICES ASSUME TableInv, [IrqNext]_irqVars PROVE TableInv'
    OBVIOUS
<1> USE DEF TableInv
<1>1. CASE Raise
    <2>1. line' \subseteq Ids
        BY <1>1 DEF Raise, Typed
    <2>2. UNCHANGED <<pie, ienable, active, mask, table, main, stack, registered>>
        BY <1>1 DEF Raise, cpu
    <2> QED
        BY <2>1, <2>2 DEF Typed, Closed, TableSame, Entered, Handled, PairsMatch
<1>2. CASE Change
    <2>1. PICK i \in Ids : registered[i].handler # NULL /\ \E on \in BOOLEAN : SetActive(i, on)
        BY <1>2 DEF Change
    <2>2. active' \in {active \union {i}, active \ {i}} /\ ienable' = active'
        BY <2>1 DEF SetActive
    <2>3. /\ stack # <<>>
          /\ UNCHANGED <<pie, line, mask, table, main, stack, registered>>
        BY <1>2 DEF Change, Running
    <2>4. main.pc = "idle"
        BY <2>3 DEF Closed
    <2>5. Typed'
        BY <2>2, <2>3 DEF Typed
    <2>6. Handled'
        BY <2>1, <2>2, <2>3, <2>4 DEF Handled
    <2> QED
        BY <2>3, <2>4, <2>5, <2>6 DEF Closed, TableSame, Entered, PairsMatch
<1>3. CASE UNCHANGED irqVars
    BY <1>3 DEF irqVars, cpu, Typed, Closed, TableSame, Entered, Handled, PairsMatch
<1> QED
    BY <1>1, <1>2, <1>3, ProgramTable, ExceptionTable, PassTable, ServeTable
    DEF IrqNext, Serve

(* Inductive: the table, the handlers that run and the enables belong        *)
(* together, whatever the handlers do.                                       *)
THEOREM TableInvariant == IrqSpec => []TableInv
<1>1. IrqInit => TableInv
    BY InitTable
<1>2. TableInv /\ [IrqNext]_irqVars => TableInv'
    BY NextTable
<1> QED
    BY <1>1, <1>2, PTL DEF IrqSpec

(* A handler is only ever called with the context registered with it.        *)
THEOREM NeverHalfWritten == IrqSpec => []PairsMatch
BY TableInvariant, PTL DEF TableInv
-----------------------------------------------------------------------------
LEMMA InitNest == IrqInit => NestInv
<1> SUFFICES ASSUME IrqInit PROVE NestInv
    OBVIOUS
<1>1. /\ stack = <<>> /\ Len(stack) = 0 /\ pie /\ mask = Ids
      /\ ienable = {} /\ active = {} /\ main.pc = "idle"
    BY EmptySeq DEF IrqInit
<1>2. Opened /\ Ordered
    BY <1>1 DEF Opened, Ordered
<1>3. Masks
    BY <1>1 DEF Masks, Highest, Limit
<1> QED
    BY <1>1, <1>2, <1>3 DEF NestInv, Enables

(* Steps that leave the stack and the mask alone.                            *)
LEMMA FlatNest ==
    ASSUME NestInv, UNCHANGED <<stack, mask>>, Enables',
           stack # <<>> => pie' = pie
    PROVE  NestInv'
<1> USE DEF NestInv
<1>1. Opened'
    BY DEF Opened, Top
<1>2. Masks'
    BY DEF Masks, Highest, Limit, Top
<1>3. Ordered'
    BY DEF Ordered
<1> QED
    BY <1>1, <1>2, <1>3

LEMMA ProgramNest == TableInv /\ NestInv /\ Program => NestInv'
<1> SUFFICES ASSUME TableInv, NestInv, Program PROVE NestInv'
    OBVIOUS
<1>1. stack = <<>> /\ UNCHANGED <<stack, mask>>
    BY DEF Program, IrqRegister, StoreHandler, StoreContext, EnableIrq, Restore, cpu
<1>2. Len(stack) = 0
    BY <1>1, EmptySeq
<1>3. mask = Ids /\ ienable = active
    BY <1>1 DEF TableInv, Typed, NestInv, Masks, Highest, Limit, Enables
<1>4. Enables'
    <2> USE DEF TableInv, Typed, NestInv, Enables
    <2>1. CASE IrqRegister
        <3>1. main.pc = "idle" /\ main'.saved = pie /\ main'.pc = "handler"
              /\ UNCHANGED <<ienable, active>>
            BY <2>1 DEF IrqRegister
        <3> QED
            BY <3>1, <1>1, <1>3
    <2>2. CASE StoreHandler \/ StoreContext
        <3>1. /\ main.pc # "idle" /\ main'.saved = main.saved /\ main'.pc # "idle"
              /\ UNCHANGED <<ienable, active>>
            BY <2>2 DEF StoreHandler, StoreContext, cpu
        <3> QED
            BY <3>1, <1>1, <1>3
    <2>3. CASE EnableIrq
        <3>1. /\ main.pc # "idle" /\ main'.saved = main.saved /\ main'.pc # "idle"
              /\ ienable' = active' /\ active' \subseteq active \union {main.id}
            BY <2>3 DEF EnableIrq, SetActive
        <3>2. active' \subseteq Ids
            BY <3>1
        <3> QED
            BY <3>1, <3>2, <1>1, <1>3
    <2>4. CASE Restore
        <3>1. main.pc # "idle" /\ pie' = main.saved /\ main'.pc = "idle"
              /\ UNCHANGED <<ienable, active>>
            BY <2>4 DEF Restore, Restored
        <3> QED
            BY <3>1, <1>1, <1>3
    <2> QED
        BY <2>1, <2>2, <2>3, <2>4 DEF Program
<1> QED
    BY <1>1, <1>4, FlatNest

(* An exception is taken only over an interruptible handler.                 *)
LEMMA ExceptionNest == TableInv /\ NestInv /\ Exception => NestInv'
<1> SUFFICES ASSUME TableInv, NestInv, Exception PROVE NestInv'
    OBVIOUS
<1> USE DEF NestInv
<1> DEFINE f == [pc |-> "pass", id |-> NIrq, old |-> {}, open |-> FALSE, call |-> NULL]
<1>1. /\ stack' = Append(stack, f) /\ pie' = FALSE /\ pie
      /\ UNCHANGED <<ienable, line, active, mask, table, main, registered, raises>>
    BY DEF Exception, Interrupted
<1>2. f \in Frames
    BY IrqAssumption DEF Frames
<1>3. f.pc = "pass" /\ ~f.open
    OBVIOUS
<1> HIDE DEF f
<1>4. stack \in Seq(Frames) /\ Closed
    BY DEF TableInv, Typed
<1>5. /\ Len(stack') = Len(stack) + 1 /\ stack' # <<>>
      /\ Len(stack) \in Nat /\ stack'[Len(stack) + 1] = f
      /\ \A k \in 1..Len(stack) : stack'[k] = stack[k]
    BY <1>1, <1>2, <1>4, PushFacts
<1>6. stack # <<>> => Len(stack) > 0 /\ stack[Len(stack)].open
    BY <1>1, <1>4, EmptySeq DEF Opened, Top
<1>7. stack = <<>> => Len(stack) = 0
    BY EmptySeq
<1>8. \A k \in 1..Len(stack) : stack[k].open
    BY <1>5, <1>6, <1>7 DEF Opened
<1>9. Top' = f
    BY <1>5 DEF Top
<1>10. Highest = Len(stack) /\ Highest' = Len(stack)
    BY <1>3, <1>5, <1>6, <1>7, <1>9 DEF Highest, Top
<1>11. \A k \in 0..Len(stack) : Limit(k)' = Limit(k)
    BY <1>5 DEF Limit
<1>12. Opened'
    <2>1. \A k \in 1..(Len(stack') - 1) : stack'[k].open
        BY <1>5, <1>8
    <2>2. ASSUME NEW k \in 1..Len(stack'), stack'[k].open PROVE stack'[k].pc \in {"isr", "acked"}
        <3>1. k # Len(stack) + 1
            BY <1>3, <1>5, <2>2
        <3>2. k \in 1..Len(stack) /\ stack'[k] = stack[k]
            BY <1>5, <3>1
        <3> QED
            BY <3>2, <2>2 DEF Opened
    <2> QED
        BY <1>1, <2>1, <2>2 DEF Opened
<1>13. Masks'
    <2>1. mask' = Limit(Highest)'
        <3>1. Len(stack) \in 0..Len(stack)
            BY <1>5
        <3>2. mask = Limit(Len(stack))
            BY <1>10 DEF Masks
        <3>3. Limit(Len(stack)) = (IF Len(stack) = 0 THEN Ids ELSE Above(stack'[Len(stack)].id))
            BY <3>1, <1>5 DEF Limit
        <3> QED
            BY <3>2, <3>3, <1>1, <1>10 DEF Limit
    <2>2. ASSUME NEW k \in 1..Len(stack'), stack'[k].open
          PROVE stack'[k].old = IF k - 1 = 0 THEN Ids ELSE Above(stack'[k - 1].id)
        <3>1. k # Len(stack) + 1
            BY <1>3, <1>5, <2>2
        <3>2. k \in 1..Len(stack) /\ stack'[k] = stack[k]
            BY <1>5, <3>1
        <3>3. stack[k].old = IF k - 1 = 0 THEN Ids ELSE Above(stack[k - 1].id)
            BY <3>2, <2>2 DEF Masks, Limit
        <3>4. k - 1 # 0 => stack'[k - 1] = stack[k - 1]
            BY <3>2, <1>5
        <3> QED
            BY <3>2, <3>3, <3>4
    <2> QED
        BY <2>1, <2>2 DEF Masks, Limit
<1>14. Ordered'
    <2> SUFFICES ASSUME NEW k \in 1..(Len(stack') - 1), stack'[k + 1].pc # "pass"
                 PROVE stack'[k + 1].id < stack'[k].id
        BY DEF Ordered
    <2>1. k # Len(stack)
        BY <1>3, <1>5
    <2>2. k \in 1..(Len(stack) - 1) /\ stack'[k] = stack[k] /\ stack'[k + 1] = stack[k + 1]
        BY <1>5, <2>1
    <2> QED
        BY <2>2 DEF Ordered
<1>15. Enables'
    BY <1>1, <1>5 DEF Enables
<1> QED
    BY <1>12, <1>13, <1>14, <1>15

(* The steps of the handler on the processor, and the pass that calls one,   *)
(* for a stack of n frames whose top becomes f.                              *)
LEMMA ShapeNest ==
    ASSUME NestInv, NEW n \in Nat \ {0}, NEW f \in Frames,
           Len(stack) = n, Len(stack') = n, stack' # <<>>, stack'[n] = f,
           \A k \in 1..(n - 1) : stack'[k] = stack[k],
           f.open => f.pc \in {"isr", "acked"} /\ f.old = Limit(n - 1),
           mask' = IF f.open THEN Above(f.id) ELSE Limit(n - 1),
           pie' => f.open,
           ienable' = active' \intersect mask',
           main' = main, main.pc = "idle",
           f.pc # "pass" /\ n > 1 => f.id < stack[n - 1].id
    PROVE  NestInv'
<1> USE DEF NestInv
<1>1. Top' = f
    BY DEF Top
<1>2. Opened'
    <2>1. \A k \in 1..(n - 1) : stack'[k].open
        BY DEF Opened
    <2>2. ASSUME NEW k \in 1..n, stack'[k].open PROVE stack'[k].pc \in {"isr", "acked"}
        <3>1. CASE k = n
            BY <3>1, <2>2
        <3>2. CASE k # n
            <4>1. k \in 1..n /\ stack'[k] = stack[k]
                BY <3>2
            <4> QED
                BY <4>1, <2>2 DEF Opened
        <3> QED
            BY <3>1, <3>2
    <2> QED
        BY <1>1, <2>1, <2>2 DEF Opened
<1>3. Masks'
    <2>1. Highest' = IF f.open THEN n ELSE n - 1
        BY <1>1 DEF Highest
    <2>2. Limit(n - 1)
            = IF n - 1 = 0 THEN Ids ELSE Above(stack'[n - 1].id)
        BY DEF Limit
    <2>3. mask' = IF Highest' = 0 THEN Ids ELSE Above(stack'[Highest'].id)
        <3>1. CASE f.open
            BY <3>1, <2>1
        <3>2. CASE ~f.open
            BY <3>2, <2>1, <2>2
        <3> QED
            BY <3>1, <3>2
    <2>4. ASSUME NEW k \in 1..n, stack'[k].open
          PROVE stack'[k].old = IF k - 1 = 0 THEN Ids ELSE Above(stack'[k - 1].id)
        <3>1. CASE k = n
            BY <3>1, <2>2, <2>4
        <3>2. CASE k # n
            <4>1. k \in 1..n /\ stack'[k] = stack[k]
                BY <3>2
            <4>2. stack[k].old = IF k - 1 = 0 THEN Ids ELSE Above(stack[k - 1].id)
                BY <4>1, <2>4 DEF Masks, Limit
            <4>3. k - 1 # 0 => stack'[k - 1] = stack[k - 1]
                BY <3>2
            <4> QED
                BY <4>1, <4>2, <4>3
        <3> QED
            BY <3>1, <3>2
    <2> QED
        BY <2>3, <2>4 DEF Masks, Limit
<1>4. Ordered'
    <2> SUFFICES ASSUME NEW k \in 1..(n - 1), stack'[k + 1].pc # "pass"
                 PROVE stack'[k + 1].id < stack'[k].id
        BY DEF Ordered
    <2>1. CASE k = n - 1
        <3>1. n > 1 /\ stack'[k + 1] = f /\ stack'[k] = stack[n - 1]
            BY <2>1
        <3> QED
            BY <3>1
    <2>2. CASE k # n - 1
        <3>1. k \in 1..(n - 1) /\ stack'[k] = stack[k] /\ stack'[k + 1] = stack[k + 1]
            BY <2>2
        <3> QED
            BY <3>1 DEF Ordered
    <2> QED
        BY <2>1, <2>2
<1>5. Enables'
    BY DEF Enables
<1> QED
    BY <1>2, <1>3, <1>4, <1>5

LEMMA HandlerNest ==
    ASSUME Typed, NestInv, stack # <<>>, NEW f \in Frames,
           stack' = [stack EXCEPT ![Len(stack)] = f],
           f.open => f.pc \in {"isr", "acked"} /\ f.old = Limit(Len(stack) - 1),
           mask' = IF f.open THEN Above(f.id) ELSE Limit(Len(stack) - 1),
           pie' => f.open,
           ienable' = active' \intersect mask',
           main' = main, main.pc = "idle",
           f.pc # "pass" /\ Len(stack) > 1 => f.id < stack[Len(stack) - 1].id
    PROVE  NestInv'
<1>1. /\ stack' \in Seq(Frames) /\ Len(stack') = Len(stack) /\ stack' # <<>>
      /\ Len(stack) \in Nat \ {0} /\ stack'[Len(stack)] = f
      /\ \A k \in 1..(Len(stack) - 1) : stack'[k] = stack[k]
    BY SetTopFacts DEF Typed
<1> QED
    BY <1>1, ShapeNest

(* The mask under a handler that is not interruptible is that of the one it  *)
(* interrupted.                                                              *)
LEMMA MaskBelow ==
    ASSUME Typed, NestInv, stack # <<>>
    PROVE  mask = IF Top.open THEN Above(Top.id) ELSE Limit(Len(stack) - 1)
BY TopFacts DEF NestInv, Masks, Highest, Limit, Top

LEMMA PassNest == TableInv /\ NestInv /\ Pass => NestInv'
<1> SUFFICES ASSUME TableInv, NestInv, Pass PROVE NestInv'
    OBVIOUS
<1>1. /\ stack # <<>> /\ Top.pc = "pass" /\ Typed
      /\ UNCHANGED <<ienable, line, active, mask, table, main, registered, raises>>
    BY DEF Pass, TableInv
<1>2. /\ Len(stack) \in Nat \ {0} /\ Top \in Frames /\ Len(stack) \in 1..Len(stack)
    BY <1>1, TopFacts
<1>3. ~Top.open /\ ~pie
    BY <1>1, <1>2 DEF NestInv, Opened, Top
<1>4. mask = Limit(Len(stack) - 1)
    BY <1>1, <1>3, MaskBelow
<1>5. main.pc = "idle" /\ ienable = active \intersect mask
    BY <1>1 DEF TableInv, Closed, NestInv, Enables
<1>6. CASE /\ IrqPending # {} /\ UNCHANGED pie
           /\ SetTop([Top EXCEPT !.pc = "isr", !.id = FirstIrq(IrqPending), !.open = FALSE,
                                 !.call = table[FirstIrq(IrqPending)]])
    <2> DEFINE i == FirstIrq(IrqPending)
               f == [Top EXCEPT !.pc = "isr", !.id = i, !.open = FALSE, !.call = table[i]]
    <2>0. IrqPending \subseteq Ids /\ IrqPending \subseteq mask
        BY <1>1, <1>5 DEF IrqPending, Typed
    <2>1. i \in IrqPending /\ i \in Ids /\ i \in mask
        <3>1. IrqPending \in SUBSET Ids /\ IrqPending # {}
            BY <1>6, <2>0
        <3>2. i \in IrqPending
            BY <3>1, FirstIsPending
        <3> QED
            BY <2>0, <3>2
    <2>2. stack' = [stack EXCEPT ![Len(stack)] = f]
        BY <1>6 DEF SetTop
    <2> HIDE DEF i
    <2>3. table[i] \in Entries /\ i \in 0..NIrq
        BY <1>1, <2>1, IrqAssumption DEF Typed, Ids
    <2>4. f \in Frames /\ ~f.open /\ f.id = i
        BY <1>2, <2>3 DEF Frames
    <2>5. ASSUME Len(stack) > 1 PROVE i < stack[Len(stack) - 1].id
        <3>1. stack[Len(stack) - 1] \in Frames
            BY <1>1, <1>2, <2>5, ElementOfSeq DEF Typed
        <3>2. stack[Len(stack) - 1].id \in Int
            BY <3>1, IrqAssumption DEF Frames
        <3>3. Len(stack) - 1 # 0
            BY <1>2, <2>5
        <3>4. mask = Above(stack[Len(stack) - 1].id)
            BY <1>4, <3>3 DEF Limit
        <3> QED
            BY <2>1, <3>2, <3>4 DEF Above
    <2> HIDE DEF f
    <2> QED
        BY <1>1, <1>3, <1>4, <1>5, <1>6, <2>2, <2>4, <2>5, HandlerNest
<1>7. CASE IrqPending = {} /\ pie' = TRUE /\ stack' = SubSeq(stack, 1, Len(stack) - 1)
    <2> USE DEF NestInv
    <2>1. /\ Len(stack') = Len(stack) - 1 /\ (stack' = <<>> <=> Len(stack) = 1)
          /\ \A k \in 1..(Len(stack) - 1) : stack'[k] = stack[k]
        BY <1>1, <1>7, PopFacts DEF Typed
    <2>2. \A k \in 1..(Len(stack) - 1) : stack'[k].open
        BY <2>1 DEF Opened
    <2>3. stack' # <<>> => Top'.open /\ Top'.id = stack[Len(stack) - 1].id
        BY <1>2, <2>1, <2>2 DEF Top
    <2>4. Highest' = Len(stack) - 1
        BY <1>2, <2>1, <2>3 DEF Highest
    <2>5. Opened'
        <3>1. \A k \in 1..(Len(stack') - 1) : stack'[k].open
            BY <1>2, <2>1, <2>2
        <3>2. ASSUME NEW k \in 1..Len(stack'), stack'[k].open PROVE stack'[k].pc \in {"isr", "acked"}
            <4>1. k \in 1..Len(stack) /\ stack'[k] = stack[k]
                BY <1>2, <2>1
            <4> QED
                BY <4>1, <3>2 DEF Opened
        <3> QED
            BY <3>1, <3>2, <2>3 DEF Opened
    <2>6. Masks'
        <3>1. mask' = IF Highest' = 0 THEN Ids ELSE Above(stack'[Highest'].id)
            BY <1>1, <1>2, <1>4, <2>1, <2>4 DEF Limit
        <3>2. ASSUME NEW k \in 1..Len(stack'), stack'[k].open
              PROVE stack'[k].old = IF k - 1 = 0 THEN Ids ELSE Above(stack'[k - 1].id)
            <4>1. k \in 1..Len(stack) /\ stack'[k] = stack[k]
                BY <1>2, <2>1
            <4>2. stack[k].old = IF k - 1 = 0 THEN Ids ELSE Above(stack[k - 1].id)
                BY <4>1, <3>2 DEF Masks, Limit
            <4>3. k - 1 # 0 => stack'[k - 1] = stack[k - 1]
                BY <1>2, <2>1
            <4> QED
                BY <4>1, <4>2, <4>3
        <3> QED
            BY <3>1, <3>2 DEF Masks, Limit
    <2>7. Ordered'
        <3> SUFFICES ASSUME NEW k \in 1..(Len(stack') - 1), stack'[k + 1].pc # "pass"
                     PROVE stack'[k + 1].id < stack'[k].id
            BY DEF Ordered
        <3>1. /\ k \in 1..(Len(stack) - 1) /\ k + 1 \in 1..(Len(stack) - 1)
            BY <1>2, <2>1
        <3>2. stack'[k] = stack[k] /\ stack'[k + 1] = stack[k + 1]
            BY <2>1, <3>1
        <3> QED
            BY <3>1, <3>2 DEF Ordered
    <2>8. Enables'
        BY <1>1, <1>5, <1>7 DEF Enables
    <2> QED
        BY <2>5, <2>6, <2>7, <2>8
<1> QED
    BY <1>6, <1>7 DEF Pass

LEMMA ServeNest ==
    TableInv /\ NestInv /\ (Acknowledge \/ Interruptible \/ NonInterruptible \/ IrqReturn)
      => NestInv'
<1> SUFFICES ASSUME TableInv, NestInv,
                    Acknowledge \/ Interruptible \/ NonInterruptible \/ IrqReturn
             PROVE NestInv'
    OBVIOUS
<1>1. stack # <<>> /\ Typed /\ Top.pc # "pass"
    BY DEF Acknowledge, Interruptible, NonInterruptible, IrqReturn, Running, TableInv
<1>2. /\ Len(stack) \in Nat \ {0} /\ Top \in Frames /\ Len(stack) \in 1..Len(stack)
    BY <1>1, TopFacts
<1>3. mask = IF Top.open THEN Above(Top.id) ELSE Limit(Len(stack) - 1)
    BY <1>1, MaskBelow
<1>4. /\ main.pc = "idle" /\ ienable = active \intersect mask
      /\ pie => Top.open
      /\ Top.open => Top.old = Limit(Len(stack) - 1)
    BY <1>1, <1>2 DEF TableInv, Closed, NestInv, Enables, Opened, Masks, Top
<1>5. Len(stack) > 1 => Top.id < stack[Len(stack) - 1].id
    <2> SUFFICES ASSUME Len(stack) > 1 PROVE Top.id < stack[Len(stack) - 1].id
        OBVIOUS
    <2>1. /\ Len(stack) - 1 \in 1..(Len(stack) - 1)
          /\ stack[(Len(stack) - 1) + 1] = Top
        BY <1>2 DEF Top
    <2> QED
        BY <1>1, <2>1 DEF NestInv, Ordered
<1>6. CASE Acknowledge
    <2> DEFINE f == [Top EXCEPT !.pc = "acked"]
    <2>1. f \in Frames /\ f.pc = "acked" /\ f.id = Top.id /\ f.open = Top.open /\ f.old = Top.old
        BY <1>2 DEF Frames
    <2>2. /\ stack' = [stack EXCEPT ![Len(stack)] = f]
          /\ UNCHANGED <<pie, ienable, active, mask, table, main, registered, raises>>
        BY <1>6 DEF Acknowledge, SetTop, cpu
    <2> HIDE DEF f
    <2> QED
        BY <1>1, <1>3, <1>4, <1>5, <2>1, <2>2, HandlerNest
<1>7. CASE Interruptible
    <2> DEFINE f == [Top EXCEPT !.open = TRUE, !.old = mask]
    <2>1. /\ stack' = [stack EXCEPT ![Len(stack)] = f] /\ mask' = Above(Top.id)
          /\ ienable' = active \intersect mask' /\ ~Top.open /\ Top.pc = "isr"
          /\ UNCHANGED <<line, active, table, main, registered, raises>>
        BY <1>7 DEF Interruptible, SetTop
    <2>2. f \in Frames /\ f.pc = "isr" /\ f.id = Top.id /\ f.open /\ f.old = mask
        BY <1>1, <1>2, <2>1 DEF Frames, Typed
    <2> HIDE DEF f
    <2> QED
        BY <1>1, <1>3, <1>4, <1>5, <2>1, <2>2, HandlerNest
<1>8. CASE NonInterruptible
    <2> DEFINE f == [Top EXCEPT !.open = FALSE]
    <2>1. /\ stack' = [stack EXCEPT ![Len(stack)] = f] /\ mask' = Top.old
          /\ ienable' = active \intersect mask' /\ Top.open /\ pie' = FALSE
          /\ UNCHANGED <<line, active, table, main, registered, raises>>
        BY <1>8 DEF NonInterruptible, MaskAfter, SetTop
    <2>2. f \in Frames /\ f.pc = Top.pc /\ f.id = Top.id /\ ~f.open
        BY <1>2 DEF Frames
    <2> HIDE DEF f
    <2> QED
        BY <1>1, <1>3, <1>4, <1>5, <2>1, <2>2, HandlerNest
<1>9. CASE IrqReturn
    <2> DEFINE f == [Top EXCEPT !.pc = "pass"]
    <2>1. /\ stack' = [stack EXCEPT ![Len(stack)] = f] /\ ~Top.open
          /\ UNCHANGED <<pie, ienable, line, active, mask, table, main, registered, raises>>
        BY <1>9 DEF IrqReturn, SetTop, cpu
    <2>2. f \in Frames /\ f.pc = "pass" /\ f.open = Top.open
        BY <1>2 DEF Frames
    <2> HIDE DEF f
    <2> QED
        BY <1>1, <1>3, <1>4, <1>5, <2>1, <2>2, HandlerNest
<1> QED
    BY <1>6, <1>7, <1>8, <1>9

LEMMA NextNest ==
    ASSUME "change" \notin habits
    PROVE  TableInv /\ NestInv /\ [IrqNext]_irqVars => NestInv'
<1> SUFFICES ASSUME TableInv, NestInv, [IrqNext]_irqVars PROVE NestInv'
    OBVIOUS
<1>1. CASE Raise \/ UNCHANGED irqVars
    <2>1. UNCHANGED <<pie, ienable, active, mask, main, stack>>
        BY <1>1 DEF Raise, irqVars, cpu
    <2>2. Enables'
        BY <2>1 DEF NestInv, Enables
    <2> QED
        BY <2>1, <2>2, FlatNest
<1>2. ~Change
    BY DEF Change
<1> QED
    BY <1>1, <1>2, ProgramNest, ExceptionNest, PassNest, ServeNest DEF IrqNext, Serve

(* What handlers do in a behaviour stays the same.                           *)
LEMMA HabitsStay == [IrqNext]_irqVars => UNCHANGED habits
BY DEF IrqNext, Raise, Program, IrqRegister, StoreHandler, StoreContext,
       EnableIrq, Restore, Serve, Exception, Pass, Acknowledge,
       NonInterruptible, IrqReturn, Interruptible, Change, irqVars

(* Inductive with TableInv: the mask is always the one the innermost         *)
(* interruptible handler made, as long as handlers leave the enables alone.  *)
THEOREM NestInvariant ==
    IrqSpec => [](TableInv /\ ("change" \notin habits => NestInv))
<1> DEFINE Inv == TableInv /\ ("change" \notin habits => NestInv)
<1>1. IrqInit => Inv
    BY InitTable, InitNest
<1>2. Inv /\ [IrqNext]_irqVars => Inv'
    BY NextTable, NextNest, HabitsStay
<1> HIDE DEF Inv
<1>3. IrqSpec => []Inv
    BY <1>1, <1>2, PTL DEF IrqSpec
<1> QED
    BY <1>3 DEF Inv

(* A handler is interrupted only by a more urgent one.                       *)
THEOREM OnlyHigherAlways == IrqSpec => []OnlyHigher
<1>1. TableInv /\ ("change" \notin habits => NestInv) => OnlyHigher
    BY DEF NestInv, Ordered, OnlyHigher
<1> QED
    BY <1>1, NestInvariant, PTL

(* When the last handler has gone, interrupts are enabled as before.         *)
THEOREM EnablesComeBack == IrqSpec => []EnablesRestored
<1>1. TableInv /\ ("change" \notin habits => NestInv) => EnablesRestored
    <2> SUFFICES ASSUME TableInv, NestInv, stack = <<>>, main.pc = "idle"
                 PROVE pie /\ mask = Ids /\ ienable = active
        BY DEF EnablesRestored
    <2>1. mask = Ids
        BY DEF NestInv, Masks, Highest, Limit
    <2> QED
        BY <2>1 DEF NestInv, Enables, TableInv, Typed
<1> QED
    BY <1>1, NestInvariant, PTL

(* Handlers nest as HandlersNest says, for every number of interrupts.       *)
THEOREM HandlersNestAlways == IrqSpec => []HandlersNest
<1>1. PairsMatch /\ OnlyHigher /\ EnablesRestored => HandlersNest
    BY DEF HandlersNest
<1> QED
    BY <1>1, NeverHalfWritten, OnlyHigherAlways, EnablesComeBack, PTL
-----------------------------------------------------------------------------
(* The accelerometer, for any depth of the FIFOs, any length of a sample and *)
(* any sleep after a start: what is read is the sensor's answer to it.       *)

WireValues == {Off, On, Id} \union Samples
WireStages == {"idle", "start", "addr", "data", "end", "done"}
WireCores == [start : BOOLEAN, read : BOOLEAN, a : Int, num : Int, pre : BOOLEAN, st : WireStages,
         wr : BOOLEAN, n : Int, left : Int, cur : Int, bit0 : BOOLEAN, tx : Seq(Int), rx : Seq(Int)]
WireOps == [read : BOOLEAN, a : Int, data : Seq(Int), n : Int]
WireStates == {"idle", "call", "fill", "go", "sleep", "poll", "halt", "drain", "back"}
WireDrivers == [at : WireStates, op : WireOps, ticks : Nat, ok : BOOLEAN, got : Seq(Int)]
WireClients == [at : {"menu", "setup", "id", "ready", "xyz"}, step : Int, key : BOOLEAN]

WireTyped ==
    /\ wireCore \in WireCores /\ wireDrv \in WireDrivers /\ client \in WireClients
    /\ sent \in Seq(WireValues) /\ sensor \in [Registers -> WireValues]

(* The call that is under way is the one the client waits for.              *)
WireAsked ==
    CASE client.at = "setup" -> Setup[client.step]
      [] client.at = "id" -> ReadOp(DevId, 1)
      [] client.at = "ready" -> ReadOp(IntSource, 1)
      [] client.at = "xyz" -> ReadOp(Data, DataLen)
      [] OTHER -> wireDrv.op

ClientWaits ==
    /\ client.at = "menu" <=> wireDrv.at = "idle"
    /\ client.at = "setup" => client.step \in 1..5
    /\ wireDrv.op = WireAsked

(* The driver and the controller: the start flag is up from Go to Halt, the *)
(* sleep outlasts the edge, and a command is done when the polls end.       *)
WireWaiting == wireDrv.at = "sleep" /\ wireDrv.ticks = 0
WireRunning == wireDrv.at \in {"sleep", "poll", "halt"} /\ ~WireWaiting

WireHandshake ==
    LET c == wireCore IN
    /\ c.start <=> wireDrv.at \in {"sleep", "poll", "halt"}
    /\ WireRunning => c.pre /\ c.st # "idle"
    /\ ~WireRunning => c.st \in {"idle", "done"}
    /\ WireWaiting => ~c.pre
    /\ wireDrv.at \in {"halt", "drain", "back"} => c.st = "done" /\ wireDrv.ok
    /\ wireDrv.at = "drain" => wireDrv.op.read
    /\ c.bit0 => c.st \in {"idle", "start"}

(* The command: what the controller has been given and how far it is.       *)
WireGiven ==
    LET c == wireCore op == wireDrv.op IN
    /\ c.a = op.a /\ c.tx = op.data /\ sent = <<>>
    /\ op.read => c.num = op.n - 1

WireFinished ==
    LET op == wireDrv.op IN
    /\ wireCore.tx = <<>>
    /\ IF op.read THEN Len(sent) = op.n ELSE sent = <<>> /\ sensor[op.a] = op.data[1]

WireCommand ==
    LET c == wireCore op == wireDrv.op at == wireDrv.at IN
    /\ at \in {"idle", "call", "fill"} => c.tx = <<>>
    /\ at = "fill" => sent = <<>>
    /\ at \in {"fill", "go", "sleep", "poll", "halt"} => c.read = op.read
    /\ at = "go" \/ WireWaiting => WireGiven
    /\ WireRunning => c.wr = ~op.read
    /\ WireRunning /\ c.st \in {"start", "addr"} => WireGiven /\ c.n = op.n
    /\ WireRunning /\ c.st = "addr" => c.cur = op.a
    /\ WireRunning /\ c.st = "data" =>
         /\ c.cur = op.a + Len(sent) /\ c.left = op.n - 1 - Len(sent) /\ Len(sent) < op.n
         /\ c.tx = op.data /\ (~op.read => sent = <<>>)
    /\ (WireRunning /\ c.st \in {"end", "done"}) \/ at \in {"drain", "back"} => WireFinished

(* After the first write of the set-up nothing is stored but the answers.   *)
WireClean == client.at # "menu" /\ ~(client.at = "setup" /\ client.step = 1)
WireAnswered ==
    /\ WireClean => /\ ~wireCore.bit0
                /\ wireCore.rx = IF wireDrv.at \in {"call", "back"} THEN <<>> ELSE sent
    /\ wireDrv.at = "back" /\ wireDrv.op.read => wireDrv.got = sent

(* The sensor: what has been set, and what it has sampled.                  *)
Uniform(v) == \A a \in DataRegisters : sensor[a] = v
Sampled == \E v \in Samples : Uniform(v)
WireSettings ==
    /\ sensor[DevId] = Id
    /\ sensor[IntSource] = On => Sampled
    /\ client.at \in {"id", "ready", "xyz"} =>
         \A a \in {Format, Rate, IntEnable, Power} : sensor[a] = On
    /\ client.at = "setup" => /\ client.step > 1 => sensor[Format] = On
                              /\ client.step > 2 => sensor[Rate] = On
                              /\ client.step > 3 => sensor[IntEnable] = On

AllSent(v) == \A i \in 1..Len(sent) : sent[i] = v
SentTrue ==
    /\ client.at = "id" /\ wireDrv.at # "call" => AllSent(Id)
    /\ client.at = "ready" /\ wireDrv.at # "call" => \A i \in 1..Len(sent) : sent[i] = On => Sampled
    /\ client.at = "xyz" =>
         /\ Sampled
         /\ wireDrv.at # "call" =>
              \E v \in Samples : /\ AllSent(v)
                                 /\ wireCore.st = "data" => Uniform(v)

WireInv ==
    /\ WireTyped /\ ClientWaits /\ WireHandshake /\ WireCommand
    /\ WireAnswered /\ WireSettings /\ SentTrue

LEMMA WireConstants ==
    /\ DataLen \in Nat /\ DataLen >= 1 /\ Depth \in Nat /\ DataLen <= Depth /\ WireSleepTicks \in Nat
    /\ DataLen <= 64 /\ WireSleepTicks >= 1
    /\ DevId = 0 /\ Rate = 1 /\ Power = 2 /\ IntEnable = 3 /\ IntSource = 4 /\ Format = 5 /\ Data = 6
    /\ Registers = 0..(5 + DataLen) /\ DataRegisters = 6..(5 + DataLen)
    /\ Off = 0 /\ On = 1 /\ Samples = {1, 2} /\ Id = 5 /\ WireValues = {0, 1, 2, 5} /\ Junk = 9
BY WireAssumption DEF DevId, Rate, Power, IntEnable, IntSource, Format, Data, Registers, DataRegisters,
                      Off, On, Samples, Id, WireValues, Junk

(* What a call asks for: a read of registers the sensor has, or a setting.  *)
LEMMA WireOpsMade ==
    ASSUME WireTyped, ClientWaits, client.at # "menu", NEW op, op = wireDrv.op
    PROVE  /\ op \in WireOps
           /\ op.read => /\ op.data = <<>> /\ op.n \in 1..DataLen /\ op.a \in {DevId, IntSource, Data}
                         /\ op.a # Data => op.n = 1
                         /\ client.at = "id" => op.a = DevId
                         /\ client.at = "ready" => op.a = IntSource
                         /\ client.at = "xyz" => op.a = Data /\ op.n = DataLen
           /\ ~op.read => /\ op.n = 1 /\ client.at = "setup" /\ op.data \in {<<On>>, <<Off>>}
                          /\ Len(op.data) = 1 /\ op.data[1] \in {On, Off}
                          /\ op.a \in {Format, Rate, IntEnable, Power}
                          /\ op = Setup[client.step]
           /\ op.read <=> client.at # "setup"
<1>1. op = WireAsked /\ op \in WireOps /\ client.at \in {"menu", "setup", "id", "ready", "xyz"}
    BY DEF ClientWaits, WireTyped, WireDrivers, WireClients
<1>2. CASE client.at = "setup"
  <2>1. op = Setup[client.step] /\ client.step \in 1..5
      BY <1>1, <1>2 DEF WireAsked, ClientWaits
  <2>2. \A i \in 1..5 : /\ ~Setup[i].read /\ Setup[i].n = 1 /\ Setup[i].data \in {<<On>>, <<Off>>}
                        /\ Len(Setup[i].data) = 1 /\ Setup[i].data[1] \in {On, Off}
                        /\ Setup[i].a \in {Format, Rate, IntEnable, Power}
      BY DEF Setup, WriteOp
  <2> QED
      BY <1>1, <1>2, <2>1, <2>2
<1>3. ASSUME NEW a, NEW n, op = ReadOp(a, n) PROVE op.read /\ op.data = <<>> /\ op.n = n /\ op.a = a
    BY <1>3 DEF ReadOp
<1>4. CASE client.at = "id"
  <2>1. op = ReadOp(DevId, 1)
      BY <1>1, <1>4 DEF WireAsked
  <2> QED
      BY <1>1, <1>3, <1>4, <2>1, WireConstants
<1>5. CASE client.at = "ready"
  <2>1. op = ReadOp(IntSource, 1)
      BY <1>1, <1>5 DEF WireAsked
  <2> QED
      BY <1>1, <1>3, <1>5, <2>1, WireConstants
<1>6. CASE client.at = "xyz"
  <2>1. op = ReadOp(Data, DataLen)
      BY <1>1, <1>6 DEF WireAsked
  <2> QED
      BY <1>1, <1>3, <1>6, <2>1, WireConstants
<1> QED
    BY <1>1, <1>2, <1>4, <1>5, <1>6

(* What noise and the edge detection leave alone.                           *)
LEMMA Noised ==
    ASSUME NEW c \in WireCores, NEW x, x = Noise(c)
    PROVE  /\ x \in WireCores /\ x.pre = c.pre
           /\ x.start = c.start /\ x.read = c.read /\ x.a = c.a /\ x.num = c.num /\ x.st = c.st
           /\ x.wr = c.wr /\ x.n = c.n /\ x.left = c.left /\ x.cur = c.cur /\ x.bit0 = c.bit0
           /\ x.tx = c.tx /\ (~c.bit0 => x.rx = c.rx)
<1>1. CASE c.bit0 /\ c.st \in {"idle", "start"}
  <2>1. c.rx \in Seq(Int) /\ Junk \in Int
      BY WireConstants DEF WireCores
  <2>2. Push(c.rx, Junk) \in Seq(Int)
      BY <2>1 DEF Push
  <2>3. PICK q \in Seq(Int) : q = Push(c.rx, Junk)
      BY <2>2
  <2>4. x = [c EXCEPT !.rx = q]
      BY <1>1, <2>3 DEF Noise
  <2> QED
      BY <1>1, <2>4 DEF WireCores
<1>2. CASE ~(c.bit0 /\ c.st \in {"idle", "start"})
    BY <1>2 DEF Noise
<1> QED
    BY <1>1, <1>2

LEMMA Settled ==
    ASSUME NEW c \in WireCores, NEW s, s = Settle(c)
    PROVE  /\ s \in WireCores /\ s.pre = c.start
           /\ s.start = c.start /\ s.read = c.read /\ s.a = c.a /\ s.num = c.num /\ s.st = c.st
           /\ s.wr = c.wr /\ s.n = c.n /\ s.left = c.left /\ s.cur = c.cur /\ s.bit0 = c.bit0
           /\ s.tx = c.tx /\ (~c.bit0 => s.rx = c.rx)
<1>1. PICK x : x = Noise(c)
    OBVIOUS
<1>2. s = [x EXCEPT !.pre = c.start] /\ c.start \in BOOLEAN
    BY <1>1 DEF Settle, WireCores
<1>3. /\ x \in WireCores
      /\ x.start = c.start /\ x.read = c.read /\ x.a = c.a /\ x.num = c.num /\ x.st = c.st
      /\ x.wr = c.wr /\ x.n = c.n /\ x.left = c.left /\ x.cur = c.cur /\ x.bit0 = c.bit0
      /\ x.tx = c.tx /\ (~c.bit0 => x.rx = c.rx)
    BY <1>1, Noised
<1> QED
    BY <1>2, <1>3 DEF WireCores

(* A tick of the controller leaves the driver where it is, and no start is  *)
(* then still unseen.                                                        *)
LEMMA TickDriver ==
    ASSUME WireTyped, WireTick
    PROVE  /\ wireDrv' \in WireDrivers /\ client' = client /\ wireDrv'.at = wireDrv.at
           /\ wireDrv'.op = wireDrv.op /\ wireDrv'.ok = wireDrv.ok /\ wireDrv'.got = wireDrv.got
           /\ wireDrv.at = "sleep" => wireDrv'.ticks # 0
<1>1. /\ wireDrv \in WireDrivers /\ WireSleepTicks \in Nat /\ WireSleepTicks >= 1 /\ client' = client
      /\ wireDrv' = IF wireDrv.at = "sleep" /\ wireDrv.ticks < WireSleepTicks
                    THEN [wireDrv EXCEPT !.ticks = @ + 1] ELSE wireDrv
    BY WireConstants DEF WireTyped, WireTick
<1>2. wireDrv.ticks \in Nat
    BY <1>1 DEF WireDrivers
<1>3. CASE wireDrv.at = "sleep" /\ wireDrv.ticks < WireSleepTicks
  <2>1. PICK d \in WireDrivers, t \in Nat : d = wireDrv /\ t = wireDrv.ticks + 1 /\ t # 0
      BY <1>1, <1>2
  <2>2. wireDrv' = [d EXCEPT !.ticks = t]
      BY <1>1, <1>3, <2>1
  <2>3. /\ wireDrv' \in WireDrivers /\ wireDrv'.at = d.at /\ wireDrv'.op = d.op
        /\ wireDrv'.ok = d.ok /\ wireDrv'.got = d.got /\ wireDrv'.ticks = t
      BY <2>2 DEF WireDrivers
  <2> QED
      BY <1>1, <2>1, <2>3
<1>4. CASE ~(wireDrv.at = "sleep" /\ wireDrv.ticks < WireSleepTicks)
    BY <1>1, <1>2, <1>4
<1> QED
    BY <1>3, <1>4

(* The controller sees an edge just when a started command is waiting.      *)
LEMMA EdgeSeen == ASSUME WireInv PROVE StartEdge <=> WireWaiting
<1>1. wireDrv.at \in WireStates /\ wireCore.pre \in BOOLEAN /\ wireCore.start \in BOOLEAN
    BY DEF WireInv, WireTyped, WireDrivers, WireCores
<1> QED
    BY <1>1 DEF WireInv, WireHandshake, StartEdge, WireRunning, WireWaiting, WireStates

(* What is kept while neither the sensor, nor what it has sent, nor the     *)
(* client moves.                                                             *)
LEMMA SensorKept ==
    ASSUME WireInv, UNCHANGED <<client, sensor, sent>>, wireDrv'.op = wireDrv.op,
           wireDrv.at = "call" => wireDrv'.at = "call",
           wireDrv.at = "idle" <=> wireDrv'.at = "idle",
           wireCore'.st = "data" => wireCore.st = "data"
    PROVE  ClientWaits' /\ WireSettings' /\ SentTrue'
<1>1. ClientWaits'
    BY DEF WireInv, ClientWaits, WireAsked
<1>2. WireSettings'
    BY DEF WireInv, WireSettings, Sampled, Uniform
<1>3. SentTrue'
    BY DEF WireInv, SentTrue, Sampled, Uniform, AllSent
<1> QED
    BY <1>1, <1>2, <1>3

LEMMA BeginInv == ASSUME WireInv, WireTick, Begin PROVE WireInv'
<1>1. PICK c \in WireCores, d \in WireDrivers : c = wireCore /\ d = wireDrv
    BY DEF WireInv, WireTyped
<1>x. PICK x \in WireCores :
        /\ x = Noise(c)
        /\ x.start = c.start /\ x.read = c.read /\ x.a = c.a /\ x.num = c.num
        /\ x.bit0 = c.bit0 /\ x.tx = c.tx /\ (~c.bit0 => x.rx = c.rx)
    BY Noised
<1>2. /\ wireCore' = [x EXCEPT !.pre = TRUE, !.st = "start", !.wr = ~c.read,
                               !.n = IF c.read THEN c.num + 1 ELSE Len(c.tx)]
      /\ UNCHANGED <<sensor, sent>>
    BY <1>1, <1>x DEF Begin
<1>3. PICK n \in Int : n = IF c.read THEN c.num + 1 ELSE Len(c.tx)
    BY DEF WireCores
<1>4. PICK w \in BOOLEAN : w = ~c.read
    BY DEF WireCores
<1>5. wireCore' = [x EXCEPT !.pre = TRUE, !.st = "start", !.wr = w, !.n = n]
    BY <1>2, <1>3, <1>4
<1>6. /\ wireCore' \in WireCores /\ wireCore'.pre = TRUE /\ wireCore'.st = "start" /\ wireCore'.wr = w
      /\ wireCore'.n = n
      /\ wireCore'.start = c.start /\ wireCore'.read = c.read /\ wireCore'.a = c.a
      /\ wireCore'.num = c.num /\ wireCore'.bit0 = c.bit0 /\ wireCore'.tx = c.tx
      /\ (~c.bit0 => wireCore'.rx = c.rx)
    BY <1>x, <1>5, ZenonT(30) DEF WireCores, WireStages
<1>7. /\ wireDrv' \in WireDrivers /\ client' = client /\ wireDrv'.at = d.at
      /\ wireDrv'.op = d.op /\ wireDrv'.ok = d.ok /\ wireDrv'.got = d.got
      /\ wireDrv'.ticks # 0 /\ d.at = "sleep" /\ WireWaiting
  <2>1. WireWaiting
      BY EdgeSeen DEF Begin
  <2> QED
      BY <1>1, <2>1, TickDriver DEF WireInv, WireWaiting
<1>8. WireTyped'
    BY <1>2, <1>6, <1>7 DEF WireInv, WireTyped
<1>9. ClientWaits' /\ WireSettings' /\ SentTrue'
    BY <1>1, <1>2, <1>6, <1>7, SensorKept
<1>10. WireHandshake'
    BY <1>1, <1>6, <1>7 DEF WireInv, WireHandshake, WireRunning, WireWaiting
<1>11. WireCommand'
  <2>1. client.at # "menu"
      BY <1>1, <1>7 DEF WireInv, ClientWaits
  <2>2. WireGiven /\ c.read = d.op.read
      BY <1>1, <1>7 DEF WireInv, WireCommand
  <2>o. PICK op : op = wireDrv.op
      OBVIOUS
  <2>p. /\ op.read \in BOOLEAN /\ (op.read => op.n \in Int /\ op.data = <<>>)
        /\ (~op.read => op.n = 1 /\ Len(op.data) = 1)
      BY <2>1, <2>o, WireOpsMade, WireConstants DEF WireInv, WireOps
  <2>q. c.tx = op.data /\ c.read = op.read /\ (op.read => c.num = op.n - 1)
      BY <1>1, <2>2, <2>o DEF WireGiven
  <2>3. n = d.op.n
    <3>1. CASE op.read
      <4>1. c.read /\ c.num = op.n - 1 /\ op.n \in Int
          BY <2>p, <2>q, <3>1
      <4>2. n = c.num + 1
          BY <1>3, <4>1
      <4> QED
          BY <1>1, <2>o, <4>1, <4>2
    <3>2. CASE ~op.read
      <4>1. ~c.read /\ Len(c.tx) = 1 /\ op.n = 1
          BY <2>p, <2>q, <3>2
      <4> QED
          BY <1>1, <1>3, <2>o, <4>1
    <3> QED
        BY <3>1, <3>2
  <2>4. WireGiven'
      BY <1>1, <1>2, <1>6, <1>7, <2>2 DEF WireGiven
  <2> QED
      BY <1>4, <1>6, <1>7, <2>2, <2>3, <2>4 DEF WireCommand, WireRunning, WireWaiting
<1>12. WireAnswered'
    BY <1>1, <1>2, <1>6, <1>7 DEF WireInv, WireAnswered, WireClean
<1> QED
    BY <1>8, <1>9, <1>10, <1>11, <1>12 DEF WireInv

(* Once the edge is seen the driver's side of the handshake stands still.   *)
LEMMA TickFrame ==
    ASSUME WireInv, WireTick, ~StartEdge
    PROVE  /\ wireDrv' \in WireDrivers /\ client' = client /\ wireDrv'.at = wireDrv.at
           /\ wireDrv'.op = wireDrv.op /\ wireDrv'.ok = wireDrv.ok /\ wireDrv'.got = wireDrv.got
           /\ ~WireWaiting /\ ~WireWaiting' /\ (WireRunning' <=> WireRunning)
           /\ wireCore.st \notin {"idle", "done"} =>
                /\ WireRunning /\ wireDrv.at \in {"sleep", "poll"} /\ client.at # "menu"
           /\ wireCore.start \in BOOLEAN /\ (WireRunning => wireCore.start)
<1>1. /\ wireDrv' \in WireDrivers /\ client' = client /\ wireDrv'.at = wireDrv.at
      /\ wireDrv'.op = wireDrv.op /\ wireDrv'.ok = wireDrv.ok /\ wireDrv'.got = wireDrv.got
      /\ wireDrv.at = "sleep" => wireDrv'.ticks # 0
    BY TickDriver DEF WireInv
<1>2. ~WireWaiting
    BY EdgeSeen
<1>3. ~WireWaiting' /\ (WireRunning' <=> WireRunning)
    BY <1>1, <1>2 DEF WireWaiting, WireRunning
<1>4. wireCore.start \in BOOLEAN /\ (WireRunning => wireCore.start)
    BY DEF WireInv, WireHandshake, WireTyped, WireCores, WireRunning
<1>5. wireCore.st \notin {"idle", "done"} =>
         WireRunning /\ wireDrv.at \in {"sleep", "poll"} /\ client.at # "menu"
    BY DEF WireInv, WireHandshake, WireRunning, ClientWaits
<1> QED
    BY <1>1, <1>2, <1>3, <1>4, <1>5

LEMMA RestInv == ASSUME WireInv, WireTick, ~StartEdge, Rest PROVE WireInv'
<1>1. PICK c \in WireCores : c = wireCore
    BY DEF WireInv, WireTyped
<1>2. wireCore' = Settle(c) /\ UNCHANGED <<sensor, sent>> /\ c.st \in {"idle", "done"}
    BY <1>1 DEF Rest
<1>3. /\ wireCore' \in WireCores /\ wireCore'.pre = c.start
      /\ wireCore'.start = c.start /\ wireCore'.read = c.read /\ wireCore'.a = c.a
      /\ wireCore'.num = c.num /\ wireCore'.st = c.st
      /\ wireCore'.wr = c.wr /\ wireCore'.n = c.n /\ wireCore'.left = c.left
      /\ wireCore'.cur = c.cur /\ wireCore'.bit0 = c.bit0
      /\ wireCore'.tx = c.tx /\ (~c.bit0 => wireCore'.rx = c.rx)
    BY <1>2, Settled
<1>4. WireTyped'
    BY <1>2, <1>3, TickFrame DEF WireInv, WireTyped
<1>5. ClientWaits' /\ WireSettings' /\ SentTrue'
    BY <1>1, <1>2, <1>3, TickFrame, SensorKept
<1>6. WireHandshake'
    BY <1>1, <1>2, <1>3, TickFrame DEF WireInv, WireHandshake
<1>7. WireFinished' <=> WireFinished
    BY <1>1, <1>2, <1>3, TickFrame DEF WireFinished
<1>8. WireGiven' <=> WireGiven
    BY <1>1, <1>2, <1>3, TickFrame DEF WireGiven
<1>9. WireCommand'
    BY <1>1, <1>2, <1>3, <1>7, <1>8, TickFrame DEF WireInv, WireCommand
<1>10. WireAnswered'
    BY <1>1, <1>2, <1>3, TickFrame DEF WireInv, WireAnswered, WireClean
<1> QED
    BY <1>4, <1>5, <1>6, <1>9, <1>10 DEF WireInv

LEMMA AddressInv == ASSUME WireInv, WireTick, ~StartEdge, Address PROVE WireInv'
<1>1. PICK c \in WireCores : c = wireCore
    BY DEF WireInv, WireTyped
<1>2. PICK s \in WireCores :
        /\ s = Settle(c) /\ s.pre = c.start /\ s.start = c.start /\ s.read = c.read /\ s.a = c.a
        /\ s.num = c.num /\ s.wr = c.wr /\ s.n = c.n /\ s.tx = c.tx /\ (~c.bit0 => s.rx = c.rx)
    BY Settled
<1>3. /\ wireCore' = [s EXCEPT !.st = "addr", !.bit0 = FALSE, !.cur = c.a]
      /\ UNCHANGED <<sensor, sent>> /\ c.st = "start" /\ c.a \in Int
    BY <1>1, <1>2 DEF Address, WireCores
<1>4. /\ wireCore' \in WireCores /\ wireCore'.pre = c.start /\ wireCore'.st = "addr"
      /\ wireCore'.start = c.start /\ wireCore'.read = c.read /\ wireCore'.a = c.a
      /\ wireCore'.num = c.num /\ wireCore'.wr = c.wr /\ wireCore'.n = c.n
      /\ wireCore'.cur = c.a /\ wireCore'.bit0 = FALSE
      /\ wireCore'.tx = c.tx /\ (~c.bit0 => wireCore'.rx = c.rx)
    BY <1>2, <1>3 DEF WireCores, WireStages
<1>5. WireRunning /\ wireDrv.at \in {"sleep", "poll"} /\ client.at # "menu"
    BY <1>1, <1>3, TickFrame
<1>6. WireTyped'
    BY <1>3, <1>4, TickFrame DEF WireInv, WireTyped
<1>7. ClientWaits' /\ WireSettings' /\ SentTrue'
    BY <1>3, <1>4, TickFrame, SensorKept
<1>8. WireHandshake'
    BY <1>1, <1>4, <1>5, TickFrame DEF WireInv, WireHandshake
<1>9. WireGiven /\ c.wr = ~wireDrv.op.read /\ c.read = wireDrv.op.read /\ c.n = wireDrv.op.n
    BY <1>1, <1>3, <1>5 DEF WireInv, WireCommand
<1>10. WireGiven'
    BY <1>1, <1>3, <1>4, <1>9, TickFrame DEF WireGiven
<1>11. wireCore'.cur = wireDrv.op.a
    BY <1>1, <1>4, <1>9 DEF WireGiven
<1>12. WireCommand'
    BY <1>4, <1>5, <1>9, <1>10, <1>11, TickFrame DEF WireCommand
<1>13. WireAnswered'
    BY <1>1, <1>3, <1>4, TickFrame DEF WireInv, WireAnswered, WireClean
<1> QED
    BY <1>6, <1>7, <1>8, <1>12, <1>13 DEF WireInv

LEMMA AddressSentInv == ASSUME WireInv, WireTick, ~StartEdge, AddressSent PROVE WireInv'
<1>1. PICK c \in WireCores : c = wireCore
    BY DEF WireInv, WireTyped
<1>2. PICK s \in WireCores :
        /\ s = Settle(c) /\ s.pre = c.start /\ s.start = c.start /\ s.read = c.read
        /\ s.wr = c.wr /\ s.n = c.n /\ s.cur = c.cur /\ s.bit0 = c.bit0
        /\ s.tx = c.tx /\ (~c.bit0 => s.rx = c.rx)
    BY Settled
<1>3. WireRunning /\ wireDrv.at \in {"sleep", "poll"} /\ client.at # "menu" /\ c.st = "addr"
    BY <1>1, TickFrame DEF AddressSent
<1>4. PICK op : op = wireDrv.op
    OBVIOUS
<1>5. /\ WireGiven /\ c.wr = ~op.read /\ c.read = op.read /\ c.n = op.n /\ c.cur = op.a
    BY <1>1, <1>3, <1>4 DEF WireInv, WireCommand
<1>6. /\ op.read \in BOOLEAN /\ op.n \in 1..64 /\ op.n \in Int /\ op.a \in Int
  <2>1. /\ op \in WireOps /\ (op.read => op.n \in 1..DataLen) /\ (~op.read => op.n = 1)
      BY <1>3, <1>4, WireOpsMade DEF WireInv
  <2>2. op.read \in BOOLEAN /\ op.a \in Int
      BY <2>1 DEF WireOps
  <2>3. DataLen <= 64 /\ DataLen \in Nat
      BY WireConstants
  <2>4. op.n \in 1..64
    <3>1. CASE op.read
        BY <2>1, <2>3, <3>1
    <3>2. CASE ~op.read
        BY <2>1, <3>2
    <3> QED
        BY <3>1, <3>2
  <2> QED
      BY <2>2, <2>4
<1>7. PICK l \in Int : l = op.n - 1 /\ l = (c.n + 63) % 64 /\ l >= 0
    BY <1>5, <1>6
<1>8. wireCore' = [s EXCEPT !.st = "data", !.left = l] /\ UNCHANGED <<sensor, sent>>
    BY <1>1, <1>2, <1>7 DEF AddressSent
<1>9. /\ wireCore' \in WireCores /\ wireCore'.pre = c.start /\ wireCore'.st = "data"
      /\ wireCore'.start = c.start /\ wireCore'.read = c.read
      /\ wireCore'.wr = c.wr /\ wireCore'.n = c.n /\ wireCore'.left = l
      /\ wireCore'.cur = c.cur /\ wireCore'.bit0 = c.bit0
      /\ wireCore'.tx = c.tx /\ (~c.bit0 => wireCore'.rx = c.rx)
    BY <1>2, <1>8 DEF WireCores, WireStages
<1>10. c.tx = op.data /\ sent = <<>> /\ Len(sent) = 0
    BY <1>1, <1>4, <1>5 DEF WireGiven
<1>11. ~c.bit0
    BY <1>1, <1>3 DEF WireInv, WireHandshake
<1>12. WireTyped'
    BY <1>8, <1>9, TickFrame DEF WireInv, WireTyped
<1>13. ClientWaits'
    BY TickFrame DEF WireInv, ClientWaits, WireAsked
<1>14. WireSettings'
    BY <1>8, TickFrame DEF WireInv, WireSettings, Sampled, Uniform
<1>15. WireHandshake'
    BY <1>1, <1>3, <1>9, <1>11, TickFrame DEF WireInv, WireHandshake
<1>16. WireCommand'
  <2>1. wireCore'.cur = op.a + Len(sent) /\ wireCore'.left = op.n - 1 - Len(sent) /\ Len(sent) < op.n
    <3>1. PICK k \in Int : k = Len(sent) /\ k = 0
        BY <1>10
    <3>2. op.a + k = op.a /\ op.n - 1 - k = op.n - 1 /\ k < op.n
        BY <1>6, <3>1
    <3> QED
        BY <1>5, <1>7, <1>9, <3>1, <3>2
  <2> QED
      BY <1>3, <1>4, <1>5, <1>8, <1>9, <1>10, <2>1, TickFrame DEF WireCommand
<1>17. WireAnswered'
    BY <1>1, <1>8, <1>9, TickFrame DEF WireInv, WireAnswered, WireClean
<1>18. SentTrue'
    BY <1>3, <1>8, <1>10, TickFrame DEF WireInv, SentTrue, AllSent, Sampled, Uniform
<1> QED
    BY <1>12, <1>13, <1>14, <1>15, <1>16, <1>17, <1>18 DEF WireInv

LEMMA EndInv == ASSUME WireInv, WireTick, ~StartEdge, End PROVE WireInv'
<1>1. PICK c \in WireCores : c = wireCore
    BY DEF WireInv, WireTyped
<1>2. PICK s \in WireCores :
        /\ s = Settle(c) /\ s.pre = c.start /\ s.start = c.start /\ s.read = c.read
        /\ s.wr = c.wr /\ s.bit0 = c.bit0 /\ s.tx = c.tx /\ (~c.bit0 => s.rx = c.rx)
    BY Settled
<1>3. wireCore' = [s EXCEPT !.st = "done"] /\ UNCHANGED <<sensor, sent>> /\ c.st = "end"
    BY <1>1, <1>2 DEF End
<1>4. /\ wireCore' \in WireCores /\ wireCore'.pre = c.start /\ wireCore'.st = "done"
      /\ wireCore'.start = c.start /\ wireCore'.read = c.read /\ wireCore'.wr = c.wr
      /\ wireCore'.bit0 = c.bit0 /\ wireCore'.tx = c.tx /\ (~c.bit0 => wireCore'.rx = c.rx)
    BY <1>2, <1>3 DEF WireCores, WireStages
<1>5. WireRunning /\ wireDrv.at \in {"sleep", "poll"} /\ client.at # "menu" /\ ~c.bit0
    BY <1>1, <1>3, TickFrame DEF WireInv, WireHandshake
<1>6. WireTyped'
    BY <1>3, <1>4, TickFrame DEF WireInv, WireTyped
<1>7. ClientWaits' /\ WireSettings' /\ SentTrue'
    BY <1>3, <1>4, TickFrame, SensorKept
<1>8. WireHandshake'
    BY <1>1, <1>4, <1>5, TickFrame DEF WireInv, WireHandshake
<1>9. WireFinished /\ c.wr = ~wireDrv.op.read /\ c.read = wireDrv.op.read
    BY <1>1, <1>3, <1>5 DEF WireInv, WireCommand
<1>10. WireFinished'
    BY <1>1, <1>3, <1>4, <1>9, TickFrame DEF WireFinished
<1>11. WireCommand'
    BY <1>4, <1>5, <1>9, <1>10, TickFrame DEF WireCommand
<1>12. WireAnswered'
    BY <1>1, <1>3, <1>4, TickFrame DEF WireInv, WireAnswered, WireClean
<1> QED
    BY <1>6, <1>7, <1>8, <1>11, <1>12 DEF WireInv

LEMMA WriteByteInv == ASSUME WireInv, WireTick, ~StartEdge, WriteByte PROVE WireInv'
<1>1. PICK c \in WireCores : c = wireCore
    BY DEF WireInv, WireTyped
<1>2. PICK s \in WireCores :
        /\ s = Settle(c) /\ s.pre = c.start /\ s.start = c.start /\ s.read = c.read
        /\ s.wr = c.wr /\ s.left = c.left /\ s.cur = c.cur /\ s.bit0 = c.bit0
        /\ s.tx = c.tx /\ (~c.bit0 => s.rx = c.rx)
    BY Settled
<1>3. WireRunning /\ wireDrv.at \in {"sleep", "poll"} /\ client.at # "menu" /\ c.st = "data" /\ c.wr
    BY <1>1, TickFrame DEF WriteByte
<1>4. PICK op : op = wireDrv.op
    OBVIOUS
<1>5. /\ c.wr = ~op.read /\ c.read = op.read /\ c.cur = op.a + Len(sent)
      /\ c.left = op.n - 1 - Len(sent) /\ c.tx = op.data /\ (~op.read => sent = <<>>)
    BY <1>1, <1>3, <1>4 DEF WireInv, WireCommand
<1>6. ~op.read /\ sent = <<>> /\ Len(sent) = 0
    BY <1>3, <1>5
<1>7. /\ op \in WireOps /\ op.n = 1 /\ client.at = "setup"
      /\ Len(op.data) = 1 /\ op.data[1] \in {On, Off}
      /\ op.a \in {Format, Rate, IntEnable, Power} /\ op = Setup[client.step]
    BY <1>3, <1>4, <1>6, WireOpsMade DEF WireInv
<1>8. c.cur = op.a /\ c.left = 0 /\ op.a \in Int
  <2>1. PICK a \in Int : a = op.a
      BY <1>7 DEF WireOps
  <2>2. PICK z \in Int, n \in Int : z = Len(sent) /\ z = 0 /\ n = op.n /\ n = 1
      BY <1>6, <1>7
  <2>3. a + z = a /\ n - 1 - z = 0
      BY <2>2
  <2> QED
      BY <1>5, <2>1, <2>2, <2>3
<1>9. op.data \in Seq(Int) /\ op.data # <<>> /\ Head(op.data) = op.data[1] /\ Tail(op.data) = <<>>
  <2>1. op.data \in Seq(Int)
      BY <1>7 DEF WireOps
  <2>2. op.data # <<>> /\ Head(op.data) = op.data[1]
      BY <1>7, <2>1
  <2>3. Tail(op.data) \in Seq(Int) /\ Len(Tail(op.data)) = 0
      BY <1>7, <2>1, <2>2
  <2>4. \A q \in Seq(Int) : Len(q) = 0 => q = <<>>
      BY EmptySeq
  <2> QED
      BY <2>1, <2>2, <2>3, <2>4
<1>10. sensor' = [sensor EXCEPT ![op.a] = op.data[1]] /\ sent' = sent
  <2>1. op.a \in Registers
      BY <1>7, WireConstants
  <2> QED
      BY <1>1, <1>5, <1>8, <1>9, <2>1 DEF WriteByte
<1>11. wireCore' = [s EXCEPT !.st = "end", !.left = 0, !.cur = op.a + 1, !.tx = <<>>]
  <2>1. ByteDone(c) = [s EXCEPT !.st = "end", !.left = 0, !.cur = op.a + 1]
      BY <1>2, <1>8 DEF ByteDone
  <2>2. ByteDone(c).tx = op.data
      BY <1>2, <1>5, <2>1 DEF WireCores
  <2>3. wireCore' = [ByteDone(c) EXCEPT !.tx = <<>>]
      BY <1>1, <1>9, <2>2 DEF WriteByte
  <2> QED
      BY <2>1, <2>3 DEF WireCores
<1>12. /\ wireCore' \in WireCores /\ wireCore'.pre = c.start /\ wireCore'.st = "end"
       /\ wireCore'.start = c.start /\ wireCore'.read = c.read /\ wireCore'.wr = c.wr
       /\ wireCore'.bit0 = c.bit0 /\ wireCore'.tx = <<>> /\ (~c.bit0 => wireCore'.rx = c.rx)
  <2>a. PICK e \in Seq(Int) : e = <<>>
      BY EmptySeq
  <2>b. PICK a \in Int : a = op.a + 1
      BY <1>8
  <2>c. PICK st \in WireStages, l \in Int : st = "end" /\ l = 0
      BY DEF WireStages
  <2>1. e = <<>> /\ a = op.a + 1
      BY <2>a, <2>b
  <2>2. wireCore' = [s EXCEPT !.st = st, !.left = l, !.cur = a, !.tx = e]
      BY <1>11, <2>1, <2>c
  <2>3. /\ wireCore' \in WireCores /\ wireCore'.pre = c.start /\ wireCore'.st = st
        /\ wireCore'.start = c.start /\ wireCore'.read = c.read /\ wireCore'.wr = c.wr
        /\ wireCore'.bit0 = c.bit0 /\ wireCore'.tx = e /\ (~c.bit0 => wireCore'.rx = c.rx)
      BY <1>2, <2>2 DEF WireCores
  <2> QED
      BY <2>1, <2>c, <2>3
<1>13. ~c.bit0
    BY <1>1, <1>3 DEF WireInv, WireHandshake
<1>14. /\ sensor' \in [Registers -> WireValues] /\ sensor'[op.a] = op.data[1]
       /\ \A a \in Registers : a # op.a => sensor'[a] = sensor[a]
    BY <1>7, <1>10, WireConstants DEF WireInv, WireTyped
<1>15. WireTyped'
    BY <1>10, <1>12, <1>14, TickFrame DEF WireInv, WireTyped
<1>16. ClientWaits'
    BY TickFrame DEF WireInv, ClientWaits, WireAsked
<1>17. WireHandshake'
    BY <1>1, <1>3, <1>12, <1>13, TickFrame DEF WireInv, WireHandshake
<1>18. WireFinished'
    BY <1>4, <1>6, <1>10, <1>12, <1>14, TickFrame DEF WireFinished
<1>19. WireCommand'
    BY <1>3, <1>4, <1>5, <1>12, <1>18, TickFrame DEF WireCommand
<1>20. WireAnswered'
    BY <1>1, <1>10, <1>12, TickFrame DEF WireInv, WireAnswered, WireClean
<1>21. WireSettings'
  <2>1. \A v : Uniform(v)' <=> Uniform(v)
      BY <1>7, <1>14, WireConstants DEF Uniform
  <2>2. Sampled' <=> Sampled
      BY <2>1 DEF Sampled
  <2>3. sensor'[DevId] = sensor[DevId] /\ sensor'[IntSource] = sensor[IntSource]
      BY <1>7, <1>14, WireConstants
  <2>4. client.step \in 1..5
      BY <1>7 DEF WireInv, ClientWaits
  <2>5. /\ client.step > 1 => op.a # Format
        /\ client.step > 2 => op.a # Rate
        /\ client.step > 3 => op.a # IntEnable
    <3>1. /\ Setup[1].a = Format /\ Setup[2].a = Rate /\ Setup[3].a = IntEnable
          /\ Setup[4].a = Power /\ Setup[5].a = Power
        BY DEF Setup, WriteOp
    <3> QED
        BY <1>7, <2>4, <3>1, WireConstants
  <2>6. Format \in Registers /\ Rate \in Registers /\ IntEnable \in Registers
      BY WireConstants
  <2>7. /\ client.step > 1 => sensor'[Format] = On
        /\ client.step > 2 => sensor'[Rate] = On
        /\ client.step > 3 => sensor'[IntEnable] = On
      BY <1>7, <1>14, <2>5, <2>6 DEF WireInv, WireSettings
  <2>8. client' = client
      BY TickFrame
  <2> QED
      BY <1>7, <2>2, <2>3, <2>7, <2>8 DEF WireInv, WireSettings
<1>22. SentTrue'
    BY <1>7, TickFrame DEF SentTrue
<1> QED
    BY <1>15, <1>16, <1>17, <1>19, <1>20, <1>21, <1>22 DEF WireInv

LEMMA ReadByteInv == ASSUME WireInv, WireTick, ~StartEdge, ReadByte PROVE WireInv'
<1>1. PICK c \in WireCores : c = wireCore
    BY DEF WireInv, WireTyped
<1>2. PICK s \in WireCores :
        /\ s = Settle(c) /\ s.pre = c.start /\ s.start = c.start /\ s.read = c.read
        /\ s.wr = c.wr /\ s.left = c.left /\ s.cur = c.cur /\ s.bit0 = c.bit0
        /\ s.tx = c.tx /\ (~c.bit0 => s.rx = c.rx)
    BY Settled
<1>3. WireRunning /\ wireDrv.at \in {"sleep", "poll"} /\ client.at # "menu" /\ c.st = "data" /\ ~c.wr
    BY <1>1, TickFrame DEF ReadByte
<1>4. PICK op : op = wireDrv.op
    OBVIOUS
<1>5. PICK k \in Nat : k = Len(sent)
    BY DEF WireInv, WireTyped
<1>6. /\ op \in WireOps /\ op.read \in BOOLEAN
    BY <1>3, <1>4, WireOpsMade DEF WireInv, WireOps
<1>7. /\ c.wr = ~op.read /\ c.read = op.read /\ c.cur = op.a + k
      /\ c.left = op.n - 1 - k /\ k < op.n /\ c.tx = op.data
    BY <1>1, <1>3, <1>4, <1>5 DEF WireInv, WireCommand
<1>8. op.read
    BY <1>3, <1>6, <1>7
<1>9. /\ op.data = <<>> /\ op.n \in 1..DataLen /\ op.a \in {DevId, IntSource, Data}
      /\ op.a # Data => op.n = 1
      /\ client.at = "id" => op.a = DevId
      /\ client.at = "ready" => op.a = IntSource
      /\ client.at = "xyz" => op.a = Data /\ op.n = DataLen
      /\ client.at \in {"id", "ready", "xyz"}
  <2>1. client.at # "setup"
      BY <1>3, <1>4, <1>8, WireOpsMade DEF WireInv
  <2> QED
      BY <1>3, <1>4, <1>8, <2>1, WireOpsMade DEF WireInv, WireTyped, WireClients
<1>10. /\ c.cur \in Registers /\ (op.a # Data => c.cur = op.a)
       /\ (op.a = Data => c.cur \in DataRegisters) /\ c.cur \in Int
  <2>1. op.n \in 1..DataLen /\ k < op.n /\ DataLen \in Nat /\ (op.a # Data => op.n = 1)
      BY <1>7, <1>9, WireConstants
  <2>2. CASE op.a = Data
      BY <1>7, <2>1, <2>2, WireConstants
  <2>3. CASE op.a # Data
    <3>1. k = 0
        BY <2>1, <2>3
    <3>2. PICK a \in Int : a = op.a /\ a \in {DevId, IntSource}
        BY <1>9, <2>3, WireConstants
    <3>3. a + k = a
        BY <3>1, <3>2
    <3>4. c.cur = a
        BY <1>7, <3>2, <3>3
    <3>5. a \in Registers
        BY <3>2, WireConstants
    <3> QED
        BY <2>3, <3>2, <3>4, <3>5
  <2> QED
      BY <2>2, <2>3
<1>11. PICK b \in WireValues : b = sensor[c.cur] /\ b \in Int
    BY <1>10, WireConstants DEF WireInv, WireTyped
<1>12. sensor[Format] = On
    BY <1>9 DEF WireInv, WireSettings
<1>13. sent' = Append(sent, b)
    BY <1>1, <1>10, <1>11, <1>12 DEF ReadByte
<1>14. sent' \in Seq(WireValues) /\ Len(sent') = k + 1
       /\ \A i \in 1..(k + 1) : sent'[i] = IF i = k + 1 THEN b ELSE sent[i]
    BY <1>5, <1>11, <1>13 DEF WireInv, WireTyped
<1>15. PICK l \in Int : l = IF c.left = 0 THEN c.left ELSE c.left - 1
    BY DEF WireCores
<1>16. PICK st \in WireStages : st = IF c.left = 0 THEN "end" ELSE "data"
    BY DEF WireStages
<1>17. c.rx = sent /\ ~c.bit0
    BY <1>1, <1>3, <1>9 DEF WireInv, WireAnswered, WireClean
<1>18. wireCore' = [s EXCEPT !.st = st, !.left = l, !.cur = c.cur + 1, !.rx = sent']
  <2>1. ByteDone(c) = [s EXCEPT !.st = st, !.left = l, !.cur = c.cur + 1]
      BY <1>2, <1>15, <1>16 DEF ByteDone
  <2>2. ByteDone(c).rx = sent
      BY <1>2, <1>17, <2>1 DEF WireCores
  <2>3. k < DataLen /\ DataLen <= Depth
      BY <1>7, <1>9, WireConstants
  <2>4. Len(sent) < Depth
      BY <1>5, <2>3, WireConstants
  <2>5. Push(sent, b) = sent'
      BY <1>13, <2>4 DEF Push
  <2>6. wireCore' = [ByteDone(c) EXCEPT !.rx = sent']
      BY <1>1, <1>10, <1>11, <1>12, <2>2, <2>5 DEF ReadByte
  <2> QED
      BY <2>1, <2>6 DEF WireCores
<1>19. sent' \in Seq(Int)
    BY <1>14, WireConstants
<1>20. /\ wireCore' \in WireCores /\ wireCore'.pre = c.start /\ wireCore'.st = st
       /\ wireCore'.start = c.start /\ wireCore'.read = c.read /\ wireCore'.wr = c.wr
       /\ wireCore'.left = l /\ wireCore'.cur = c.cur + 1
       /\ wireCore'.bit0 = c.bit0 /\ wireCore'.tx = c.tx /\ wireCore'.rx = sent'
  <2>1. c.cur + 1 \in Int
      BY <1>10
  <2> QED
      BY <1>2, <1>18, <1>19, <2>1 DEF WireCores
<1>21. PICK off \in WireValues : off = Off
    BY WireConstants
<1>22. sensor' = IF c.cur \in DataRegisters THEN [sensor EXCEPT ![IntSource] = off] ELSE sensor
    BY <1>1, <1>21 DEF ReadByte
<1>23. /\ sensor' \in [Registers -> WireValues]
       /\ \A a \in Registers : a # IntSource => sensor'[a] = sensor[a]
       /\ sensor'[IntSource] = On => sensor[IntSource] = On
    BY <1>21, <1>22, WireConstants DEF WireInv, WireTyped
<1>24. \A v : Uniform(v)' <=> Uniform(v)
    BY <1>23, WireConstants DEF Uniform
<1>25. Sampled' <=> Sampled
    BY <1>24 DEF Sampled
<1>26. WireTyped'
    BY <1>14, <1>20, <1>23, TickFrame DEF WireInv, WireTyped
<1>27. ClientWaits'
    BY TickFrame DEF WireInv, ClientWaits, WireAsked
<1>28. WireHandshake'
    BY <1>1, <1>3, <1>16, <1>17, <1>20, TickFrame DEF WireInv, WireHandshake
<1>29. WireCommand'
  <2>1. CASE c.left = 0
    <3>1. st = "end" /\ Len(sent') = op.n
        BY <1>7, <1>9, <1>14, <1>16, <2>1
    <3>2. WireFinished'
        BY <1>4, <1>7, <1>8, <1>9, <1>20, <3>1, TickFrame DEF WireFinished
    <3> QED
        BY <1>3, <1>4, <1>7, <1>20, <3>1, <3>2, TickFrame DEF WireCommand
  <2>2. CASE c.left # 0
    <3>1. st = "data" /\ l = c.left - 1
        BY <1>15, <1>16, <2>2
    <3>2. PICK n \in Int, a \in Int : n = op.n /\ a = op.a
        BY <1>9, WireConstants
    <3>3. c.cur + 1 = a + (k + 1) /\ l = n - 1 - (k + 1) /\ k + 1 < n
        BY <1>7, <2>2, <3>1, <3>2
    <3> QED
        BY <1>3, <1>4, <1>7, <1>8, <1>14, <1>20, <3>1, <3>2, <3>3, TickFrame DEF WireCommand
  <2> QED
      BY <2>1, <2>2
<1>30. WireAnswered'
    BY <1>3, <1>17, <1>20, TickFrame DEF WireAnswered, WireClean
<1>31. WireSettings'
  <2>1. \A a \in {DevId, Format, Rate, IntEnable, Power} : sensor'[a] = sensor[a]
      BY <1>23, WireConstants
  <2> QED
      BY <1>9, <1>23, <1>25, <2>1, TickFrame DEF WireInv, WireSettings
<1>32. SentTrue'
  <2>1. CASE client.at = "id"
    <3>1. b = Id /\ AllSent(Id)
        BY <1>3, <1>9, <1>10, <1>11, <2>1, WireConstants DEF WireInv, WireSettings, SentTrue
    <3>2. AllSent(Id)'
        BY <1>5, <1>14, <3>1 DEF AllSent
    <3> QED
        BY <2>1, <3>2, TickFrame DEF SentTrue
  <2>2. CASE client.at = "ready"
    <3>1. \A i \in 1..k : sent[i] = On => Sampled
        BY <1>3, <1>5, <2>2 DEF WireInv, SentTrue
    <3>2. b = sensor[IntSource]
        BY <1>9, <1>10, <1>11, <2>2, WireConstants
    <3>s. b = On => Sampled
        BY <3>2 DEF WireInv, WireSettings
    <3>3. \A i \in 1..Len(sent') : sent'[i] = On => Sampled'
        BY <1>5, <1>14, <1>25, <3>1, <3>s
    <3> QED
        BY <2>2, <3>3, TickFrame DEF SentTrue
  <2>3. CASE client.at = "xyz"
    <3>1. PICK v \in Samples : AllSent(v) /\ Uniform(v)
        BY <1>1, <1>3, <2>3 DEF WireInv, SentTrue
    <3>2. b = v
        BY <1>9, <1>10, <1>11, <2>3, <3>1 DEF Uniform
    <3>3. AllSent(v)' /\ Uniform(v)' /\ Sampled'
        BY <1>5, <1>14, <1>24, <3>1, <3>2 DEF AllSent, Sampled
    <3> QED
        BY <2>3, <3>3, TickFrame DEF SentTrue
  <2> QED
      BY <1>9, <2>1, <2>2, <2>3
<1> QED
    BY <1>26, <1>27, <1>28, <1>29, <1>30, <1>31, <1>32 DEF WireInv

LEMMA WireTickInv == ASSUME WireInv, WireTick PROVE WireInv'
<1>1. Begin \/ (~StartEdge /\ (Rest \/ Address \/ AddressSent \/ WriteByte \/ ReadByte \/ End))
    BY DEF WireTick
<1> QED
    BY <1>1, BeginInv, RestInv, AddressInv, AddressSentInv, WriteByteInv, ReadByteInv, EndInv

(* A new sample, between the answers.                                       *)
LEMMA SampleInv == ASSUME WireInv, Sample PROVE WireInv'
<1>1. /\ sensor[Power] = On /\ wireCore.st \notin {"addr", "data"}
      /\ UNCHANGED <<wireCore, wireDrv, client, sent, wirePatient>>
    BY DEF Sample
<1>2. PICK v \in Samples :
        sensor' = [a \in Registers |-> IF a \in DataRegisters THEN v
                                       ELSE IF a = IntSource /\ sensor[IntEnable] = On THEN On
                                       ELSE sensor[a]]
    BY DEF Sample
<1>3. /\ sensor' \in [Registers -> WireValues] /\ \A a \in DataRegisters : sensor'[a] = v
      /\ \A a \in {DevId, Rate, Power, IntEnable, Format} : sensor'[a] = sensor[a]
    BY <1>2, WireConstants DEF WireInv, WireTyped
<1>4. Uniform(v)' /\ Sampled'
    BY <1>2, <1>3 DEF Uniform, Sampled
<1>5. WireTyped' /\ ClientWaits' /\ WireHandshake' /\ WireAnswered'
    BY <1>1, <1>3 DEF WireInv, WireTyped, ClientWaits, WireAsked, WireHandshake, WireRunning,
                      WireWaiting, WireAnswered, WireClean
<1>6. WireSettings'
    BY <1>1, <1>3, <1>4 DEF WireInv, WireSettings
<1>7. SentTrue'
  <2>1. client.at = "xyz" /\ wireDrv.at # "call" => \E w \in Samples : AllSent(w)
      BY DEF WireInv, SentTrue
  <2> QED
      BY <1>1, <1>4, <2>1 DEF WireInv, SentTrue, AllSent
<1>8. WireGiven' <=> WireGiven
    BY <1>1 DEF WireGiven
<1>9. WireWaiting' <=> WireWaiting /\ (WireRunning' <=> WireRunning)
    BY <1>1 DEF WireWaiting, WireRunning
<1>10. client.at # "menu" /\ WireFinished => WireFinished'
  <2>1. PICK op : op = wireDrv.op
      OBVIOUS
  <2>2. client.at # "menu" /\ ~op.read => sensor'[op.a] = sensor[op.a]
      BY <1>3, <2>1, WireOpsMade DEF WireInv
  <2> QED
      BY <1>1, <2>1, <2>2 DEF WireFinished
<1>11. WireCommand'
  <2>1. WireRunning \/ wireDrv.at \in {"drain", "back"} => client.at # "menu"
      BY DEF WireInv, ClientWaits, WireRunning
  <2>2. WireWaiting' = WireWaiting /\ WireRunning' = WireRunning
      BY <1>1 DEF WireWaiting, WireRunning
  <2> QED
      BY <1>1, <1>8, <1>10, <2>1, <2>2 DEF WireInv, WireCommand
<1> QED
    BY <1>5, <1>6, <1>7, <1>11 DEF WireInv
-----------------------------------------------------------------------------
(* The driver's steps.                                                       *)
LEMMA StopInv == ASSUME WireInv, WireStop PROVE WireInv'
<1>1. PICK c \in WireCores, d \in WireDrivers : c = wireCore /\ d = wireDrv
    BY DEF WireInv, WireTyped
<1>2. PICK rd \in BOOLEAN : rd = d.op.read
    BY DEF WireDrivers, WireOps
<1>3. PICK e \in Seq(Int) : e = <<>>
    BY EmptySeq
<1>4. PICK no \in BOOLEAN, at \in WireStates : no = FALSE /\ at = "fill"
    BY DEF WireStates
<1>5. /\ wireCore' = [c EXCEPT !.start = no, !.read = rd]
      /\ wireDrv' = [d EXCEPT !.at = at, !.ok = no, !.got = e]
      /\ sent' = e /\ UNCHANGED <<sensor, client>> /\ d.at = "call"
    BY <1>1, <1>2, <1>3, <1>4 DEF WireStop
<1>6. /\ wireCore' \in WireCores /\ wireCore'.start = no /\ wireCore'.read = rd /\ wireCore'.st = c.st
      /\ wireCore'.tx = c.tx /\ wireCore'.rx = c.rx /\ wireCore'.bit0 = c.bit0
      /\ wireDrv' \in WireDrivers /\ wireDrv'.at = at /\ wireDrv'.op = d.op
    BY <1>5 DEF WireCores, WireDrivers
<1>7. WireTyped'
  <2>1. sent' \in Seq(WireValues)
      BY <1>3, <1>5, EmptySeq
  <2> QED
      BY <1>5, <1>6, <2>1 DEF WireInv, WireTyped
<1>8. ClientWaits'
    BY <1>1, <1>4, <1>5, <1>6 DEF WireInv, ClientWaits, WireAsked
<1>9. WireHandshake'
    BY <1>1, <1>4, <1>5, <1>6 DEF WireInv, WireHandshake, WireRunning, WireWaiting
<1>10. WireCommand'
    BY <1>1, <1>2, <1>3, <1>4, <1>5, <1>6 DEF WireInv, WireCommand, WireRunning, WireWaiting
<1>11. WireAnswered'
    BY <1>1, <1>3, <1>4, <1>5, <1>6 DEF WireInv, WireAnswered, WireClean
<1>12. WireSettings'
    BY <1>5 DEF WireInv, WireSettings, Sampled, Uniform
<1>13. SentTrue'
  <2>1. Len(sent') = 0
      BY <1>3, <1>5
  <2>2. wireCore'.st # "data"
      BY <1>1, <1>5, <1>6 DEF WireInv, WireHandshake, WireRunning, WireWaiting
  <2>3. \A v : AllSent(v)'
      BY <2>1 DEF AllSent
  <2>4. client.at = "xyz" => Sampled'
      BY <1>5 DEF WireInv, SentTrue, Sampled, Uniform
  <2>5. 1 \in Samples
      BY WireConstants
  <2> QED
      BY <1>5, <2>1, <2>2, <2>3, <2>4, <2>5 DEF SentTrue
<1> QED
    BY <1>7, <1>8, <1>9, <1>10, <1>11, <1>12, <1>13 DEF WireInv

LEMMA FillInv == ASSUME WireInv, Fill PROVE WireInv'
<1>1. PICK c \in WireCores, d \in WireDrivers : c = wireCore /\ d = wireDrv
    BY DEF WireInv, WireTyped
<1>2. d.at = "fill" /\ client.at # "menu" /\ c.tx = <<>> /\ sent = <<>> /\ c.read = d.op.read
    BY <1>1 DEF WireInv, ClientWaits, WireCommand, Fill
<1>3. PICK op \in WireOps :
        /\ op = d.op
        /\ op.read => op.data = <<>> /\ op.n \in Int
        /\ ~op.read => Len(op.data) = 1
    BY <1>1, <1>2, WireOpsMade, WireConstants DEF WireInv
<1>4. PICK at \in WireStates : at = "go"
    BY DEF WireStates
<1>5. /\ wireDrv' = [d EXCEPT !.at = at] /\ wireCore' = Loaded(c, op)
      /\ UNCHANGED <<sensor, client, sent>>
    BY <1>1, <1>3, <1>4 DEF Fill
<1>6. wireDrv' \in WireDrivers /\ wireDrv'.at = at /\ wireDrv'.op = op
    BY <1>3, <1>5 DEF WireDrivers
<1>7. /\ wireCore' \in WireCores /\ wireCore'.a = op.a /\ wireCore'.tx = op.data
      /\ (op.read => wireCore'.num = op.n - 1)
      /\ wireCore'.start = c.start /\ wireCore'.read = c.read /\ wireCore'.st = c.st
      /\ wireCore'.rx = c.rx /\ wireCore'.bit0 = c.bit0
  <2>0. op.a \in Int /\ op.data \in Seq(Int) /\ op.read \in BOOLEAN
      BY DEF WireOps
  <2>1. CASE op.read
    <3>1. PICK m \in Int : m = op.n - 1
        BY <1>3, <2>1
    <3>2. wireCore' = [c EXCEPT !.a = op.a, !.num = m]
        BY <1>5, <2>1, <3>1 DEF Loaded
    <3> QED
        BY <1>2, <1>3, <2>0, <2>1, <3>1, <3>2 DEF WireCores
  <2>2. CASE ~op.read
    <3>1. Depth \in Nat /\ Depth >= 1 /\ Len(op.data) = 1
        BY <1>3, <2>2, WireConstants
    <3>2. c.tx \o op.data = op.data
        BY <1>2, <2>0
    <3>3. SubSeq(op.data, 1, 1) = op.data
        BY <2>0, <3>1
    <3>4. PushAll(c.tx, op.data) = op.data
        BY <3>1, <3>2, <3>3 DEF PushAll
    <3>5. wireCore' = [c EXCEPT !.a = op.a, !.tx = op.data]
        BY <1>5, <2>2, <3>4 DEF Loaded, WireCores
    <3> QED
        BY <1>2, <2>0, <2>2, <3>5 DEF WireCores
  <2> QED
      BY <2>0, <2>1, <2>2
<1>8. WireTyped'
    BY <1>5, <1>6, <1>7 DEF WireInv, WireTyped
<1>9. ClientWaits' /\ WireSettings' /\ SentTrue'
  <2>1. wireDrv'.op = wireDrv.op /\ wireDrv.at # "call" /\ wireDrv.at # "idle" /\ wireDrv'.at # "idle"
      BY <1>1, <1>2, <1>3, <1>4, <1>6
  <2> QED
      BY <1>1, <1>5, <1>7, <2>1, SensorKept
<1>10. WireHandshake'
    BY <1>1, <1>2, <1>4, <1>6, <1>7 DEF WireInv, WireHandshake, WireRunning, WireWaiting
<1>11. WireGiven'
    BY <1>2, <1>5, <1>6, <1>7 DEF WireGiven
<1>12. WireCommand'
    BY <1>2, <1>3, <1>4, <1>6, <1>7, <1>11 DEF WireCommand, WireRunning, WireWaiting
<1>13. WireAnswered'
    BY <1>1, <1>2, <1>4, <1>5, <1>6, <1>7 DEF WireInv, WireAnswered, WireClean
<1> QED
    BY <1>8, <1>9, <1>10, <1>12, <1>13 DEF WireInv

LEMMA GoInv == ASSUME WireInv, Go PROVE WireInv'
<1>1. PICK c \in WireCores, d \in WireDrivers : c = wireCore /\ d = wireDrv
    BY DEF WireInv, WireTyped
<1>2. PICK at \in WireStates, yes \in BOOLEAN, z \in Nat : at = "sleep" /\ yes = TRUE /\ z = 0
    BY DEF WireStates
<1>3. /\ wireCore' = [c EXCEPT !.start = yes] /\ wireDrv' = [d EXCEPT !.at = at, !.ticks = z]
      /\ UNCHANGED <<sensor, client, sent>> /\ d.at = "go" /\ ~c.pre
    BY <1>1, <1>2 DEF Go
<1>4. /\ wireCore' \in WireCores /\ wireCore'.start = yes /\ wireCore'.read = c.read
      /\ wireCore'.st = c.st
      /\ wireCore'.a = c.a /\ wireCore'.num = c.num /\ wireCore'.pre = c.pre
      /\ wireCore'.tx = c.tx /\ wireCore'.rx = c.rx /\ wireCore'.bit0 = c.bit0
      /\ wireDrv' \in WireDrivers /\ wireDrv'.at = at /\ wireDrv'.op = d.op /\ wireDrv'.ticks = z
    BY <1>3 DEF WireCores, WireDrivers
<1>5. WireTyped'
    BY <1>3, <1>4 DEF WireInv, WireTyped
<1>6. ClientWaits' /\ WireSettings' /\ SentTrue'
    BY <1>1, <1>2, <1>3, <1>4, SensorKept
<1>7. WireWaiting' /\ ~WireRunning' /\ ~WireRunning
    BY <1>1, <1>2, <1>3, <1>4 DEF WireWaiting, WireRunning
<1>8. WireHandshake'
    BY <1>1, <1>2, <1>3, <1>4, <1>7 DEF WireInv, WireHandshake
<1>9. WireGiven /\ c.read = d.op.read
    BY <1>1, <1>3 DEF WireInv, WireCommand
<1>10. WireGiven'
    BY <1>1, <1>3, <1>4, <1>9 DEF WireGiven
<1>11. WireCommand'
    BY <1>2, <1>4, <1>7, <1>9, <1>10 DEF WireCommand
<1>12. WireAnswered'
    BY <1>1, <1>2, <1>3, <1>4 DEF WireInv, WireAnswered, WireClean
<1> QED
    BY <1>5, <1>6, <1>8, <1>11, <1>12 DEF WireInv

LEMMA WakeInv == ASSUME WireInv, WireWake PROVE WireInv'
<1>1. PICK d \in WireDrivers : d = wireDrv
    BY DEF WireInv, WireTyped
<1>2. PICK at \in WireStates : at = "poll"
    BY DEF WireStates
<1>3. /\ wireDrv' = [d EXCEPT !.at = at] /\ UNCHANGED <<wireCore, sensor, client, sent>>
      /\ d.at = "sleep" /\ d.ticks >= WireSleepTicks
    BY <1>1, <1>2 DEF WireWake, WireSlept
<1>4. wireDrv' \in WireDrivers /\ wireDrv'.at = at /\ wireDrv'.op = d.op
    BY <1>3 DEF WireDrivers
<1>5. d.ticks # 0
    BY <1>3, WireConstants
<1>6. ~WireWaiting /\ ~WireWaiting' /\ WireRunning /\ WireRunning'
    BY <1>1, <1>2, <1>3, <1>4, <1>5 DEF WireWaiting, WireRunning
<1>7. WireTyped'
    BY <1>3, <1>4 DEF WireInv, WireTyped
<1>8. ClientWaits' /\ WireSettings' /\ SentTrue'
    BY <1>1, <1>2, <1>3, <1>4, SensorKept
<1>9. WireHandshake'
    BY <1>1, <1>2, <1>3, <1>4, <1>6 DEF WireInv, WireHandshake
<1>10. (WireGiven' <=> WireGiven) /\ (WireFinished' <=> WireFinished)
    BY <1>1, <1>3, <1>4 DEF WireGiven, WireFinished
<1>11. WireCommand'
    BY <1>1, <1>2, <1>3, <1>4, <1>6, <1>10 DEF WireInv, WireCommand
<1>12. WireAnswered'
    BY <1>1, <1>2, <1>3, <1>4 DEF WireInv, WireAnswered, WireClean
<1> QED
    BY <1>7, <1>8, <1>9, <1>11, <1>12 DEF WireInv

(* The polls outlast the command, so the one that ends them finds it done.  *)
LEMMA WirePollInv == ASSUME WireInv, wirePatient, WirePoll PROVE WireInv'
<1>1. PICK d \in WireDrivers : d = wireDrv
    BY DEF WireInv, WireTyped
<1>2. PICK at \in WireStates, yes \in BOOLEAN : at = "halt" /\ yes = TRUE
    BY DEF WireStates
<1>3. /\ wireDrv' = [d EXCEPT !.at = at, !.ok = yes] /\ UNCHANGED <<wireCore, sensor, client, sent>>
      /\ d.at = "poll" /\ wireCore.st = "done"
  <2>1. wireCore.st = "done" /\ d.at = "poll" /\ UNCHANGED <<wireCore, sensor, client, sent>>
      BY <1>1 DEF WirePoll
  <2>2. wireDrv' = [d EXCEPT !.at = "halt", !.ok = wireCore.st = "done"]
      BY <1>1 DEF WirePoll
  <2>3. (wireCore.st = "done") = TRUE
      BY <2>1
  <2> QED
      BY <1>2, <2>1, <2>2, <2>3
<1>4. wireDrv' \in WireDrivers /\ wireDrv'.at = at /\ wireDrv'.op = d.op /\ wireDrv'.ok
    BY <1>2, <1>3 DEF WireDrivers
<1>5. ~WireWaiting /\ ~WireWaiting' /\ WireRunning /\ WireRunning'
    BY <1>1, <1>2, <1>3, <1>4 DEF WireWaiting, WireRunning
<1>6. WireTyped'
    BY <1>3, <1>4 DEF WireInv, WireTyped
<1>7. ClientWaits' /\ WireSettings' /\ SentTrue'
    BY <1>1, <1>2, <1>3, <1>4, SensorKept
<1>8. WireHandshake'
    BY <1>1, <1>2, <1>3, <1>4, <1>5 DEF WireInv, WireHandshake
<1>9. (WireGiven' <=> WireGiven) /\ (WireFinished' <=> WireFinished)
    BY <1>1, <1>3, <1>4 DEF WireGiven, WireFinished
<1>10. WireCommand'
    BY <1>1, <1>2, <1>3, <1>4, <1>5, <1>9 DEF WireInv, WireCommand
<1>11. WireAnswered'
    BY <1>1, <1>2, <1>3, <1>4 DEF WireInv, WireAnswered, WireClean
<1> QED
    BY <1>6, <1>7, <1>8, <1>10, <1>11 DEF WireInv

LEMMA HaltInv == ASSUME WireInv, Halt PROVE WireInv'
<1>1. PICK c \in WireCores, d \in WireDrivers : c = wireCore /\ d = wireDrv
    BY DEF WireInv, WireTyped
<1>2. d.at = "halt" /\ d.ok /\ c.st = "done" /\ ~WireWaiting /\ WireRunning /\ client.at # "menu"
    BY <1>1 DEF WireInv, WireHandshake, Halt, WireWaiting, WireRunning, ClientWaits
<1>3. PICK at \in WireStates : at = IF d.op.read THEN "drain" ELSE "back"
    BY DEF WireStates
<1>4. PICK no \in BOOLEAN : no = FALSE
    OBVIOUS
<1>5. /\ wireCore' = [c EXCEPT !.start = no, !.read = no] /\ wireDrv' = [d EXCEPT !.at = at]
      /\ UNCHANGED <<sensor, client, sent>>
    BY <1>1, <1>2, <1>3, <1>4 DEF Halt
<1>6. /\ wireCore' \in WireCores /\ wireCore'.start = no /\ wireCore'.st = c.st
      /\ wireCore'.tx = c.tx /\ wireCore'.rx = c.rx /\ wireCore'.bit0 = c.bit0
      /\ wireDrv' \in WireDrivers /\ wireDrv'.at = at /\ wireDrv'.op = d.op /\ wireDrv'.ok = d.ok
      /\ wireDrv'.got = d.got
    BY <1>5 DEF WireCores, WireDrivers
<1>7. at \in {"drain", "back"} /\ ~WireWaiting' /\ ~WireRunning'
  <2>1. at \in {"drain", "back"}
      BY <1>3
  <2> QED
      BY <1>6, <2>1 DEF WireWaiting, WireRunning
<1>8. WireTyped'
    BY <1>5, <1>6 DEF WireInv, WireTyped
<1>9. ClientWaits' /\ WireSettings' /\ SentTrue'
    BY <1>1, <1>2, <1>5, <1>6, <1>7, SensorKept
<1>10. WireHandshake'
  <2>1. at = "drain" => d.op.read
      BY <1>3
  <2>2. ~c.bit0
      BY <1>1, <1>2 DEF WireInv, WireHandshake
  <2> QED
      BY <1>2, <1>4, <1>6, <1>7, <2>1, <2>2 DEF WireHandshake
<1>11. WireFinished
    BY <1>1, <1>2 DEF WireInv, WireCommand
<1>12. WireFinished'
    BY <1>1, <1>5, <1>6, <1>11 DEF WireFinished
<1>13. WireCommand'
    BY <1>6, <1>7, <1>12 DEF WireCommand
<1>14. WireAnswered'
  <2>1. at = "back" => ~d.op.read /\ sent = <<>>
      BY <1>1, <1>3, <1>11 DEF WireFinished
  <2>2. WireClean => ~c.bit0 /\ c.rx = sent
      BY <1>1, <1>2 DEF WireInv, WireAnswered
  <2>3. WireClean' <=> WireClean
      BY <1>5 DEF WireClean
  <2> QED
      BY <1>5, <1>6, <1>7, <2>1, <2>2, <2>3 DEF WireAnswered
<1> QED
    BY <1>8, <1>9, <1>10, <1>13, <1>14 DEF WireInv

LEMMA DrainInv == ASSUME WireInv, Drain PROVE WireInv'
<1>1. PICK c \in WireCores, d \in WireDrivers : c = wireCore /\ d = wireDrv
    BY DEF WireInv, WireTyped
<1>2. /\ d.at = "drain" /\ d.op.read /\ d.ok /\ client.at # "menu" /\ ~WireWaiting /\ ~WireRunning
      /\ ~c.start /\ c.st = "done" /\ WireFinished
    BY <1>1 DEF WireInv, WireHandshake, Drain, WireWaiting, WireRunning, ClientWaits, WireCommand
<1>3. PICK n : n = d.op.n
    OBVIOUS
<1>4. n = Len(sent) /\ n \in Nat /\ sent \in Seq(WireValues) /\ sent \in Seq(Int)
  <2>1. n = Len(sent) /\ sent \in Seq(WireValues)
      BY <1>1, <1>2, <1>3 DEF WireFinished, WireInv, WireTyped
  <2>2. n \in Nat
      BY <2>1
  <2>3. \A i \in 1..Len(sent) : sent[i] \in Int
      BY <2>1, WireConstants
  <2> QED
      BY <2>1, <2>2, <2>3
<1>5. client.at # "setup"
    BY <1>1, <1>2, WireOpsMade DEF WireInv
<1>6. WireClean /\ c.rx = sent /\ ~c.bit0
    BY <1>1, <1>2, <1>5 DEF WireInv, WireAnswered, WireClean
<1>7. [i \in 1..n |-> IF i <= Len(c.rx) THEN c.rx[i] ELSE Junk] = sent
  <2>1. [i \in 1..n |-> IF i <= Len(c.rx) THEN c.rx[i] ELSE Junk] = [i \in 1..n |-> sent[i]]
      BY <1>4, <1>6
  <2>2. sent = [i \in 1..Len(sent) |-> sent[i]]
      BY <1>4
  <2> QED
      BY <1>4, <2>1, <2>2
<1>8. PICK e \in Seq(Int) : e = <<>> /\ e = SubSeq(c.rx, n + 1, Len(c.rx))
  <2>1. SubSeq(sent, n + 1, Len(sent)) \in Seq(Int) /\ Len(SubSeq(sent, n + 1, Len(sent))) = 0
      BY <1>4
  <2>2. \A q \in Seq(Int) : Len(q) = 0 => q = <<>>
      BY EmptySeq
  <2> QED
      BY <1>6, <2>1, <2>2
<1>9. PICK at \in WireStates : at = "back"
    BY DEF WireStates
<1>10. /\ wireCore' = [c EXCEPT !.rx = e] /\ wireDrv' = [d EXCEPT !.at = at, !.got = sent]
       /\ UNCHANGED <<sensor, client, sent>>
    BY <1>1, <1>3, <1>7, <1>8, <1>9 DEF Drain
<1>11. /\ wireCore' \in WireCores /\ wireCore'.start = c.start /\ wireCore'.st = c.st
       /\ wireCore'.tx = c.tx /\ wireCore'.rx = e /\ wireCore'.bit0 = c.bit0
       /\ wireDrv' \in WireDrivers /\ wireDrv'.at = at /\ wireDrv'.op = d.op /\ wireDrv'.ok = d.ok
       /\ wireDrv'.got = sent
    BY <1>4, <1>10 DEF WireCores, WireDrivers
<1>12. WireTyped'
    BY <1>10, <1>11 DEF WireInv, WireTyped
<1>13. ClientWaits' /\ WireSettings' /\ SentTrue'
    BY <1>1, <1>2, <1>9, <1>10, <1>11, SensorKept
<1>14. ~WireWaiting' /\ ~WireRunning'
    BY <1>9, <1>11 DEF WireWaiting, WireRunning
<1>15. WireHandshake'
    BY <1>2, <1>6, <1>9, <1>11, <1>14 DEF WireHandshake
<1>16. WireFinished'
    BY <1>1, <1>2, <1>10, <1>11 DEF WireFinished
<1>17. WireCommand'
    BY <1>9, <1>11, <1>14, <1>16 DEF WireCommand
<1>18. WireAnswered'
    BY <1>6, <1>8, <1>9, <1>10, <1>11 DEF WireAnswered, WireClean
<1> QED
    BY <1>12, <1>13, <1>15, <1>17, <1>18 DEF WireInv

LEMMA WireDriverInv == ASSUME WireInv, wirePatient, WireDriver PROVE WireInv'
BY StopInv, FillInv, GoInv, WakeInv, WirePollInv, HaltInv, DrainInv DEF WireDriver
-----------------------------------------------------------------------------
(* The client's steps.                                                       *)
LEMMA WireClearedOK ==
    ASSUME NEW c \in WireCores, NEW x, x = WireCleared(c)
    PROVE  x \in WireCores /\ ~x.start /\ x.st = c.st /\ x.bit0 = c.bit0 /\ x.tx = <<>> /\ x.rx = <<>>
<1>1. PICK e \in Seq(Int), no \in BOOLEAN : e = <<>> /\ no = FALSE
    BY EmptySeq
<1>2. x = [c EXCEPT !.start = no, !.read = no, !.tx = e, !.rx = e]
    BY <1>1 DEF WireCleared
<1>3. x \in WireCores /\ x.start = no /\ x.st = c.st /\ x.bit0 = c.bit0 /\ x.tx = e /\ x.rx = e
    BY <1>2 DEF WireCores
<1> QED
    BY <1>1, <1>3

LEMMA OpsTyped ==
    ASSUME NEW a \in Int, NEW n \in Int
    PROVE  ReadOp(a, n) \in WireOps /\ WriteOp(a, n) \in WireOps
<1>1. PICK e \in Seq(Int), y \in BOOLEAN, no \in BOOLEAN : e = <<>> /\ y = TRUE /\ no = FALSE
    BY EmptySeq
<1>2. PICK q \in Seq(Int) : q = <<n>>
  <2>1. Append(e, n) \in Seq(Int)
      OBVIOUS
  <2>2. Append(e, n) = <<n>>
      BY <1>1
  <2> QED
      BY <2>1, <2>2
<1>3. PICK k \in Int : k = 1
    OBVIOUS
<1>4. [read |-> y, a |-> a, data |-> e, n |-> n] \in WireOps
    BY DEF WireOps
<1>5. [read |-> no, a |-> a, data |-> q, n |-> k] \in WireOps
    BY DEF WireOps
<1> QED
    BY <1>1, <1>2, <1>3, <1>4, <1>5 DEF ReadOp, WriteOp

(* What every new call has in common.                                        *)
LEMMA CallInv ==
    ASSUME WireInv, wireDrv.at \in {"idle", "back"}, NEW op \in WireOps, WireCall(op),
           UNCHANGED <<sensor, sent>>, wireCore' \in WireCores, ~wireCore'.start,
           wireCore'.st = wireCore.st, wireCore'.bit0 = wireCore.bit0, wireCore'.tx = <<>>,
           client' \in WireClients, client'.at # "menu", op = WireAsked',
           client'.at = "setup" => client'.step \in 1..5,
           WireSettings', client'.at = "xyz" => Sampled,
           WireClean' => ~wireCore.bit0 /\ wireCore'.rx = <<>>
    PROVE  WireInv'
<1>1. PICK d \in WireDrivers, at \in WireStates : d = wireDrv /\ at = "call"
    BY DEF WireInv, WireTyped, WireStates
<1>2. wireDrv' = [d EXCEPT !.at = at, !.op = op]
    BY <1>1 DEF WireCall
<1>3. wireDrv' \in WireDrivers /\ wireDrv'.at = at /\ wireDrv'.op = op
    BY <1>2 DEF WireDrivers
<1>4. wireCore.st \in {"idle", "done"}
    BY DEF WireInv, WireHandshake, WireRunning
<1>5. WireTyped'
    BY <1>3 DEF WireInv, WireTyped
<1>6. ClientWaits'
    BY <1>1, <1>3 DEF ClientWaits
<1>7. ~WireRunning' /\ ~WireWaiting'
    BY <1>1, <1>3 DEF WireRunning, WireWaiting
<1>8. WireHandshake'
    BY <1>1, <1>3, <1>4, <1>7 DEF WireInv, WireHandshake
<1>9. WireCommand'
    BY <1>1, <1>3, <1>7 DEF WireCommand
<1>10. WireAnswered'
    BY <1>1, <1>3 DEF WireAnswered
<1>11. SentTrue'
    BY <1>1, <1>3 DEF SentTrue, Sampled, Uniform
<1> QED
    BY <1>5, <1>6, <1>8, <1>9, <1>10, <1>11 DEF WireInv

(* A call that has come back, with the core as it left it.                  *)
LEMMA CameBack ==
    ASSUME WireInv, wireDrv.at = "back"
    PROVE  /\ wireCore \in WireCores /\ ~wireCore.start /\ wireCore.st = "done" /\ ~wireCore.bit0
           /\ wireCore.tx = <<>> /\ (WireClean => wireCore.rx = <<>>) /\ wireDrv.ok /\ WireFinished
           /\ client.at # "menu"
<1>1. ~WireRunning
    BY DEF WireRunning
<1>2. wireCore \in WireCores /\ client.at # "menu"
    BY DEF WireInv, WireTyped, ClientWaits
<1>3. ~wireCore.start /\ wireCore.st = "done" /\ ~wireCore.bit0 /\ wireDrv.ok
    BY <1>2 DEF WireInv, WireHandshake, WireCores
<1>4. WireFinished
    BY DEF WireInv, WireCommand
<1>5. WireClean => wireCore.rx = <<>>
    BY DEF WireInv, WireAnswered
<1> QED
    BY <1>2, <1>3, <1>4, <1>5 DEF WireFinished

LEMMA ReturnInv ==
    ASSUME WireInv, wireDrv.at = "back", WireReturn, UNCHANGED <<wireCore, sensor, sent>>
    PROVE  WireInv'
<1>1. PICK d \in WireDrivers, k \in WireClients : d = wireDrv /\ k = client
    BY DEF WireInv, WireTyped
<1>2. PICK at \in WireStates, m \in {"menu", "setup", "id", "ready", "xyz"} : at = "idle" /\ m = "menu"
    BY DEF WireStates
<1>3. wireDrv' = [d EXCEPT !.at = at] /\ client' = [k EXCEPT !.at = m]
    BY <1>1, <1>2 DEF WireReturn
<1>4. wireDrv' \in WireDrivers /\ wireDrv'.at = at /\ wireDrv'.op = d.op
      /\ client' \in WireClients /\ client'.at = m
    BY <1>3 DEF WireDrivers, WireClients
<1>5. WireTyped'
    BY <1>4 DEF WireInv, WireTyped
<1>6. ClientWaits'
    BY <1>1, <1>2, <1>4 DEF WireInv, ClientWaits, WireAsked
<1>7. ~WireRunning' /\ ~WireWaiting'
    BY <1>2, <1>4 DEF WireRunning, WireWaiting
<1>8. WireHandshake'
    BY <1>2, <1>4, <1>7, CameBack DEF WireHandshake
<1>9. WireCommand'
    BY <1>2, <1>4, <1>7, CameBack DEF WireCommand
<1>10. WireAnswered'
    BY <1>2, <1>4 DEF WireAnswered, WireClean
<1>11. WireSettings'
    BY <1>2, <1>4 DEF WireInv, WireSettings, Sampled, Uniform
<1>12. SentTrue'
    BY <1>2, <1>4 DEF SentTrue
<1> QED
    BY <1>5, <1>6, <1>8, <1>9, <1>10, <1>11, <1>12 DEF WireInv

LEMMA WireAgainInv ==
    ASSUME WireInv, wireDrv.at = "back", client.at \in {"id", "ready", "xyz"}, WireAgain,
           UNCHANGED <<wireCore, sensor, sent>>
    PROVE  WireInv'
<1>1. CASE client.key /\ WireReturn
    BY <1>1, ReturnInv
<1>2. CASE WireCall(ReadOp(IntSource, 1)) /\ client' = [client EXCEPT !.at = "ready"]
  <2>1. PICK k \in WireClients, m \in {"menu", "setup", "id", "ready", "xyz"} :
            k = client /\ m = "ready"
      BY DEF WireInv, WireTyped
  <2>2. client' = [k EXCEPT !.at = m]
      BY <1>2, <2>1
  <2>3. client' \in WireClients /\ client'.at = "ready"
      BY <2>1, <2>2 DEF WireClients
  <2>4. ReadOp(IntSource, 1) \in WireOps
      BY OpsTyped, WireConstants
  <2>5. ReadOp(IntSource, 1) = WireAsked'
      BY <2>3 DEF WireAsked, ReadOp, IntSource
  <2>6. WireSettings'
      BY <2>3 DEF WireInv, WireSettings, Sampled, Uniform
  <2>7. WireClean
      BY DEF WireClean
  <2> QED
      BY <1>2, <2>3, <2>4, <2>5, <2>6, <2>7, CallInv, CameBack
<1> QED
    BY <1>1, <1>2 DEF WireAgain

LEMMA IdentifyInv == ASSUME WireInv, Identify PROVE WireInv'
BY WireAgainInv, CameBack DEF Identify

LEMMA ShowInv == ASSUME WireInv, WireShow PROVE WireInv'
BY WireAgainInv, CameBack DEF WireShow

(* The flag that was read says that there is a sample.                       *)
LEMMA ReadyInv == ASSUME WireInv, Ready PROVE WireInv'
<1>1. client.at = "ready" /\ wireDrv.at = "back" /\ UNCHANGED <<wireCore, sensor, sent>>
    BY DEF Ready
<1>2. CASE WireAgain
    BY <1>1, <1>2, WireAgainInv
<1>3. CASE /\ wireDrv.ok /\ wireDrv.got[1] = On
           /\ WireCall(ReadOp(Data, DataLen)) /\ client' = [client EXCEPT !.at = "xyz"]
  <2>1. PICK k \in WireClients, m \in {"menu", "setup", "id", "ready", "xyz"} : k = client /\ m = "xyz"
      BY DEF WireInv, WireTyped
  <2>2. client' = [k EXCEPT !.at = m]
      BY <1>3, <2>1
  <2>3. client' \in WireClients /\ client'.at = "xyz"
      BY <2>1, <2>2 DEF WireClients
  <2>4. ReadOp(Data, DataLen) \in WireOps
      BY OpsTyped, WireConstants
  <2>5. ReadOp(Data, DataLen) = WireAsked'
      BY <2>3 DEF WireAsked, ReadOp, Data
  <2>6. WireSettings'
      BY <1>1, <2>3 DEF WireInv, WireSettings, Sampled, Uniform
  <2>7. WireClean
      BY <1>1 DEF WireClean
  <2>8. PICK op : op = wireDrv.op
      OBVIOUS
  <2>9. op.read /\ op.n = 1
      BY <1>1, <2>8, WireOpsMade, WireConstants DEF WireInv
  <2>10. Len(sent) = 1 /\ wireDrv.got = sent
      BY <1>1, <2>8, <2>9, CameBack DEF WireFinished, WireInv, WireAnswered
  <2>11. Sampled
      BY <1>1, <1>3, <2>10 DEF WireInv, SentTrue
  <2> QED
      BY <1>1, <1>3, <2>3, <2>4, <2>5, <2>6, <2>7, <2>11, CallInv, CameBack
<1> QED
    BY <1>2, <1>3 DEF Ready

(* A setting that has been written is in the sensor.                         *)
LEMMA ConfigureInv == ASSUME WireInv, Configure PROVE WireInv'
<1>1. client.at = "setup" /\ wireDrv.at = "back" /\ UNCHANGED <<sensor, sent>>
      /\ wireCore' = AfterSetup(wireCore, client.step)
    BY DEF Configure
<1>2. PICK k \in WireClients, s \in Int : k = client /\ s = client.step /\ s \in 1..5 /\ k.at = "setup"
    BY <1>1 DEF WireInv, WireTyped, ClientWaits
<1>3. /\ wireCore' \in WireCores /\ ~wireCore'.start /\ wireCore'.st = wireCore.st
      /\ wireCore'.bit0 = wireCore.bit0 /\ wireCore'.tx = <<>> /\ wireCore'.rx = <<>>
      /\ ~wireCore.bit0
  <2>1. CASE s = 1
      BY <1>1, <1>2, <2>1, CameBack, WireClearedOK DEF AfterSetup
  <2>2. CASE s # 1
      BY <1>1, <1>2, <2>2, CameBack DEF AfterSetup, WireClean
  <2> QED
      BY <2>1, <2>2
<1>4. PICK op : op = wireDrv.op
    OBVIOUS
<1>5. op = Setup[s] /\ sensor[op.a] = op.data[1]
  <2>1. ~op.read /\ op = Setup[s]
      BY <1>1, <1>2, <1>4, WireOpsMade DEF WireInv
  <2> QED
      BY <1>1, <1>4, <2>1, CameBack DEF WireFinished
<1>6. /\ s = 1 => sensor[Format] = On
      /\ s = 2 => sensor[Rate] = On
      /\ s = 3 => sensor[IntEnable] = On
      /\ s = 5 => sensor[Power] = On
  <2>1. /\ Setup[1].a = Format /\ Setup[2].a = Rate /\ Setup[3].a = IntEnable /\ Setup[5].a = Power
        /\ Setup[1].data[1] = On /\ Setup[2].data[1] = On /\ Setup[3].data[1] = On
        /\ Setup[5].data[1] = On
      BY DEF Setup, WriteOp
  <2> QED
      BY <1>5, <2>1
<1>7. /\ sensor[DevId] = Id /\ (sensor[IntSource] = On => Sampled)
      /\ s > 1 => sensor[Format] = On
      /\ s > 2 => sensor[Rate] = On
      /\ s > 3 => sensor[IntEnable] = On
    BY <1>1, <1>2 DEF WireInv, WireSettings
<1>8. sensor'[IntSource] = On => Sampled'
    BY <1>1, <1>7 DEF Sampled, Uniform
<1>9. Len(Setup) = 5
    BY DEF Setup
<1>10. CASE s < 5 /\ WireCall(Setup[s + 1]) /\ client' = [client EXCEPT !.step = @ + 1]
  <2>1. PICK t \in Int : t = s + 1
      OBVIOUS
  <2>2. client' = [k EXCEPT !.step = t]
      BY <1>2, <1>10, <2>1
  <2>3. client' \in WireClients /\ client'.at = "setup" /\ client'.step = t
      BY <1>2, <2>2 DEF WireClients
  <2>4. t \in 2..5
      BY <1>2, <1>10, <2>1
  <2>5. \A i \in 1..5 : Setup[i] \in WireOps
      BY OpsTyped, WireConstants DEF Setup
  <2>6. Setup[t] = WireAsked'
      BY <2>3 DEF WireAsked, Setup, WriteOp, Format, Rate, IntEnable, Power, On, Off
  <2>7. WireSettings'
    <3>1. (t > 1 => sensor[Format] = On) /\ (t > 2 => sensor[Rate] = On)
          /\ (t > 3 => sensor[IntEnable] = On)
        BY <1>2, <1>6, <1>7, <2>1
    <3> QED
        BY <1>1, <1>7, <1>8, <2>3, <3>1 DEF WireSettings
  <2>8. Setup[t] \in WireOps /\ t \in 1..5
      BY <2>4, <2>5
  <2>9. WireCall(Setup[t])
      BY <1>10, <2>1
  <2> QED
      BY <1>1, <1>3, <2>3, <2>6, <2>7, <2>8, <2>9, CallInv
<1>11. CASE s = 5 /\ WireCall(ReadOp(DevId, 1)) /\ client' = [client EXCEPT !.at = "id"]
  <2>1. PICK m \in {"menu", "setup", "id", "ready", "xyz"} : m = "id"
      OBVIOUS
  <2>2. client' = [k EXCEPT !.at = m]
      BY <1>2, <1>11, <2>1
  <2>3. client' \in WireClients /\ client'.at = "id"
      BY <2>1, <2>2 DEF WireClients
  <2>4. ReadOp(DevId, 1) \in WireOps
      BY OpsTyped, WireConstants
  <2>5. ReadOp(DevId, 1) = WireAsked'
      BY <2>3 DEF WireAsked, ReadOp, DevId
  <2>6. WireSettings'
      BY <1>1, <1>6, <1>7, <1>8, <1>11, <2>3 DEF WireSettings
  <2> QED
      BY <1>1, <1>3, <1>11, <2>3, <2>4, <2>5, <2>6, CallInv
<1> QED
    BY <1>1, <1>2, <1>9, <1>10, <1>11, CameBack DEF Configure

LEMMA SelectInv == ASSUME WireInv, WireSelect PROVE WireInv'
<1>1. /\ client.at = "menu" /\ wireDrv.at = "idle" /\ UNCHANGED <<sensor, sent>>
      /\ wireCore' = WireCleared(wireCore) /\ WireCall(Setup[1])
      /\ client' = [at |-> "setup", step |-> 1, key |-> FALSE]
    BY DEF WireSelect, WireInv, ClientWaits
<1>2. /\ wireCore' \in WireCores /\ ~wireCore'.start /\ wireCore'.st = wireCore.st
      /\ wireCore'.bit0 = wireCore.bit0 /\ wireCore'.tx = <<>>
    BY <1>1, WireClearedOK DEF WireInv, WireTyped
<1>3. client' \in WireClients /\ client'.at = "setup" /\ client'.step = 1
    BY <1>1 DEF WireClients
<1>4. Setup[1] \in WireOps
    BY OpsTyped, WireConstants DEF Setup
<1>5. Setup[1] = WireAsked'
    BY <1>3 DEF WireAsked, Setup, WriteOp, Format, Rate, IntEnable, Power, On, Off
<1>6. WireSettings'
    BY <1>1, <1>3 DEF WireInv, WireSettings, Sampled, Uniform
<1>7. ~WireClean'
    BY <1>3 DEF WireClean
<1> QED
    BY <1>1, <1>2, <1>3, <1>4, <1>5, <1>6, <1>7, CallInv

LEMMA WirePressInv == ASSUME WireInv, WirePressKey PROVE WireInv'
<1>1. PICK k \in WireClients, yes \in BOOLEAN : k = client /\ yes = TRUE
    BY DEF WireInv, WireTyped
<1>2. client' = [k EXCEPT !.key = yes] /\ UNCHANGED <<wireCore, sensor, wireDrv, sent>>
    BY <1>1 DEF WirePressKey
<1>3. client' \in WireClients /\ client'.at = client.at /\ client'.step = client.step
    BY <1>1, <1>2 DEF WireClients
<1>4. WireTyped' /\ ClientWaits' /\ WireAnswered'
    BY <1>2, <1>3 DEF WireInv, WireTyped, ClientWaits, WireAsked, WireAnswered, WireClean
<1>5. WireHandshake' /\ WireCommand'
    BY <1>2 DEF WireInv, WireHandshake, WireCommand, WireRunning, WireWaiting, WireGiven, WireFinished
<1>6. WireSettings' /\ SentTrue'
    BY <1>2, <1>3 DEF WireInv, WireSettings, SentTrue, Sampled, Uniform, AllSent
<1> QED
    BY <1>4, <1>5, <1>6 DEF WireInv

LEMMA WireInitInv == ASSUME WireInit PROVE WireInv
<1>z. PICK z \in Int : z = 0
    OBVIOUS
<1>0. PICK f \in BOOLEAN, t \in BOOLEAN : f = FALSE /\ t = TRUE
    OBVIOUS
<1>1. PICK e \in Seq(Int) : e = <<>>
    BY EmptySeq
<1>2. PICK i \in WireStages, at \in WireStates, m \in {"menu", "setup", "id", "ready", "xyz"} :
          i = "idle" /\ at = "idle" /\ m = "menu"
    BY DEF WireStages, WireStates
<1>3. PICK op \in WireOps : op = ReadOp(DevId, 1)
    BY OpsTyped, WireConstants
<1>4. wireCore = [start |-> f, read |-> f, a |-> z, num |-> z, pre |-> t, st |-> i, wr |-> f,
                  n |-> z, left |-> z, cur |-> z, bit0 |-> t, tx |-> e, rx |-> e]
    BY <1>0, <1>z, <1>1, <1>2 DEF WireInit
<1>5. /\ wireCore \in WireCores /\ ~wireCore.start /\ wireCore.st = "idle" /\ wireCore.tx = <<>>
  <2>1. wireCore \in WireCores
      BY <1>4 DEF WireCores
  <2>2. wireCore.start = f /\ wireCore.st = i /\ wireCore.tx = e
      BY <1>4
  <2> QED
      BY <1>0, <1>1, <1>2, <2>1, <2>2
<1>6. PICK k \in Nat : k = 0
    OBVIOUS
<1>7. wireDrv = [at |-> at, op |-> op, ticks |-> k, ok |-> f, got |-> e]
    BY <1>0, <1>1, <1>2, <1>3, <1>6 DEF WireInit
<1>8. wireDrv \in WireDrivers /\ wireDrv.at = "idle" /\ wireDrv.op = op
  <2>1. wireDrv \in WireDrivers
      BY <1>7 DEF WireDrivers
  <2> QED
      BY <1>2, <1>7, <2>1
<1>9. client = [at |-> m, step |-> z, key |-> f]
    BY <1>0, <1>z, <1>2 DEF WireInit
<1>10. client \in WireClients /\ client.at = "menu"
    BY <1>2, <1>9 DEF WireClients
<1>11. sent = <<>> /\ sent \in Seq(WireValues)
    BY EmptySeq DEF WireInit
<1>12. sensor \in [Registers -> WireValues] /\ sensor[DevId] = Id /\ sensor[IntSource] # On
    BY WireConstants DEF WireInit
<1>13. ~WireRunning /\ ~WireWaiting
    BY <1>8 DEF WireRunning, WireWaiting
<1>14. WireTyped /\ ClientWaits
    BY <1>5, <1>8, <1>10, <1>11, <1>12 DEF WireTyped, ClientWaits, WireAsked
<1>15. WireHandshake
    BY <1>5, <1>8, <1>13 DEF WireHandshake
<1>16. WireCommand
    BY <1>5, <1>8, <1>13 DEF WireCommand
<1>17. WireAnswered /\ WireSettings /\ SentTrue
    BY <1>8, <1>10, <1>12 DEF WireAnswered, WireClean, WireSettings, SentTrue
<1> QED
    BY <1>14, <1>15, <1>16, <1>17 DEF WireInv

LEMMA WireNextInv ==
    ASSUME wirePatient => WireInv, [WireNext]_wireVars
    PROVE  (wirePatient => WireInv)'
<1>1. CASE WireNext
  <2>1. wirePatient' = wirePatient
      BY <1>1 DEF WireNext, WireTick, Sample, WireDriver, WireStop, Fill, Go, WireWake, WirePoll, Halt,
                  Drain, Client, Configure, Identify, Ready, WireShow, WireSelect, WirePressKey
  <2>2. wirePatient => WireInv'
      BY <1>1, WireTickInv, SampleInv, WireDriverInv, ConfigureInv, IdentifyInv, ReadyInv, ShowInv,
         SelectInv, WirePressInv DEF WireNext, Client
  <2> QED
      BY <2>1, <2>2
<1>2. CASE UNCHANGED wireVars
  <2>1. UNCHANGED <<wireCore, sensor, wireDrv, client, sent, wirePatient>>
      BY <1>2 DEF wireVars
  <2> QED
      BY <2>1 DEF WireInv, WireTyped, ClientWaits, WireAsked, WireHandshake, WireRunning,
                  WireWaiting, WireCommand, WireGiven, WireFinished, WireAnswered, WireClean,
                  WireSettings, Sampled, Uniform, SentTrue, AllSent
<1> QED
    BY <1>1, <1>2

LEMMA WireAnswers == ASSUME wirePatient => WireInv PROVE AnswersTrue
<1>1. SetUp
    BY DEF SetUp, WireInv, WireSettings
<1>2. ASSUME wirePatient, wireDrv.at = "back"
      PROVE  /\ WireInv /\ client.at # "menu" /\ sent \in Seq(WireValues) /\ WireFinished
             /\ wireDrv.op.read => wireDrv.got = sent
    BY <1>2, CameBack DEF WireInv, WireTyped, WireAnswered
<1>3. ReadsOwn
  <2>1. ASSUME sent \in Seq(WireValues) PROVE \A i \in 1..Len(sent) : sent[i] # Junk
      BY <2>1, WireConstants
  <2> QED
      BY <1>2, <2>1 DEF ReadsOwn
<1>4. ReadsTrue
  <2>1. SUFFICES ASSUME wirePatient, wireDrv.at = "back"
                 PROVE  /\ client.at = "id" => wireDrv.got = <<Id>>
                        /\ client.at = "xyz" =>
                             \E v \in Samples : wireDrv.got = [i \in 1..DataLen |-> v]
      BY DEF ReadsTrue
  <2>2. PICK op : op = wireDrv.op
      OBVIOUS
  <2>3. client.at \in {"id", "xyz"} => op.read
    <3>1. WireTyped /\ ClientWaits
        BY <1>2, <2>1 DEF WireInv
    <3> QED
        BY <2>2, <3>1, WireOpsMade
  <2>4. client.at \in {"id", "xyz"} => wireDrv.got = sent /\ Len(sent) = op.n
      BY <1>2, <2>1, <2>2, <2>3 DEF WireFinished
  <2>5. /\ client.at = "id" => op.n = 1
        /\ client.at = "xyz" => op.n = DataLen
    <3>1. WireTyped /\ ClientWaits
        BY <1>2, <2>1 DEF WireInv
    <3> QED
        BY <2>2, <2>3, <3>1, WireOpsMade, WireConstants
  <2>6. CASE client.at = "id"
    <3>1. AllSent(Id)
        BY <1>2, <2>1, <2>6 DEF WireInv, SentTrue
    <3>2. sent \in Seq(WireValues) /\ Len(sent) = 1
        BY <1>2, <2>1, <2>4, <2>5, <2>6
    <3>3. sent[1] = Id
        BY <3>1, <3>2 DEF AllSent
    <3>4. sent = <<Id>>
        BY <3>2, <3>3
    <3> QED
        BY <2>4, <2>6, <3>4
  <2>7. CASE client.at = "xyz"
    <3>1. PICK v \in Samples : AllSent(v)
        BY <1>2, <2>1, <2>7 DEF WireInv, SentTrue
    <3>2. sent = [i \in 1..DataLen |-> v]
      <4>1. sent = [i \in 1..Len(sent) |-> sent[i]] /\ Len(sent) = DataLen
          BY <1>2, <2>1, <2>4, <2>5, <2>7
      <4> QED
          BY <3>1, <4>1 DEF AllSent
    <3> QED
        BY <2>4, <2>7, <3>2
  <2> QED
      BY <2>6, <2>7
<1> QED
    BY <1>1, <1>3, <1>4 DEF AnswersTrue

(* While the polls outlast every command, the settings of a finished set-up *)
(* are in the sensor, and every read returns the sensor's answer to it      *)
(* (SPI_MultipleRead, ADXL345_SPI_IdRead, ADXL345_SPI_XYZ_Read).            *)
THEOREM AnswersTrueAlways == WireSpec => []AnswersTrue
<1>1. WireInit => (wirePatient => WireInv)
    BY WireInitInv
<1>2. (wirePatient => WireInv) /\ [WireNext]_wireVars => (wirePatient => WireInv)'
    BY WireNextInv
<1>3. (wirePatient => WireInv) => AnswersTrue
    BY WireAnswers
<1> QED
    BY <1>1, <1>2, <1>3, PTL DEF WireSpec
-----------------------------------------------------------------------------
(* The types of the demonstrations, whichever of them moves.  Those of the   *)
(* ADC and of the accelerometer do not depend on how long the polls are.     *)

AdcCores == [start : BOOLEAN, en : BOOLEAN, st : {"st_00", "st_01", "st_02", "st_03"}, chan : Chan,
             conv : Chan, read : Chan \union {None}, data : Chan \union {None}]
AdcDrivers == [at : {"idle", "call", "start", "sleep", "poll", "stop", "back"},
               next : Chan, ticks : 0 .. AdcSleepTicks, val : Chan \union {None}]
AdcDemos == [at : {"menu", "first", "loop"}, ch : Chan, next : Chan, key : BOOLEAN]

LEMMA AdcTypes == AdcSpec => []AdcTypeOK
<1>1. AdcInit => AdcTypeOK
    BY InitAdcInv DEF AdcInv
<1>2. AdcTypeOK /\ [AdcNext]_adcVars => AdcTypeOK'
  <2> SUFFICES ASSUME AdcTypeOK, [AdcNext]_adcVars PROVE AdcTypeOK'
      OBVIOUS
  <2>1. adcCore \in AdcCores /\ adcDrv \in AdcDrivers /\ demo \in AdcDemos
      BY DEF AdcTypeOK, AdcCores, AdcDrivers, AdcDemos
  <2>2. 0 \in Chan /\ 0 \in 0..AdcSleepTicks /\ AdcSleepTicks \in Nat /\ Following(demo.next) \in Chan
      BY <2>1, FollowingType, AdcAssumption DEF Chan, AdcDemos
  <2>3. \A f \in BOOLEAN : Written(adcCore, f, adcDrv.next) \in AdcCores
      BY <2>1 DEF Written, AdcCores, AdcDrivers
  <2> SUFFICES adcCore' \in AdcCores /\ adcDrv' \in AdcDrivers /\ demo' \in AdcDemos
      BY DEF AdcTypeOK, AdcCores, AdcDrivers, AdcDemos
  <2>4. ASSUME AdcAgain PROVE adcDrv' \in AdcDrivers /\ demo' \in AdcDemos
      BY <2>1, <2>2, <2>4 DEF AdcAgain, AdcCall, AdcDrivers, AdcDemos
  <2>5. CASE AdcTick
    <3>1. adcDrv' \in AdcDrivers
        BY <2>1, <2>2, <2>5 DEF AdcTick, AdcDrivers
    <3>2. adcCore' \in AdcCores
        BY <2>1, <2>5 DEF AdcTick, Accept, Frame, Store, Wait, AdcCores
    <3> QED
        BY <2>1, <2>5, <3>1, <3>2 DEF AdcTick
  <2>6. CASE AdcDriver
    <3>1. adcCore' \in AdcCores /\ UNCHANGED demo
        BY <2>1, <2>3, <2>6 DEF AdcDriver, Arm, Start, AdcWake, AdcPoll, AdcStop
    <3>2. adcDrv' \in AdcDrivers
        BY <2>1, <2>2, <2>6 DEF AdcDriver, Arm, Start, AdcWake, AdcPoll, AdcStop, AdcDrivers, AdcCores
    <3> QED
        BY <2>1, <3>1, <3>2
  <2>7. CASE Demo
      BY <2>1, <2>4, <2>7 DEF Demo, FirstCall, AdcShow
  <2>8. CASE AdcSelect
      BY <2>1, <2>2, <2>8 DEF AdcSelect, AdcCall, AdcDrivers, AdcDemos
  <2>9. CASE AdcPressKey \/ UNCHANGED adcVars
      BY <2>1, <2>9 DEF AdcPressKey, adcVars, AdcDemos
  <2> QED
      BY <2>5, <2>6, <2>7, <2>8, <2>9 DEF AdcNext
<1> QED
    BY <1>1, <1>2, PTL DEF AdcSpec

(* The core and the driver of the SPI flash commands.                        *)
LEMMA SpiTypesAlways == SpiSpec => []SpiTypeOK
<1> DEFINE Sorts == /\ pc \in {"idle", "poll", "send", "receive", "finish"}
                    /\ roe \in BOOLEAN /\ sso \in BOOLEAN /\ call.merge \in BOOLEAN
           Few == credits \in -1024..1
<1>1. SpiInit => Sorts /\ Few
  <2> SUFFICES ASSUME SpiInit PROVE Sorts /\ Few
      OBVIOUS
  <2>1. call = [write |-> <<>>, read |-> 0, merge |-> FALSE]
      BY DEF SpiInit
  <2>2. call.merge = FALSE
      BY <2>1
  <2>3. Few
      BY DEF SpiInit
  <2>4. Sorts
      BY <2>2 DEF SpiInit
  <2> QED
      BY <2>3, <2>4
<1>2. ASSUME SpiFlow, SpiFlow', Sorts, Few, [SpiNext]_spiVars PROVE Sorts' /\ Few'
  <2>1. pc' # "idle" => Few'
    <3>1. SUFFICES ASSUME pc' # "idle" PROVE Few'
        OBVIOUS
    <3>2. SpiTypes' /\ Counts'
        BY <1>2, <3>1 DEF SpiFlow
    <3>3. PICK i \in Nat, j \in Nat, k \in Nat : i = Len(tx)' /\ j = Len(shift)' /\ k = Len(rx)'
        BY <3>2, LenProperties DEF SpiTypes
    <3>4. i <= 1 /\ j <= 1 /\ k <= 1 /\ credits' = 1 - (i + j + k)
        BY <3>2, <3>3 DEF SpiTypes, Counts, Flight
    <3> QED
        BY <3>4
  <2>2. CASE Command
    <3>1. PICK n \in Writes, r \in Reads : \E m \in BOOLEAN : \E w \in [1..n -> Bytes] :
            call' = [write |-> w, read |-> r, merge |-> m]
        BY <2>2 DEF Command
    <3>2. call'.merge \in BOOLEAN
        BY <3>1
    <3>3. pc' = "poll" /\ roe' = roe /\ sso' = TRUE
        BY <2>2 DEF Command
    <3> QED
        BY <1>2, <2>1, <3>2, <3>3
  <2>3. CASE SpiPoll \/ Send \/ Receive \/ Finish
    <3>1. UNCHANGED call /\ roe' = roe /\ sso' \in BOOLEAN
        BY <1>2, <2>3 DEF SpiPoll, Send, Receive, Finish, Keeps, spiCore
    <3>2. pc' \in {"idle", "poll", "send", "receive", "finish"} /\ (pc' = "idle" => UNCHANGED credits)
        BY <1>2, <2>3 DEF SpiPoll, Send, Receive, Finish
    <3> QED
        BY <1>2, <2>1, <3>1, <3>2
  <2>4. CASE Load \/ Shifted \/ UNCHANGED spiVars
    <3>1. UNCHANGED <<pc, sso, call, credits>>
        BY <2>4 DEF Load, Shifted, spiVars, driver, spiCore
    <3>2. roe' \in BOOLEAN
        BY <1>2, <2>4 DEF Load, Shifted, spiVars, spiCore
    <3> QED
        BY <1>2, <3>1, <3>2
  <2> QED
      BY <1>2, <2>2, <2>3, <2>4 DEF SpiNext, SpiDriver
<1>3. SpiFlow /\ Sorts /\ Few => SpiTypeOK
    BY DEF SpiTypeOK, SpiFlow, SpiTypes, Credits
<1> QED
    BY <1>1, <1>2, <1>3, SpiFlowAlways, PTL DEF SpiSpec

LEMMA IrqTypesAlways == IrqSpec => []IrqTypeOK
<1> DEFINE Bounds == raises \in 0..MaxRaises /\ habits \in Habits
<1>1. IrqInit => Bounds
    BY IrqAssumption DEF IrqInit
<1>2. Bounds /\ [IrqNext]_irqVars => Bounds'
    BY IrqAssumption
    DEF IrqNext, Program, Serve, Raise, IrqRegister, StoreHandler, StoreContext, EnableIrq, Restore,
        Exception, Pass, Acknowledge, NonInterruptible, IrqReturn, Interruptible, Change, irqVars, cpu
<1>3. TableInv /\ Bounds => IrqTypeOK
    BY DEF TableInv, Typed, Entries, IrqTypeOK
<1> QED
    BY <1>1, <1>2, <1>3, TableInvariant, PTL DEF IrqSpec

(* The three-wire controller.  What its counters do depends on the polls:    *)
(* with shorter ones a command may find the count of the one before.         *)
WireBytes == {Off, On, Id, Junk} \union Samples
Short(S) == {q \in Seq(S) : Len(q) <= Depth}
WireRequests == [read : BOOLEAN, a : Registers, data : Short({Off, On}), n : 1..Depth]
WireBounds == [start : BOOLEAN, read : BOOLEAN, a : Registers, num : 0..(Depth - 1), pre : BOOLEAN,
               st : WireStages, wr : BOOLEAN, n : 0..Depth, left : 0..63, cur : Nat, bit0 : BOOLEAN,
               tx : Short({Off, On}), rx : Short(WireBytes)]
WireCalls == [at : WireStates, op : WireRequests, ticks : Nat, ok : BOOLEAN, got : Seq(WireBytes)]
WireSteps == [at : {"menu", "setup", "id", "ready", "xyz"}, step : 0..5, key : BOOLEAN]
BitsCounted(c) == c.left < Depth /\ c.cur <= Data + DataLen
WireKinds ==
    /\ wireCore \in WireBounds /\ wireDrv \in WireCalls /\ client \in WireSteps
    /\ sensor \in [Registers -> WireBytes]

LEMMA WireKindsType ==
    ASSUME WireKinds, wirePatient => BitsCounted(wireCore) PROVE WireTypeOK
<1>1. Len(Setup) = 5 /\ Data = 6 /\ DataLen \in Nat
    BY WireConstants DEF Setup
<1>2. /\ wireCore \in WireBounds /\ wireDrv \in WireCalls /\ client \in WireSteps
      /\ sensor \in [Registers -> WireBytes]
    BY DEF WireKinds
<1>3. client.step \in 0..Len(Setup)
    BY <1>1, <1>2 DEF WireSteps
<1>4. wireCore.cur \in Nat /\ wireCore.left \in 0..63
    BY <1>2 DEF WireBounds
<1>5. wirePatient => wireCore.left < Depth /\ wireCore.cur \in 0..(Data + DataLen)
    BY <1>1, <1>4 DEF BitsCounted
<1> QED
    BY <1>2, <1>3, <1>4, <1>5 DEF WireTypeOK, WireBounds, WireCalls, WireSteps, WireBytes, Short,
                                  WireStages, WireStates

(* The requests that are made, and what goes into the FIFOs.                 *)
LEMMA WireRequestsMade ==
    /\ \A i \in 1..5 : Setup[i] \in WireRequests
    /\ ReadOp(DevId, 1) \in WireRequests /\ ReadOp(IntSource, 1) \in WireRequests
    /\ ReadOp(Data, DataLen) \in WireRequests
<1>1. <<>> \in Short({Off, On}) /\ <<On>> \in Short({Off, On}) /\ <<Off>> \in Short({Off, On})
    BY WireConstants, WireAssumption DEF Short
<1>2. 1 \in 1..Depth /\ DataLen \in 1..Depth
    BY WireConstants, WireAssumption
<1>3. {DevId, Rate, Power, IntEnable, IntSource, Format, Data} \subseteq Registers
    BY WireConstants
<1>4. \A a \in Registers : /\ WriteOp(a, On) \in WireRequests /\ WriteOp(a, Off) \in WireRequests
                           /\ \A n \in 1..Depth : ReadOp(a, n) \in WireRequests
    BY <1>1, <1>2 DEF WriteOp, ReadOp, WireRequests
<1>5. \A i \in 1..5 : Setup[i] \in WireRequests
    BY <1>3, <1>4 DEF Setup
<1> QED
    BY <1>2, <1>3, <1>4, <1>5

LEMMA PushKinds ==
    ASSUME NEW q \in Short(WireBytes), NEW b \in WireBytes PROVE Push(q, b) \in Short(WireBytes)
<1>1. q \in Seq(WireBytes) /\ Len(q) <= Depth /\ Len(q) \in Nat /\ Depth \in Nat
    BY WireConstants, LenProperties DEF Short
<1>2. Append(q, b) \in Seq(WireBytes) /\ Len(Append(q, b)) = Len(q) + 1
    BY <1>1, AppendProperties
<1> QED
    BY <1>1, <1>2 DEF Push, Short

LEMMA SettleKinds ==
    ASSUME NEW c \in WireBounds, NEW s, s = Settle(c) \/ s = Noise(c)
    PROVE  /\ s \in WireBounds
           /\ s.st = c.st /\ s.left = c.left /\ s.cur = c.cur /\ s.tx = c.tx /\ s.n = c.n
<1>1. Junk \in WireBytes /\ c.rx \in Short(WireBytes)
    BY DEF WireBytes, WireBounds
<1>2. PICK q \in Short(WireBytes) : q = Push(c.rx, Junk)
    BY <1>1, PushKinds
<1>3. PICK d : d = Noise(c)
    OBVIOUS
<1>4. d = c \/ d = [c EXCEPT !.rx = q]
    BY <1>2, <1>3 DEF Noise
<1>5. d \in WireBounds /\ d.st = c.st /\ d.left = c.left /\ d.cur = c.cur /\ d.tx = c.tx /\ d.n = c.n
    BY <1>4 DEF WireBounds
<1>6. s = d \/ s = [d EXCEPT !.pre = c.start]
    BY <1>3 DEF Settle
<1>7. c.start \in BOOLEAN
    BY DEF WireBounds
<1> QED
    BY <1>5, <1>6, <1>7 DEF WireBounds

(* A command that patient polls wait for stays inside the registers.         *)
LEMMA CommandCounted ==
    ASSUME WireInv, wireCore.st \in {"addr", "data"}
    PROVE  /\ wireCore.st = "addr" => wireCore.n \in 1..DataLen
           /\ wireCore.st = "data" => wireCore.cur \in Nat /\ wireCore.cur < Data + DataLen
<1>1. WireTyped /\ ClientWaits /\ WireHandshake /\ WireCommand
    BY DEF WireInv
<1>2. WireRunning
    BY <1>1 DEF WireHandshake
<1>3. PICK op : op = wireDrv.op
    OBVIOUS
<1>4. client.at # "menu"
    BY <1>1, <1>2 DEF ClientWaits, WireRunning
<1>5. /\ op.n \in 1..DataLen /\ op.a \in Nat /\ op.a + op.n <= 6 + DataLen
      /\ DataLen \in Nat /\ Data = 6
  <2>1. op.read => op.n \in 1..DataLen /\ op.a \in {0, 4, 6} /\ (op.a # 6 => op.n = 1)
      BY <1>1, <1>3, <1>4, WireOpsMade, WireConstants
  <2>2. ~op.read => op.n = 1 /\ op.a \in {5, 1, 3, 2}
      BY <1>1, <1>3, <1>4, WireOpsMade, WireConstants
  <2> QED
      BY <2>1, <2>2, WireConstants
<1>6. wireCore.st = "addr" => wireCore.n = op.n
    BY <1>1, <1>2, <1>3 DEF WireCommand
<1>7. wireCore.st = "data" => wireCore.cur = op.a + Len(sent) /\ Len(sent) < op.n
    BY <1>1, <1>2, <1>3 DEF WireCommand
<1>8. Len(sent) \in Nat
    BY <1>1, LenProperties DEF WireTyped
<1> QED
    BY <1>5, <1>6, <1>7, <1>8

LEMMA WireTickKinds ==
    ASSUME WireKinds, WireTick, wirePatient => WireInv /\ BitsCounted(wireCore)
    PROVE  WireKinds' /\ (wirePatient' => BitsCounted(wireCore'))
<1>1. /\ wireCore \in WireBounds /\ wireDrv \in WireCalls /\ client \in WireSteps
      /\ sensor \in [Registers -> WireBytes]
    BY DEF WireKinds
<1>2. UNCHANGED <<client, wirePatient>>
    BY DEF WireTick
<1>3. wireDrv' \in WireCalls
  <2>1. wireDrv' = wireDrv \/ wireDrv' = [wireDrv EXCEPT !.ticks = @ + 1]
      BY DEF WireTick
  <2> QED
      BY <1>1, <2>1 DEF WireCalls
<1>4. /\ wireCore.left \in 0..63 /\ wireCore.cur \in Nat /\ wireCore.n \in 0..Depth
      /\ wireCore.num \in 0..(Depth - 1) /\ wireCore.a \in Registers
      /\ Depth \in Nat /\ Depth >= 1 /\ Data = 6 /\ DataLen \in Nat /\ DataLen <= Depth /\ DataLen <= 64
      /\ Registers = 0..(5 + DataLen) /\ wireCore.read \in BOOLEAN /\ wireCore.start \in BOOLEAN
      /\ wireCore.tx \in Short({Off, On}) /\ wireCore.rx \in Short(WireBytes)
    BY <1>1, WireConstants, WireAssumption DEF WireBounds
<1>5. PICK s : s = Settle(wireCore)
    OBVIOUS
<1>6. /\ s \in WireBounds /\ s.st = wireCore.st /\ s.left = wireCore.left /\ s.cur = wireCore.cur
      /\ s.tx = wireCore.tx /\ s.n = wireCore.n
    BY <1>1, <1>5, SettleKinds
<1> SUFFICES /\ wireCore' \in WireBounds /\ sensor' \in [Registers -> WireBytes]
             /\ wirePatient => BitsCounted(wireCore')
    BY <1>1, <1>2, <1>3 DEF WireKinds
<1>7. CASE Begin
  <2>1. PICK d : d = Noise(wireCore)
      OBVIOUS
  <2>2. d \in WireBounds /\ d.left = wireCore.left /\ d.cur = wireCore.cur
      BY <1>1, <2>1, SettleKinds
  <2>3. Len(wireCore.tx) \in 0..Depth
      BY <1>4, LenProperties DEF Short
  <2>4. PICK n \in 0..Depth : n = IF wireCore.read THEN wireCore.num + 1 ELSE Len(wireCore.tx)
      BY <1>4, <2>3
  <2>5. wireCore' = [d EXCEPT !.pre = TRUE, !.st = "start", !.wr = ~wireCore.read, !.n = n]
      BY <1>7, <2>1, <2>4 DEF Begin
  <2>6. wireCore' \in WireBounds /\ wireCore'.left = wireCore.left /\ wireCore'.cur = wireCore.cur
      BY <1>4, <2>2, <2>5 DEF WireBounds, WireStages
  <2>7. UNCHANGED sensor
      BY <1>7 DEF Begin
  <2> QED
      BY <1>1, <2>6, <2>7 DEF BitsCounted
<1>8. CASE Rest \/ End
  <2>1. wireCore' = s \/ wireCore' = [s EXCEPT !.st = "done"]
      BY <1>5, <1>8 DEF Rest, End
  <2>2. wireCore' \in WireBounds /\ wireCore'.left = wireCore.left /\ wireCore'.cur = wireCore.cur
      BY <1>6, <2>1 DEF WireBounds, WireStages
  <2>3. UNCHANGED sensor
      BY <1>8 DEF Rest, End
  <2> QED
      BY <1>1, <2>2, <2>3 DEF BitsCounted
<1>9. CASE Address
  <2>0. PICK a \in Nat : a = wireCore.a /\ a <= Data + DataLen
      BY <1>4
  <2>1. wireCore' = [s EXCEPT !.st = "addr", !.bit0 = FALSE, !.cur = a] /\ UNCHANGED sensor
      BY <1>5, <1>9, <2>0 DEF Address
  <2>2. wireCore' \in WireBounds /\ wireCore'.left = wireCore.left /\ wireCore'.cur = a
      BY <1>6, <2>1 DEF WireBounds, WireStages
  <2> QED
      BY <1>1, <2>0, <2>1, <2>2 DEF BitsCounted
<1>10. CASE AddressSent
  <2>0. PICK k \in Nat : k = wireCore.n
      BY <1>4
  <2>1. PICK m \in 0..63 : m = (k + 63) % 64
      OBVIOUS
  <2>2. /\ wireCore.st = "addr" /\ wireCore' = [s EXCEPT !.st = "data", !.left = m]
        /\ UNCHANGED sensor
      BY <1>5, <1>10, <2>0, <2>1 DEF AddressSent
  <2>3. wireCore' \in WireBounds /\ wireCore'.left = m /\ wireCore'.cur = wireCore.cur
      BY <1>6, <2>2 DEF WireBounds, WireStages
  <2>4. wirePatient => m < Depth
    <3>1. SUFFICES ASSUME wirePatient PROVE m < Depth
        OBVIOUS
    <3>2. PICK n \in 1..DataLen : n = wireCore.n
        BY <2>2, <3>1, CommandCounted
    <3>3. k \in 1..64 /\ k <= Depth
      <4>1. DataLen \in Nat /\ DataLen <= 64 /\ DataLen <= Depth /\ Depth \in Nat
          BY <1>4
      <4> QED
          BY <2>0, <3>2, <4>1
    <3>4. m = k - 1
        BY <2>1, <3>3
    <3> QED
        BY <1>4, <3>3, <3>4
  <2> QED
      BY <1>1, <2>2, <2>3, <2>4 DEF BitsCounted
<1>11. ASSUME wireCore.st = "data", NEW d, d = ByteDone(wireCore)
       PROVE  d \in WireBounds /\ (wirePatient => BitsCounted(d)) /\ d.tx = wireCore.tx
  <2>1. PICK l \in 0..63 : l = (IF wireCore.left = 0 THEN 0 ELSE wireCore.left - 1)
      BY <1>4
  <2>2. PICK t \in {"end", "data"} : t = IF wireCore.left = 0 THEN "end" ELSE "data"
      OBVIOUS
  <2>3. PICK k \in Nat : k = wireCore.cur + 1
      BY <1>4
  <2>4. d = [s EXCEPT !.st = t, !.left = l, !.cur = k]
      BY <1>5, <1>6, <1>11, <2>1, <2>2, <2>3 DEF ByteDone
  <2>5. d \in WireBounds /\ d.left = l /\ d.cur = k /\ d.tx = wireCore.tx
      BY <1>6, <2>4 DEF WireBounds, WireStages
  <2>6. ASSUME wirePatient PROVE l < Depth /\ k <= Data + DataLen
    <3>1. wireCore.left < Depth
        BY <2>6 DEF BitsCounted
    <3>2. wireCore.cur < Data + DataLen
        BY <1>11, <2>6, CommandCounted
    <3>3. /\ wireCore.left \in 0..63 /\ wireCore.cur \in Nat /\ Depth \in Nat
          /\ Data = 6 /\ DataLen \in Nat
        BY <1>4, Zenon
    <3>4. l <= wireCore.left
        BY <2>1, <3>3
    <3>5. l < Depth
        BY <3>1, <3>3, <3>4
    <3> QED
        BY <2>3, <3>2, <3>3, <3>5
  <2> QED
      BY <2>5, <2>6 DEF BitsCounted
<1>12. CASE WriteByte
  <2>1. PICK d : d = ByteDone(wireCore)
      OBVIOUS
  <2>2. d \in WireBounds /\ (wirePatient => BitsCounted(d)) /\ d.tx = wireCore.tx
      BY <1>11, <1>12, <2>1 DEF WriteByte
  <2>3. PICK q \in Short({Off, On}) : q = IF wireCore.tx = <<>> THEN wireCore.tx ELSE Tail(wireCore.tx)
    <3>1. wireCore.tx # <<>> =>
            Tail(wireCore.tx) \in Seq({Off, On}) /\ Len(Tail(wireCore.tx)) = Len(wireCore.tx) - 1
        BY <1>4, HeadTailProperties DEF Short
    <3>2. wireCore.tx # <<>> => Tail(wireCore.tx) \in Short({Off, On})
        BY <1>4, <3>1, LenProperties DEF Short
    <3> QED
        BY <1>4, <3>2
  <2>4. wireCore' = [d EXCEPT !.tx = q]
      BY <1>12, <2>1, <2>2, <2>3 DEF WriteByte
  <2>5. wireCore' \in WireBounds /\ wireCore'.left = d.left /\ wireCore'.cur = d.cur
      BY <2>2, <2>4 DEF WireBounds
  <2>6. PICK b \in WireBytes : b = IF wireCore.tx = <<>> THEN Junk ELSE Head(wireCore.tx)
    <3>1. wireCore.tx # <<>> => Head(wireCore.tx) \in {Off, On}
        BY <1>4, HeadTailProperties DEF Short
    <3> QED
        BY <3>1 DEF WireBytes
  <2>7. sensor' = IF wireCore.cur \in Registers THEN [sensor EXCEPT ![wireCore.cur] = b] ELSE sensor
      BY <1>12, <2>6 DEF WriteByte
  <2>8. sensor' \in [Registers -> WireBytes]
      BY <1>1, <2>7
  <2> QED
      BY <2>2, <2>5, <2>8 DEF BitsCounted
<1>13. CASE ReadByte
  <2>1. PICK d : d = ByteDone(wireCore)
      OBVIOUS
  <2>2. d \in WireBounds /\ (wirePatient => BitsCounted(d))
      BY <1>11, <1>13, <2>1 DEF ReadByte
  <2>3. PICK b \in WireBytes : b = IF wireCore.cur \in Registers /\ sensor[Format] = On
                                   THEN sensor[wireCore.cur] ELSE Junk
      BY <1>1 DEF WireBytes
  <2>4. d.rx \in Short(WireBytes)
      BY <2>2 DEF WireBounds
  <2>5. PICK q \in Short(WireBytes) : q = Push(d.rx, b)
      BY <2>4, PushKinds
  <2>6. wireCore' = [d EXCEPT !.rx = q]
      BY <1>13, <2>1, <2>2, <2>3, <2>5 DEF ReadByte, WireBounds
  <2>7. wireCore' \in WireBounds /\ wireCore'.left = d.left /\ wireCore'.cur = d.cur
      BY <2>2, <2>6 DEF WireBounds
  <2>8. sensor' = sensor \/ sensor' = [sensor EXCEPT ![IntSource] = Off]
      BY <1>13 DEF ReadByte
  <2>9. sensor' \in [Registers -> WireBytes]
      BY <1>1, <2>8 DEF WireBytes
  <2> QED
      BY <2>2, <2>7, <2>9 DEF BitsCounted
<1> QED
    BY <1>7, <1>8, <1>9, <1>10, <1>12, <1>13 DEF WireTick

(* The driver and the demonstration.                                         *)
LEMMA WireDriverKinds ==
    ASSUME WireKinds, WireDriver
    PROVE  WireKinds' /\ wireCore'.left = wireCore.left /\ wireCore'.cur = wireCore.cur
           /\ UNCHANGED wirePatient
<1>1. /\ wireCore \in WireBounds /\ wireDrv \in WireCalls /\ client \in WireSteps
      /\ sensor \in [Registers -> WireBytes]
    BY DEF WireKinds
<1>2. UNCHANGED <<sensor, client, wirePatient>>
    BY DEF WireDriver, WireStop, Fill, Go, WireWake, WirePoll, Halt, Drain
<1> SUFFICES /\ wireCore' \in WireBounds /\ wireDrv' \in WireCalls
             /\ wireCore'.left = wireCore.left /\ wireCore'.cur = wireCore.cur
    BY <1>1, <1>2 DEF WireKinds
<1>3. PICK op \in WireRequests : op = wireDrv.op
    BY <1>1 DEF WireCalls
<1>4. op.n \in 1..Depth /\ Depth \in Nat /\ op.a \in Registers /\ op.read \in BOOLEAN
      /\ op.data \in Short({Off, On}) /\ <<>> \in Seq(WireBytes)
    BY <1>3, WireConstants DEF WireRequests
<1>5. wireCore.tx \in Short({Off, On}) /\ wireCore.rx \in Short(WireBytes)
    BY <1>1 DEF WireBounds
<1>6. CASE WireStop
    BY <1>1, <1>3, <1>4, <1>6 DEF WireStop, WireBounds, WireCalls, WireStates
<1>7. CASE Fill
  <2>1. wireDrv' \in WireCalls
      BY <1>1, <1>7 DEF Fill, WireCalls, WireStates
  <2>2. PICK m \in 0..(Depth - 1) : m = op.n - 1
      BY <1>4
  <2>3. PICK q \in Short({Off, On}) : q = PushAll(wireCore.tx, op.data)
    <3>1. wireCore.tx \o op.data \in Seq({Off, On})
        BY <1>4, <1>5, ConcatProperties DEF Short
    <3>2. PICK all \in Seq({Off, On}) : all = wireCore.tx \o op.data
        BY <3>1
    <3>3. PICK l \in Nat : l = Len(all)
        BY LenProperties
    <3>4. PICK k \in Nat : k = (IF l < Depth THEN l ELSE Depth) /\ k <= l /\ k <= Depth
        BY <1>4, <3>3
    <3>5. \A i \in 1..k : all[i] \in {Off, On}
        BY <3>3, <3>4, ElementOfSeq
    <3>6. SubSeq(all, 1, k) \in Seq({Off, On}) /\ Len(SubSeq(all, 1, k)) = k
        BY <3>3, <3>4, <3>5, SubSeqProperties
    <3>7. PushAll(wireCore.tx, op.data) = SubSeq(all, 1, k)
        BY <3>2, <3>3, <3>4 DEF PushAll
    <3> QED
        BY <3>4, <3>6, <3>7 DEF Short
  <2>4. wireCore' = IF op.read THEN [wireCore EXCEPT !.a = op.a, !.num = m]
                               ELSE [wireCore EXCEPT !.a = op.a, !.tx = q]
      BY <1>1, <1>3, <1>7, <2>2, <2>3 DEF Fill, Loaded, WireBounds
  <2> QED
      BY <1>1, <1>4, <2>1, <2>4 DEF WireBounds
<1>8. CASE Go \/ WireWake \/ WirePoll
  <2>1. wireCore' = wireCore \/ wireCore' = [wireCore EXCEPT !.start = TRUE]
      BY <1>8 DEF Go, WireWake, WirePoll
  <2>2. PICK b \in BOOLEAN : b = (wireCore.st = "done")
      OBVIOUS
  <2>3. \/ wireDrv' = [wireDrv EXCEPT !.at = "sleep", !.ticks = 0]
        \/ wireDrv' = [wireDrv EXCEPT !.at = "poll"]
        \/ wireDrv' = [wireDrv EXCEPT !.at = "halt", !.ok = b]
      BY <1>8, <2>2 DEF Go, WireWake, WirePoll
  <2>4. wireDrv' \in WireCalls
    <3>1. CASE wireDrv' = [wireDrv EXCEPT !.at = "sleep", !.ticks = 0]
        BY <1>1, <3>1 DEF WireCalls, WireStates
    <3>2. CASE wireDrv' = [wireDrv EXCEPT !.at = "poll"]
        BY <1>1, <3>2 DEF WireCalls, WireStates
    <3>3. CASE wireDrv' = [wireDrv EXCEPT !.at = "halt", !.ok = b]
        BY <1>1, <2>2, <3>3 DEF WireCalls, WireStates
    <3> QED
        BY <2>3, <3>1, <3>2, <3>3
  <2> QED
      BY <1>1, <2>1, <2>4 DEF WireBounds
<1>9. CASE Halt
    BY <1>1, <1>9 DEF Halt, WireBounds, WireCalls, WireStates
<1>10. CASE Drain
  <2>1. PICK fifo : /\ fifo = wireCore.rx /\ fifo \in Seq(WireBytes)
                    /\ Len(fifo) \in Nat /\ Len(fifo) <= Depth
      BY <1>5, LenProperties DEF Short
  <2>2. PICK n \in Nat : n = op.n /\ n >= 1
      BY <1>4
  <2>3. PICK g \in Seq(WireBytes) : g = [i \in 1..n |-> IF i <= Len(fifo) THEN fifo[i] ELSE Junk]
    <3>1. \A i \in 1..n : (IF i <= Len(fifo) THEN fifo[i] ELSE Junk) \in WireBytes
        BY <2>1, <2>2, ElementOfSeq DEF WireBytes
    <3>2. [i \in 1..n |-> IF i <= Len(fifo) THEN fifo[i] ELSE Junk] \in [1..n -> WireBytes]
        BY <3>1
    <3>3. PICK g \in [1..n -> WireBytes] : g = [i \in 1..n |-> IF i <= Len(fifo) THEN fifo[i] ELSE Junk]
        BY <3>2
    <3>4. g \in Seq(WireBytes)
        BY <2>2, SeqDef
    <3> QED
        BY <3>3, <3>4
  <2>4. PICK q \in Short(WireBytes) : q = SubSeq(fifo, n + 1, Len(fifo))
    <3>1. \A i \in (n + 1)..Len(fifo) : fifo[i] \in WireBytes
        BY <2>1, <2>2, ElementOfSeq
    <3>2. /\ SubSeq(fifo, n + 1, Len(fifo)) \in Seq(WireBytes)
          /\ Len(SubSeq(fifo, n + 1, Len(fifo))) = IF n + 1 <= Len(fifo) THEN Len(fifo) - n ELSE 0
        BY <2>1, <2>2, <3>1, SubSeqProperties
    <3>3. Len(SubSeq(fifo, n + 1, Len(fifo))) <= Depth
        BY <1>4, <2>1, <2>2, <3>2
    <3> QED
        BY <3>2, <3>3 DEF Short
  <2>5. wireDrv' = [wireDrv EXCEPT !.at = "back", !.got = g]
      BY <1>3, <1>10, <2>1, <2>2, <2>3 DEF Drain
  <2>6. wireCore' = [wireCore EXCEPT !.rx = q]
      BY <1>1, <1>3, <1>10, <2>1, <2>2, <2>4 DEF Drain, WireBounds
  <2> QED
      BY <1>1, <2>5, <2>6 DEF WireBounds, WireCalls, WireStates
<1> QED
    BY <1>6, <1>7, <1>8, <1>9, <1>10 DEF WireDriver

LEMMA WireClientKinds ==
    ASSUME WireKinds, Client \/ WireSelect \/ WirePressKey \/ Sample \/ UNCHANGED wireVars
    PROVE  WireKinds' /\ wireCore'.left = wireCore.left /\ wireCore'.cur = wireCore.cur
           /\ UNCHANGED wirePatient
<1>1. /\ wireCore \in WireBounds /\ wireDrv \in WireCalls /\ client \in WireSteps
      /\ sensor \in [Registers -> WireBytes]
    BY DEF WireKinds
<1>2. UNCHANGED wirePatient
    BY DEF Client, Configure, Identify, Ready, WireShow, WireSelect, WirePressKey, Sample, wireVars
<1> SUFFICES /\ wireCore' \in WireBounds /\ wireDrv' \in WireCalls /\ client' \in WireSteps
             /\ sensor' \in [Registers -> WireBytes]
             /\ wireCore'.left = wireCore.left /\ wireCore'.cur = wireCore.cur
    BY <1>2 DEF WireKinds
<1>3. \A op \in WireRequests : WireCall(op) => wireDrv' \in WireCalls
    BY <1>1 DEF WireCall, WireCalls, WireStates
<1>4. WireReturn \/ WireAgain => wireDrv' \in WireCalls /\ client' \in WireSteps
  <2>1. ReadOp(IntSource, 1) \in WireRequests
      BY WireRequestsMade
  <2>2. WireReturn => wireDrv' \in WireCalls /\ client' \in WireSteps
      BY <1>1 DEF WireReturn, WireCalls, WireStates, WireSteps
  <2> QED
      BY <1>1, <1>3, <2>1, <2>2 DEF WireAgain, WireSteps
<1>5. WireCleared(wireCore) \in WireBounds /\ WireCleared(wireCore).left = wireCore.left
      /\ WireCleared(wireCore).cur = wireCore.cur
  <2>1. <<>> \in Short({Off, On}) /\ <<>> \in Short(WireBytes)
      BY WireConstants DEF Short
  <2> QED
      BY <1>1, <2>1 DEF WireCleared, WireBounds
<1>6. CASE Configure
  <2>1. wireCore' = wireCore \/ wireCore' = WireCleared(wireCore)
      BY <1>6 DEF Configure, AfterSetup
  <2>2. UNCHANGED sensor /\ Len(Setup) = 5 /\ client.step \in 0..5
      BY <1>1, <1>6 DEF Configure, Setup, WireSteps
  <2>3. CASE WireReturn
      BY <1>1, <1>4, <1>5, <2>1, <2>2, <2>3
  <2>4. CASE client.step < 5 /\ WireCall(Setup[client.step + 1])
             /\ client' = [client EXCEPT !.step = @ + 1]
    <3>1. PICK k \in 1..5 : k = client.step + 1
        BY <2>2, <2>4
    <3>2. Setup[k] \in WireRequests
        BY WireRequestsMade
    <3>3. wireDrv' \in WireCalls
        BY <1>3, <2>4, <3>1, <3>2
    <3>4. client' = [client EXCEPT !.step = k]
        BY <1>1, <2>4, <3>1 DEF WireSteps
    <3>5. client' \in WireSteps
        BY <1>1, <3>4 DEF WireSteps
    <3> QED
        BY <1>1, <1>5, <2>1, <2>2, <3>3, <3>5
  <2>5. CASE WireCall(ReadOp(DevId, 1)) /\ client' = [client EXCEPT !.at = "id"]
    <3>1. ReadOp(DevId, 1) \in WireRequests
        BY WireRequestsMade
    <3> QED
        BY <1>1, <1>3, <1>5, <2>1, <2>2, <2>5, <3>1 DEF WireSteps
  <2> QED
      BY <1>6, <2>2, <2>3, <2>4, <2>5 DEF Configure
<1>7. CASE Identify \/ WireShow
  <2>1. WireAgain \/ WireReturn
      BY <1>7 DEF Identify, WireShow
  <2>2. UNCHANGED <<wireCore, sensor>>
      BY <1>7 DEF Identify, WireShow
  <2> QED
      BY <1>1, <1>4, <2>1, <2>2
<1>8. CASE Ready
  <2>1. UNCHANGED <<wireCore, sensor>>
      BY <1>8 DEF Ready
  <2>2. \/ WireCall(ReadOp(Data, DataLen)) /\ client' = [client EXCEPT !.at = "xyz"]
        \/ WireAgain
      BY <1>8 DEF Ready
  <2>3. ReadOp(Data, DataLen) \in WireRequests
      BY WireRequestsMade
  <2> QED
      BY <1>1, <1>3, <1>4, <2>1, <2>2, <2>3 DEF WireSteps
<1>9. CASE WireSelect
  <2>1. Setup[1] \in WireRequests
      BY WireRequestsMade
  <2>2. client' \in WireSteps /\ UNCHANGED sensor
      BY <1>9 DEF WireSelect, WireSteps
  <2>3. wireDrv' \in WireCalls
      BY <1>3, <1>9, <2>1 DEF WireSelect
  <2> QED
      BY <1>1, <1>5, <1>9, <2>2, <2>3 DEF WireSelect
<1>10. CASE WirePressKey \/ UNCHANGED wireVars
    BY <1>1, <1>10 DEF WirePressKey, wireVars, WireSteps
<1>11. CASE Sample
  <2>1. PICK v \in Samples : sensor' = [a \in Registers |-> IF a \in DataRegisters THEN v
                               ELSE IF a = IntSource /\ sensor[IntEnable] = On THEN On ELSE sensor[a]]
      BY <1>11 DEF Sample
  <2>2. sensor' \in [Registers -> WireBytes]
      BY <1>1, <2>1 DEF WireBytes
  <2> QED
      BY <1>1, <1>11, <2>2 DEF Sample
<1> QED
    BY <1>6, <1>7, <1>8, <1>9, <1>10, <1>11 DEF Client

LEMMA WireTypesAlways == WireSpec => []WireTypeOK
<1> DEFINE Kinds == WireKinds /\ (wirePatient => BitsCounted(wireCore))
           Inv == wirePatient => WireInv
<1>1. WireInit => Kinds
  <2> SUFFICES ASSUME WireInit PROVE Kinds
      OBVIOUS
  <2>1. <<>> \in Short({Off, On}) /\ <<>> \in Short(WireBytes) /\ <<>> \in Seq(WireBytes)
        /\ 0 \in Registers /\ 0 \in 0..(Depth - 1) /\ 0 \in 0..Depth /\ 0 < Depth
        /\ 0 <= Data + DataLen
      BY WireConstants DEF Short
  <2>2. wireCore \in WireBounds /\ wireCore.left = 0 /\ wireCore.cur = 0
      BY <2>1 DEF WireInit, WireBounds, WireStages
  <2>3. wireDrv \in WireCalls
      BY <2>1, WireRequestsMade DEF WireInit, WireCalls, WireStates
  <2>4. client \in WireSteps
      BY DEF WireInit, WireSteps
  <2>5. sensor \in [Registers -> WireBytes]
      BY DEF WireInit, WireBytes
  <2> QED
      BY <2>1, <2>2, <2>3, <2>4, <2>5 DEF WireKinds, BitsCounted
<1>2. ASSUME Inv, Kinds, [WireNext]_wireVars PROVE Kinds'
  <2>1. CASE WireTick
      BY <1>2, <2>1, WireTickKinds
  <2>2. CASE ~WireTick
    <3>1. WireKinds' /\ wireCore'.left = wireCore.left /\ wireCore'.cur = wireCore.cur
          /\ UNCHANGED wirePatient
        BY <1>2, <2>2, WireDriverKinds, WireClientKinds DEF WireNext
    <3> QED
        BY <1>2, <3>1 DEF BitsCounted
  <2> QED
      BY <2>1, <2>2
<1>3. Kinds => WireTypeOK
    BY WireKindsType
<1>4. WireInit => Inv
    BY WireInitInv
<1>5. Inv /\ [WireNext]_wireVars => Inv'
    BY WireNextInv
<1> QED
    BY <1>1, <1>2, <1>3, <1>4, <1>5, PTL DEF WireSpec

(* In every behaviour of the run, whichever demonstration it is about, the   *)
(* variables of all of them keep to their types.                             *)
THEOREM DemosTypesAlways == Spec => []DemosTypeOK
<1>1. Init => MenuInit /\ AdcInit /\ WireInit /\ SpiInit /\ IrqInit /\ LedInit
    BY DEF Init
<1>2. [Next]_allVars => /\ [MenuNext]_menuVars /\ [AdcNext]_adcVars /\ [WireNext]_wireVars
                        /\ [SpiNext]_spiVars /\ [IrqNext]_irqVars /\ [LedNext]_ledVars
    BY DEF Next, allVars, MenuStep, AdcStep, WireStep, SpiStep, IrqStep, LedStep
<1>3. MenuInv => MenuTypeOK
    BY DEF MenuInv
<1>4. LedInv => LedTypeOK
    BY DEF LedInv
<1>5. Spec => MenuSpec /\ AdcSpec /\ WireSpec /\ SpiSpec /\ IrqSpec /\ LedSpec
    BY <1>1, <1>2, PTL DEF Spec, MenuSpec, AdcSpec, WireSpec, SpiSpec, IrqSpec, LedSpec
<1>6. Spec => []MenuTypeOK /\ []LedTypeOK
    BY <1>3, <1>4, <1>5, MenuInvariant, LedInvAlways, PTL
<1>7. MenuTypeOK /\ AdcTypeOK /\ WireTypeOK /\ SpiTypeOK /\ IrqTypeOK /\ LedTypeOK => DemosTypeOK
    BY DEF DemosTypeOK
<1> QED
    BY <1>5, <1>6, <1>7, AdcTypes, WireTypesAlways, SpiTypesAlways, IrqTypesAlways, PTL
=============================================================================
