------------------------------- MODULE AdcRead -------------------------------
(* The ADC demonstration: DEMO_ADC and ADC_Read, and the controller they     *)
(* drive, whose state machine runs on its own clock.  The converter answers  *)
(* a frame with the conversion of the channel the frame before asked for, so *)
(* each call returns the value of the channel the call before it named.      *)
EXTENDS Integers

CONSTANTS Channels,      \* channels of the converter
          AdcSleepTicks  \* steps of the controller the usleep(10000) covers

ASSUME AdcAssumption == Channels \in Nat \ {0} /\ AdcSleepTicks \in Nat

VARIABLES adcCore,    \* start flag and latch, state, channel, data register
          adcDrv,     \* the call of ADC_Read under way and its result
          demo,       \* DEMO_ADC: where it is, ch, next_ch, and the key flag
          printed,    \* the last line: its label and the value beside it
          adcPatient  \* whether the polls outlast a frame: never changes

adcVars == <<adcCore, adcDrv, demo, printed, adcPatient>>

Chan == 0 .. (Channels - 1)
None == -1  \* no sample: the data register after reset, a call that gave up

AdcInit ==
    /\ adcCore = [start |-> FALSE, en |-> FALSE, st |-> "st_00", chan |-> 0,
                  conv |-> 0, read |-> None, data |-> None]
    /\ adcDrv = [at |-> "idle", next |-> 0, ticks |-> 0, val |-> None]
    /\ demo = [at |-> "menu", ch |-> 0, next |-> 0, key |-> FALSE]
    /\ printed = <<0, 0>>
    /\ adcPatient \in BOOLEAN
-----------------------------------------------------------------------------
(* The controller.  A rising start flag sets the latch, unless the state     *)
(* that clears it holds; the channel is taken only with the flag.            *)
Written(c, flag, ch) ==
    [c EXCEPT !.start = flag, !.chan = IF flag THEN ch ELSE @,
              !.en = @ \/ (flag /\ ~c.start /\ c.st # "st_02")]

Accept ==
    /\ adcCore.st \in {"st_00", "st_03"} /\ adcCore.en
    /\ adcCore' = [adcCore EXCEPT !.st = "st_01"]

(* A frame: the converter sends its conversion and is told the next channel. *)
Frame ==
    /\ adcCore.st = "st_01"
    /\ adcCore' = [adcCore EXCEPT !.st = "st_02", !.en = FALSE,
                                  !.read = adcCore.conv, !.conv = adcCore.chan]

Store ==
    /\ adcCore.st = "st_02"
    /\ adcCore' = [adcCore EXCEPT !.st = "st_03", !.data = adcCore.read]

Wait ==
    /\ adcCore.st \in {"st_00", "st_03"} /\ ~adcCore.en
    /\ adcDrv.at = "sleep" /\ adcDrv.ticks < AdcSleepTicks
    /\ adcCore' = adcCore

AdcTick ==
    /\ Accept \/ Frame \/ Store \/ Wait
    /\ adcDrv' = IF adcDrv.at = "sleep" /\ adcDrv.ticks < AdcSleepTicks
                THEN [adcDrv EXCEPT !.ticks = @ + 1] ELSE adcDrv
    /\ UNCHANGED <<demo, printed, adcPatient>>
-----------------------------------------------------------------------------
(* ADC_Read: the flag is written clear, then set with the channel.           *)
AdcCall(ch) == adcDrv' = [adcDrv EXCEPT !.at = "call", !.next = ch]

Arm ==
    /\ adcDrv.at = "call"
    /\ adcCore' = Written(adcCore, FALSE, adcDrv.next)
    /\ adcDrv' = [adcDrv EXCEPT !.at = "start"]
    /\ UNCHANGED <<demo, printed, adcPatient>>

Start ==
    /\ adcDrv.at = "start"
    /\ adcCore' = Written(adcCore, TRUE, adcDrv.next)
    /\ adcDrv' = [adcDrv EXCEPT !.at = "sleep", !.ticks = 0]
    /\ UNCHANGED <<demo, printed, adcPatient>>

(* The sleep outlives the done flag of the call before.                      *)
(* Mutant: the flag is polled at once.                                       *)
AdcSlept_not == adcDrv.at = "sleep"

AdcSlept == adcDrv.at = "sleep" /\ adcDrv.ticks >= AdcSleepTicks

AdcWake ==
    /\ AdcSlept
    /\ adcDrv' = [adcDrv EXCEPT !.at = "poll"]
    /\ UNCHANGED <<adcCore, demo, printed, adcPatient>>

(* The loop ends with the poll that finds the flag, which also carries the   *)
(* data, or with the last one.                                               *)
AdcPoll ==
    /\ adcDrv.at = "poll"
    /\ adcCore.st = "st_03" \/ ~adcPatient
    /\ adcDrv' = [adcDrv EXCEPT !.at = "stop",
                                !.val = IF adcCore.st = "st_03" THEN adcCore.data ELSE None]
    /\ UNCHANGED <<adcCore, demo, printed, adcPatient>>

AdcStop ==
    /\ adcDrv.at = "stop"
    /\ adcCore' = Written(adcCore, FALSE, adcDrv.next)
    /\ adcDrv' = [adcDrv EXCEPT !.at = "back"]
    /\ UNCHANGED <<demo, printed, adcPatient>>

AdcDriver == Arm \/ Start \/ AdcWake \/ AdcPoll \/ AdcStop
-----------------------------------------------------------------------------
(* DEMO_ADC.  The first call asks for channel 0 and its result is dropped.   *)
AdcSelect ==
    /\ demo.at = "menu"
    /\ demo' = [at |-> "first", ch |-> 0, next |-> 0, key |-> FALSE]
    /\ AdcCall(0)
    /\ UNCHANGED <<adcCore, printed, adcPatient>>

(* Mutant: the wrap comes one channel late.                                  *)
Following_late(ch) == IF ch >= Channels THEN 0 ELSE ch + 1

Following(ch) == IF ch + 1 >= Channels THEN 0 ELSE ch + 1

(* The loop, until a key is pressed: ask for the next channel.               *)
(* Mutant: the loop does not look at the key flag.                           *)
AdcAgain_deaf ==
    /\ demo' = [demo EXCEPT !.at = "loop", !.ch = demo.next,
                            !.next = Following(@)]
    /\ AdcCall(Following(demo.next))

AdcAgain ==
    \/ /\ demo.key
       /\ demo' = [demo EXCEPT !.at = "menu"]
       /\ adcDrv' = [adcDrv EXCEPT !.at = "idle"]
    \/ /\ ~demo.key
       /\ demo' = [demo EXCEPT !.at = "loop", !.ch = demo.next,
                               !.next = Following(@)]
       /\ AdcCall(Following(demo.next))

FirstCall ==
    /\ demo.at = "first" /\ adcDrv.at = "back"
    /\ AdcAgain
    /\ UNCHANGED <<adcCore, printed, adcPatient>>

(* Print the value with ch, and only then let ch catch up.                   *)
(* Mutant: the value is printed with the channel it was asked with.          *)
Label_next == demo.next

Label == demo.ch

AdcShow ==
    /\ demo.at = "loop" /\ adcDrv.at = "back"
    /\ printed' = <<Label, adcDrv.val>>
    /\ AdcAgain
    /\ UNCHANGED <<adcCore, adcPatient>>

(* KEY_ISR.                                                                  *)
AdcPressKey ==
    /\ demo.at # "menu" /\ ~demo.key
    /\ demo' = [demo EXCEPT !.key = TRUE]
    /\ UNCHANGED <<adcCore, adcDrv, printed, adcPatient>>

Demo == FirstCall \/ AdcShow

AdcNext == AdcTick \/ AdcDriver \/ Demo \/ AdcSelect \/ AdcPressKey

AdcSpec == AdcInit /\ [][AdcNext]_adcVars

(* The controller's clock runs, and so does the processor.                   *)
AdcFairSpec == /\ AdcSpec
               /\ WF_adcVars(AdcTick) /\ WF_adcVars(AdcDriver) /\ WF_adcVars(Demo)
-----------------------------------------------------------------------------
(* Values.                                                                   *)
AdcTypeOK ==
    /\ adcCore \in [start : BOOLEAN, en : BOOLEAN,
                    st : {"st_00", "st_01", "st_02", "st_03"}, chan : Chan,
                    conv : Chan, read : Chan \union {None},
                    data : Chan \union {None}]
    /\ adcDrv \in [at : {"idle", "call", "start", "sleep", "poll", "stop", "back"},
                   next : Chan, ticks : 0 .. AdcSleepTicks, val : Chan \union {None}]
    /\ demo \in [at : {"menu", "first", "loop"}, ch : Chan, next : Chan,
                 key : BOOLEAN]

(* If the polls outlast a frame, the value printed beside a channel is a     *)
(* sample of that channel, from the first line on and however often the      *)
(* demonstration was left and entered (DEMO_ADC, ADC_Read): the one-call     *)
(* delay of the converter and the delayed ch cancel out.                     *)
LabelsTrue == adcPatient => printed[2] = printed[1]

(* A call then does not return before the frame it started is over           *)
(* (ADC_Read): the converter has been told the channel.                      *)
FrameOver ==
    adcPatient /\ adcDrv.at = "back" => adcCore.conv = adcDrv.next /\ ~adcCore.en

(* A key pressed while the demonstration runs ends it (DEMO_ADC), also with  *)
(* polls that give up.                                                       *)
AdcKeyEnds == demo.key ~> demo.at = "menu"

(* What ADC_Read returns is the sample DEMO_ADC takes it for, and it       *)
(* returns when its frame is over.                                         *)
SamplesTrue == LabelsTrue /\ FrameOver
=============================================================================
