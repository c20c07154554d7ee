------------------------------ MODULE MC_Demos -------------------------------
(* The components of the demonstrations, checked side by side.  They share *)
(* no state here, and only the one named by part moves, so that the states *)
(* are the sum and not the product of theirs; what an idle one could begin *)
(* with is fixed.                                                          *)
EXTENDS DemoMenu, AdcRead, ThreeWire, SpiCommand, IrqDispatch, Ledpwm

VARIABLE part  \* the component this behaviour is about

MCMonitors == {0, 1}
MCHabits == {{"nest"}, {"change"}}

Parts == {"menu", "adc", "wire", "spi", "irq", "led"}

allVars == <<part, menuVars, adcVars, wireVars, spiVars, irqVars, ledVars>>

Init ==
    /\ MenuInit /\ AdcInit /\ WireInit /\ SpiInit /\ IrqInit /\ LedInit
    /\ part \in Parts
    /\ part # "menu" => menu.sel = 0
    /\ part # "adc" => adcPatient
    /\ part # "wire" => wirePatient
    /\ part # "spi" => rx = <<>>
    /\ part # "irq" => /\ habits = {"nest"}
                         /\ table[0].context = CHOOSE c \in Contexts : TRUE

(* A step of one component leaves the others alone.                        *)
MenuStep(A) ==
    /\ part = "menu" /\ A
    /\ UNCHANGED <<part, adcVars, wireVars, spiVars, irqVars, ledVars>>

AdcStep(A) ==
    /\ part = "adc" /\ A
    /\ UNCHANGED <<part, menuVars, wireVars, spiVars, irqVars, ledVars>>

WireStep(A) ==
    /\ part = "wire" /\ A
    /\ UNCHANGED <<part, menuVars, adcVars, spiVars, irqVars, ledVars>>

SpiStep(A) ==
    /\ part = "spi" /\ A
    /\ UNCHANGED <<part, menuVars, adcVars, wireVars, irqVars, ledVars>>

IrqStep(A) ==
    /\ part = "irq" /\ A
    /\ UNCHANGED <<part, menuVars, adcVars, wireVars, spiVars, ledVars>>

LedStep(A) ==
    /\ part = "led" /\ A
    /\ UNCHANGED <<part, menuVars, adcVars, wireVars, spiVars, irqVars>>

Next == \/ MenuStep(MenuNext) \/ AdcStep(AdcNext) \/ WireStep(WireNext)
        \/ SpiStep(SpiNext) \/ IrqStep(IrqNext) \/ LedStep(LedNext)

(* The fairness of each component, for the one that moves.                 *)
Fairness ==
    /\ WF_allVars(MenuStep(KeyIsr))
    /\ SF_allVars(MenuStep(Main /\ menu.at = "loop"))
    /\ WF_allVars(AdcStep(AdcTick))
    /\ WF_allVars(AdcStep(AdcDriver))
    /\ WF_allVars(AdcStep(Demo))
    /\ WF_allVars(WireStep(WireTick))
    /\ WF_allVars(WireStep(WireDriver))
    /\ WF_allVars(WireStep(Client))
    /\ WF_allVars(SpiStep(SpiPoll \/ Send \/ Receive \/ Finish))
    /\ WF_allVars(SpiStep(Load \/ Shifted))
    /\ WF_allVars(IrqStep(Exception))
    /\ WF_allVars(IrqStep(Pass))
    /\ WF_allVars(IrqStep(Acknowledge))
    /\ WF_allVars(IrqStep(NonInterruptible))
    /\ WF_allVars(IrqStep(IrqReturn))
    /\ WF_allVars(IrqStep(StoreHandler \/ StoreContext \/ EnableIrq \/ Restore))
    /\ WF_allVars(LedStep(Clock))
    /\ WF_allVars(LedStep(ResetRelease))

Spec == Init /\ [][Next]_allVars /\ Fairness

-----------------------------------------------------------------------------
(* The variables of every component keep to their types.                   *)
DemosTypeOK == /\ MenuTypeOK /\ AdcTypeOK /\ WireTypeOK
               /\ SpiTypeOK /\ IrqTypeOK /\ LedTypeOK

(* Nothing in the demonstrations waits for ever: a key pressed ends the    *)
(* demonstration that runs (menu, DEMO_ADC, DEMO_ACCELEROMETER), every     *)
(* call on a controller returns, every request is served, the LEDs go on.  *)
DemosLive == /\ PressEnds /\ AdcKeyEnds /\ WireKeyEnds
             /\ CallEnds /\ CommandReturns /\ Served /\ Breathes
=============================================================================
