------------------------------- MODULE BusySleep -------------------------------
(***************************************************************************)
(* usleep: a busy loop of three instructions' time a turn.  An int counts  *)
(* the turns, so that a long sleep is made of big loops of INT_MAX turns   *)
(* and a last one.  A loop that ends on "not zero" takes a whole word of   *)
(* turns when it is entered with zero.                                     *)
(***************************************************************************)
EXTENDS Integers

CONSTANTS
    SleepWord,  \* an alt_u32 is a number modulo this
    TurnsPerUs  \* ALT_CPU_FREQ / (cycles_per_loop * 1000000)

IntMax == SleepWord \div 2 - 1
ASSUME SleepAssumption == SleepWord \in Nat /\ TurnsPerUs \in 1..IntMax

VARIABLES
    sleepAsked,  \* the argument of usleep
    us,          \* what is left of it
    big,         \* big loops still to do; -1 when the last loop is done
    long,        \* was there a big loop
    turns        \* history: turns of all loops

sleepVars == <<sleepAsked, us, big, long, turns>>

BigLoopUs == IntMax \div TurnsPerUs
SleepInit == /\ sleepAsked \in 0..(SleepWord - 1) /\ us = sleepAsked /\ turns = 0
             /\ big = sleepAsked \div BigLoopUs /\ long = (big > 0)
-----------------------------------------------------------------------------
(* "addi %0,%0,-1; bne %0,zero": the turns of a loop entered with n; with  *)
(* "bgt" n is an int and a loop takes one turn at least.                   *)
UntilZero(n) == IF n = 0 THEN SleepWord ELSE n
WhilePositive(n) == IF n \in 1..IntMax THEN n ELSE 1

(* The register of the constant INT_MAX is only an input to the assembly,  *)
(* which counts it down: the compiler may enter a later big loop with what *)
(* is left of it, zero.                                                    *)
BigLoopEntry == {IntMax} \union IF us # sleepAsked THEN {0} ELSE {}
BigLoop == /\ big > 0 /\ big' = big - 1 /\ us' = us - BigLoopUs
           /\ \E n \in BigLoopEntry : turns' = turns + UntilZero(n)
           /\ UNCHANGED <<sleepAsked, long>>

(* The turns of the rest, an alt_u32.  The first is a mutant: one turn a   *)
(* microsecond.                                                            *)
Rest_unscaled == us
Rest == (us * TurnsPerUs) % SleepWord
LastLoop == /\ big = 0 /\ big' = -1
            /\ turns' = turns + IF long THEN UntilZero(Rest) ELSE WhilePositive(Rest)
            /\ UNCHANGED <<sleepAsked, us, long>>

Returned == big = -1 /\ UNCHANGED sleepVars

SleepNext == BigLoop \/ LastLoop \/ Returned
SleepSpec == SleepInit /\ [][SleepNext]_sleepVars
-----------------------------------------------------------------------------
(* For every argument: no sleep is cut short by the split into loops or by *)
(* a product that overflows, the loops of a sleep lose nothing.            *)
SleepsEnough == big = -1 => turns >= sleepAsked * TurnsPerUs
=============================================================================
