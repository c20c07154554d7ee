-------------------------------- MODULE Ledpwm --------------------------------
(* The breathing LED: a counter gives a brightness that falls and rises    *)
(* again, and an accumulator lights the upper four LEDs on each carry, the *)
(* lower four otherwise.  All registers step on CLK50M; RESET_N clears     *)
(* them at any time.                                                       *)
EXTENDS Integers

CONSTANTS
    Steps,       \* brightness steps (64)
    Hold,        \* clocks for which a step is held (2^20)
    MaxResets    \* bound: resets

ASSUME LedAssumption == {Steps, Hold, MaxResets} \subseteq Nat \ {0}

VARIABLES
    RESET_N,
    r_counter, r_pwm_adj, r_pwm_width,
    LED,         \* LED[7:4] lit; LED[3:0] are their complement but in reset
    owed,        \* history: light asked for since the reset and not yet shown
    resets       \* history: resets so far

ledVars == <<RESET_N, r_counter, r_pwm_adj, r_pwm_width, LED, owed, resets>>
-----------------------------------------------------------------------------
(* Bits 25:20 of the counter, and bit 26.                                  *)
Step == (r_counter \div Hold) % Steps
Rising == r_counter >= Steps * Hold

(* The brightness.  The first is a mutant: a saw tooth.                    *)
Brightness_saw == Step
Brightness == IF Rising THEN Step ELSE Steps - 1 - Step

(* What the accumulator keeps.  The first is a mutant: one bit too many.   *)
Kept_all == r_pwm_width % (2 * Steps)
Kept == r_pwm_width % Steps

(* The counter wraps.  The first is a mutant: it stops.                    *)
Counted_stop ==
    IF r_counter = 2 * Steps * Hold - 1 THEN r_counter ELSE r_counter + 1
Counted == (r_counter + 1) % (2 * Steps * Hold)

(* A carry.  The first is a mutant: past a full step only.                 *)
Lit_late(width) == width > Steps
Lit(width) == width >= Steps
Clock ==
    /\ RESET_N
    /\ r_counter' = Counted
    /\ r_pwm_adj' = Brightness
    /\ r_pwm_width' = Kept + r_pwm_adj
    /\ LED' = Lit(r_pwm_width)
    /\ owed' = owed + r_pwm_adj - (IF LED' THEN Steps ELSE 0)
    /\ UNCHANGED <<RESET_N, resets>>

LedCleared ==
    /\ r_counter' = 0 /\ r_pwm_adj' = 0 /\ r_pwm_width' = 0
    /\ LED' = FALSE /\ owed' = 0
Reset ==
    /\ RESET_N /\ resets < MaxResets /\ resets' = resets + 1
    /\ RESET_N' = FALSE /\ LedCleared
ResetRelease ==
    /\ ~RESET_N /\ RESET_N' = TRUE
    /\ UNCHANGED <<r_counter, r_pwm_adj, r_pwm_width, LED, owed, resets>>

LedInit ==
    /\ RESET_N = FALSE /\ r_counter = 0 /\ r_pwm_adj = 0 /\ r_pwm_width = 0
    /\ LED = FALSE /\ owed = 0 /\ resets = 0
LedNext == Clock \/ Reset \/ ResetRelease
LedSpec == LedInit /\ [][LedNext]_ledVars

LedFairSpec == LedSpec /\ WF_ledVars(Clock) /\ WF_ledVars(ResetRelease)
-----------------------------------------------------------------------------
LedTypeOK ==
    /\ r_counter \in 0..(2 * Steps * Hold - 1) /\ r_pwm_adj \in 0..(Steps - 1)
    /\ r_pwm_width \in 0..(2 * Steps - 1) /\ resets \in 0..MaxResets

(* No light is lost or added: over any time, however the brightness moves, *)
(* what the LEDs showed is what was asked for but for the two clocks under *)
(* way.                                                                    *)
LightTrue == owed \in 0..(2 * Steps - 2)

(* The brightness moves one step at a time, also where it turns and where  *)
(* the counter wraps; only the first after a reset jumps up from dark.     *)
Smooth ==
    [][Clock /\ r_counter # 0 =>
         r_pwm_adj' \in {r_pwm_adj - 1, r_pwm_adj, r_pwm_adj + 1}]_ledVars

(* The LEDs keep breathing between dark and bright.                        *)
Breathes == /\ r_pwm_adj = Steps - 1 ~> r_pwm_adj = 0
            /\ RESET_N /\ r_pwm_adj = 0 ~> r_pwm_adj = Steps - 1

(* The LEDs show the brightness, and it has no jumps.                      *)
LedTrue == Smooth /\ []LightTrue
=============================================================================
