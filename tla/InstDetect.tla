------------------------------ MODULE InstDetect ------------------------------
(***************************************************************************)
(* What the front end of the detector promises, with no clocks and no      *)
(* registers: the master clocks bits of frames; a frame that has become a  *)
(* complete instruction of class c, with its page inside the window of c,  *)
(* may raise the trigger of c, once; a raised trigger falls again before   *)
(* the next frame begins.  A frame that a reset cut is broken, and the     *)
(* triggers are then only known to be those of one class.                  *)
(***************************************************************************)
EXTENDS PtmchBits

CONSTANTS InstLen, Channels, Windows, ResetWindows,
          Match(_, _, _)     \* Match(word, c, windows)

VARIABLES frame,     \* the bits of the frame, the first InstLen of them
          whole,     \* FALSE: a reset cut this frame
          windows,   \* the address windows in force
          fired,     \* this frame has raised its trigger
          trigger    \* the triggers that are up

vars == <<frame, whole, windows, fired, trigger>>

Init == /\ frame = <<>> /\ whole = FALSE /\ windows = ResetWindows
        /\ fired = FALSE /\ trigger = {}

(* The first bit of a frame: whatever the last one raised is down by now.  *)
Begin(b) ==
    /\ trigger = {}
    /\ frame' = <<b>> /\ whole' = TRUE /\ fired' = FALSE
    /\ UNCHANGED <<windows, trigger>>

NextBit(b) ==
    /\ whole /\ Len(frame) < InstLen
    /\ frame' = Append(frame, b)
    /\ UNCHANGED <<whole, windows, fired, trigger>>

Raise(c) ==
    /\ whole /\ ~fired /\ trigger = {}
    /\ Len(frame) = InstLen /\ Match(Received(frame, InstLen), c, windows)
    /\ trigger' = {c} /\ fired' = TRUE
    /\ UNCHANGED <<frame, whole, windows>>

Lower ==
    /\ trigger # {} /\ trigger' = {}
    /\ UNCHANGED <<frame, whole, windows, fired>>

(* The registers are programmed before the first frame after a reset;      *)
(* nothing is then known yet of the triggers.                              *)
Program ==
    /\ frame = <<>> /\ windows' \in Windows
    /\ trigger' \in {{}} \union {{c} : c \in Channels}
    /\ UNCHANGED <<frame, whole, fired>>

Cut ==
    /\ frame' = <<>> /\ whole' = FALSE /\ windows' = ResetWindows
    /\ fired' = FALSE /\ trigger' = {}

(* While the frame on the bus is a cut one, nothing is said of which       *)
(* instruction a trigger answers.                                          *)
Stray(c) ==
    /\ ~whole /\ trigger = {}
    /\ trigger' = {c}
    /\ UNCHANGED <<frame, whole, windows, fired>>

Next == \/ \E b \in Bit : Begin(b) \/ NextBit(b)
        \/ \E c \in Channels : Raise(c) \/ Stray(c)
        \/ Lower \/ Program \/ Cut

Spec == Init /\ [][Next]_vars
=============================================================================
