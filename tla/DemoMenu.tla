------------------------------ MODULE DemoMenu -------------------------------
(* The main loop of the board's demonstrations and the push buttons that end *)
(* them: menu, scanf, the demonstration chosen, the edge capture register of *)
(* the key port and its interrupt routine, which cuts in between any two     *)
(* steps of the loop.                                                        *)
EXTENDS Integers, FiniteSets

CONSTANTS Keys,      \* the push buttons
          Tests,     \* number of entries of szTestList
          Monitors,  \* entries that run until a key is pressed
          MaxInt     \* largest int: sel wraps beyond it

ASSUME MenuAssumption == /\ Tests \in Nat \ {0} /\ Monitors \subseteq 0 .. (Tests - 1)
                         /\ MaxInt \in Nat /\ MaxInt > Tests

VARIABLES menu,     \* where main is, sel and the demonstration under way
          stdin,    \* the token typed and not yet consumed
          port,     \* the key port: interrupt mask, captured edges, routine known
          isr,      \* where KEY_ISR is
          flag,     \* bKeyPressed
          pressed   \* history: a key went down while the monitor ran

menuVars == <<menu, stdin, port, isr, flag, pressed>>

IntRange == (-MaxInt - 1) .. MaxInt
Nothing == [kind |-> "none", n |-> 0]
Letter == [kind |-> "letter", n |-> 0]  \* what "%d" does not match
Number(n) == [kind |-> "number", n |-> n]

(* sel is not initialised.                                                   *)
MenuInit ==
    /\ \E n \in IntRange : menu = [at |-> "mask", sel |-> n, run |-> 0]
    /\ stdin = Nothing
    /\ port = [mask |-> FALSE, edges |-> {}, known |-> FALSE]
    /\ isr = "off"
    /\ flag = FALSE
    /\ pressed = FALSE
-----------------------------------------------------------------------------
(* The buttons.  The captured edges interrupt main once the routine is known *)
(* to the dispatcher; any write to the register clears all of them.          *)
Press ==
    /\ \E k \in Keys \ port.edges : port' = [port EXCEPT !.edges = @ \union {k}]
    /\ pressed' = (pressed \/ menu.at = "loop")
    /\ UNCHANGED <<menu, stdin, isr, flag>>

KeyPending == port.mask /\ port.known /\ port.edges # {}

Enter ==
    /\ isr = "off" /\ KeyPending
    /\ isr' = "flag"
    /\ UNCHANGED <<menu, stdin, port, flag, pressed>>

SetFlag ==
    /\ isr = "flag"
    /\ flag' = TRUE
    /\ isr' = "clear"
    /\ UNCHANGED <<menu, stdin, port, pressed>>

ClearEdges ==
    /\ isr = "clear"
    /\ port' = [port EXCEPT !.edges = {}]
    /\ isr' = "off"
    /\ UNCHANGED <<menu, stdin, flag, pressed>>

KeyIsr == Enter \/ SetFlag \/ ClearEdges
-----------------------------------------------------------------------------
(* EnableKeyInterrupt.                                                       *)
EnableMask ==
    /\ menu.at = "mask"
    /\ port' = [port EXCEPT !.mask = TRUE]
    /\ menu' = [menu EXCEPT !.at = "capture"]
    /\ UNCHANGED <<stdin, flag, pressed>>

ClearCapture ==
    /\ menu.at = "capture"
    /\ port' = [port EXCEPT !.edges = {}]
    /\ menu' = [menu EXCEPT !.at = "register"]
    /\ flag' = FALSE
    /\ UNCHANGED <<stdin, pressed>>

RegisterIsr ==
    /\ menu.at = "register"
    /\ port' = [port EXCEPT !.known = TRUE]
    /\ menu' = [menu EXCEPT !.at = "ask"]
    /\ UNCHANGED <<stdin, flag, pressed>>

(* scanf: a number is consumed; what is not a number stays where it is, and  *)
(* sel keeps its value.                                                      *)
Scan ==
    /\ menu.at = "ask" /\ stdin # Nothing
    /\ IF stdin.kind = "number"
         THEN /\ menu' = [menu EXCEPT !.at = "check", !.sel = stdin.n]
              /\ stdin' = Nothing
         ELSE /\ menu' = [menu EXCEPT !.at = "check"]
              /\ UNCHANGED stdin
    /\ UNCHANGED <<port, flag, pressed>>

(* Mutant: the entry after the last one is let through.                      *)
Valid_last(n) == n >= 0 /\ n <= Tests

Valid(n) == n >= 0 /\ n < Tests

Choose ==
    /\ menu.at = "check" /\ Valid(menu.sel)
    /\ menu' = [menu EXCEPT !.at = "show", !.run = menu.sel]
    /\ flag' = FALSE
    /\ UNCHANGED <<stdin, port, pressed>>

(* sel++ at the end of every pass.                                           *)
Bumped(n) == IF n = MaxInt THEN -MaxInt - 1 ELSE n + 1

Invalid ==
    /\ menu.at = "check" /\ ~Valid(menu.sel)
    /\ menu' = [menu EXCEPT !.at = "ask", !.sel = Bumped(@)]
    /\ UNCHANGED <<stdin, port, flag, pressed>>

(* The demonstration begins; a monitor says how to end it.                   *)
(* Mutant: the monitor's loop resets the key flag.                           *)
Prompt_reset ==
    /\ menu.at \in {"show", "loop"} /\ menu.run \in Monitors
    /\ menu' = [menu EXCEPT !.at = "loop"]
    /\ flag' = FALSE
    /\ UNCHANGED <<stdin, port, pressed>>

Prompt ==
    /\ menu.at = "show" /\ menu.run \in Monitors
    /\ menu' = [menu EXCEPT !.at = "loop"]
    /\ UNCHANGED <<stdin, port, flag, pressed>>

Back == [menu EXCEPT !.at = "ask", !.sel = Bumped(@)]

(* A monitor ends with a key, or, the accelerometer's, with an error;        *)
(* the others end by themselves.                                             *)
(* Mutant: only the error ends the loop.                                     *)
EndMonitor_deaf ==
    /\ menu.at = "loop"
    /\ menu.run = 0 /\ ~flag
    /\ menu' = Back
    /\ pressed' = FALSE
    /\ UNCHANGED <<stdin, port, flag>>

EndMonitor ==
    /\ menu.at = "loop"
    /\ flag \/ menu.run = 0
    /\ menu' = Back
    /\ pressed' = FALSE
    /\ UNCHANGED <<stdin, port, flag>>

EndOther ==
    /\ menu.at = "show" /\ menu.run \notin Monitors
    /\ menu' = Back
    /\ UNCHANGED <<stdin, port, flag, pressed>>

Main ==
    /\ isr = "off"
    /\ \/ EnableMask \/ ClearCapture \/ RegisterIsr
       \/ Scan \/ Choose \/ Invalid \/ Prompt \/ EndMonitor \/ EndOther
    /\ UNCHANGED isr

(* The user.                                                                 *)
Type ==
    /\ stdin = Nothing
    /\ stdin' \in {Letter} \union {Number(n) : n \in -1 .. Tests}
    /\ UNCHANGED <<menu, port, isr, flag, pressed>>

MenuNext == Press \/ KeyIsr \/ Main \/ Type

MenuSpec == MenuInit /\ [][MenuNext]_menuVars

(* The processor runs, in the routine and in main.                           *)
MenuFairSpec == MenuSpec /\ WF_menuVars(KeyIsr) /\ SF_menuVars(Main /\ menu.at = "loop")
-----------------------------------------------------------------------------
(* Values.                                                                   *)
MenuTypeOK ==
    /\ menu \in [at : {"mask", "capture", "register", "ask", "check", "show",
                       "loop"},
                 sel : IntRange, run : 0 .. (Tests - 1)]
    /\ stdin.kind \in {"none", "letter", "number"}
    /\ stdin.kind = "number" => stdin.n \in IntRange
    /\ port \in [mask : BOOLEAN, edges : SUBSET Keys, known : BOOLEAN]
    /\ isr \in {"off", "flag", "clear"}
    /\ flag \in BOOLEAN /\ pressed \in BOOLEAN

(* An edge that was captured while a monitor ran is not lost to the write    *)
(* that clears all edges (KEY_ISR): until the monitor ends, it is still      *)
(* captured, or the flag is set.                                             *)
PressKept == pressed => flag \/ (port.edges # {} /\ KeyPending) \/ isr = "flag"

(* "Press KEY0 or KEY1 to terminal the monitor process" (DEMO_ACCELEROMETER, *)
(* DEMO_ADC): a key pressed while a monitor runs ends it.                    *)
PressEnds == pressed ~> ~pressed
=============================================================================
