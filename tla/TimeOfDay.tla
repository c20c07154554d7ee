------------------------------- MODULE TimeOfDay -------------------------------
(***************************************************************************)
(* gettimeofday and settimeofday on the tick counter.  What was set is     *)
(* kept as the time of tick 0, alt_resettime, computed back from the       *)
(* present tick; its microseconds may be negative.  The tick interrupt     *)
(* comes between any two steps; each call reads the counter once.          *)
(* US, Rate and Word stand for 1000000, 1000 and 2^32.                     *)
(***************************************************************************)
EXTENDS Integers

CONSTANTS
    US,        \* ALT_US, microseconds in a second
    Rate,      \* alt_ticks_per_second once the timer runs
    TimeWord,  \* an alt_u32 is a number modulo this
    MaxTicks,  \* bound: the run ends at this tick
    SetSecs    \* bound: the seconds settimeofday is called with

ASSUME TimeAssumption ==
    /\ US \in Nat \ {0} /\ Rate \in 1..US /\ US % Rate = 0
    /\ TimeWord \in Nat /\ MaxTicks \in 0..(TimeWord - 1) /\ SetSecs \subseteq Nat

VARIABLES
    tickRate,   \* _alt_tick_rate: 0 until the timer is initialised
    timeTicks,  \* _alt_nticks
    reset,      \* alt_resettime: [sec, usec]
    timeCall,   \* the call in progress: [op, ticks, t]
    timeGot,    \* what gettimeofday has just stored, in a set of one
    timeAsked   \* history: the last settimeofday, [when, micros]

timeVars == <<tickRate, timeTicks, reset, timeCall, timeGot, timeAsked>>

Time == [sec : Int, usec : Int]
Micros(t) == t.sec * US + t.usec
TimeIdle == [op |-> "none", ticks |-> 0, t |-> [sec |-> 0, usec |-> 0]]
PerTick == US \div Rate

TimeInit == /\ tickRate = 0 /\ timeTicks = 0 /\ reset = [sec |-> 0, usec |-> 0]
            /\ timeCall = TimeIdle /\ timeGot = {}
            /\ timeAsked = [when |-> 0, micros |-> 0]

TimerInit == /\ tickRate = 0 /\ tickRate' = Rate
             /\ UNCHANGED <<timeTicks, reset, timeCall, timeGot, timeAsked>>

TimeTick == /\ tickRate # 0 /\ timeTicks < MaxTicks
            /\ timeTicks' = timeTicks + 1 /\ timeGot' = {}
            /\ UNCHANGED <<tickRate, reset, timeCall, timeAsked>>
-----------------------------------------------------------------------------
(* Both calls read the counter, then compute.  Without a running clock     *)
(* they return an error and change nothing.                                *)
TimeBegin(op, t) ==
    /\ timeCall.op = "none" /\ tickRate # 0
    /\ timeCall' = [op |-> op, ticks |-> timeTicks, t |-> t]
    /\ timeGot' = {}
    /\ timeAsked' = IF op = "set" THEN [when |-> timeTicks, micros |-> Micros(t)] ELSE timeAsked
    /\ UNCHANGED <<tickRate, timeTicks, reset>>

(* settimeofday: the product of ticks and microseconds is an alt_u32.  The *)
(* first is a mutant: the microseconds of the ticks are left in.           *)
ResetTime_whole(t, n) == [sec |-> t.sec - n \div tickRate, usec |-> t.usec]
ResetTime(t, n) == [sec  |-> t.sec - n \div tickRate,
                    usec |-> t.usec - (((n * PerTick) % TimeWord) % US)]
SetTimeOfDay == /\ timeCall.op = "set" /\ reset' = ResetTime(timeCall.t, timeCall.ticks)
                /\ timeCall' = TimeIdle /\ timeGot' = {}
                /\ UNCHANGED <<tickRate, timeTicks, timeAsked>>

(* gettimeofday: the product is an alt_u64; microseconds outside a second  *)
(* are carried.  The first is a mutant: a negative sum is not.             *)
Carried_up(t) == IF t.usec >= US THEN [sec |-> t.sec + 1, usec |-> t.usec - US] ELSE t
Carried(t) ==
    CASE t.usec < 0 /\ t.sec <= 0 -> [sec |-> 0, usec |-> 0]
      [] t.usec < 0 /\ t.sec > 0  -> [sec |-> t.sec - 1, usec |-> t.usec + US]
      [] t.usec >= US             -> [sec |-> t.sec + 1, usec |-> t.usec - US]
      [] OTHER                    -> t
Now(n) == Carried([sec  |-> reset.sec + n \div tickRate,
                   usec |-> reset.usec + ((n * PerTick) % US)])
GetTimeOfDay == /\ timeCall.op = "get" /\ timeGot' = {Now(timeCall.ticks)}
                /\ timeCall' = [TimeIdle EXCEPT !.ticks = timeCall.ticks]
                /\ UNCHANGED <<tickRate, timeTicks, reset, timeAsked>>

TimeNext == \/ TimerInit \/ TimeTick \/ SetTimeOfDay \/ GetTimeOfDay
            \/ TimeBegin("get", TimeIdle.t)
            \/ \E s \in SetSecs, u \in 0..(US - 1) : TimeBegin("set", [sec |-> s, usec |-> u])

TimeSpec == TimeInit /\ [][TimeNext]_timeVars
-----------------------------------------------------------------------------
TimeTypeOK ==
    /\ tickRate \in {0, Rate} /\ timeTicks \in 0..MaxTicks
    /\ reset.sec \in Int /\ reset.usec \in (1 - US)..(US - 1)
    /\ timeCall.op \in {"none", "set", "get"} /\ timeCall.ticks \in 0..MaxTicks
    /\ \A t \in timeGot : t.sec \in Nat /\ t.usec \in 0..(US - 1)

(* gettimeofday shows the time that was set and the ticks since then, from *)
(* the tick at which one call read the counter to that of the other,       *)
(* whichever second, carry or borrow lies between.                         *)
ShowsTrueTime ==
    \A t \in timeGot : Micros(t) = timeAsked.micros + (timeCall.ticks - timeAsked.when) * PerTick
=============================================================================
