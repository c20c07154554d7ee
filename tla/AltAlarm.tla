-------------------------------- MODULE AltAlarm --------------------------------
(***************************************************************************)
(* The system clock of the HAL: the tick counter, the doubly linked list   *)
(* of alarms, and alt_tick, which the timer interrupt runs.  An alarm that *)
(* is asked for across the wrap of the counter carries a rollover flag.    *)
(*                                                                         *)
(* alt_alarm_start and alt_alarm_stop are one step each (interrupts are    *)
(* disabled); so is the visit of one alarm in alt_tick, with its callback. *)
(* A callback may start or stop alarms; what it asks for next, and which   *)
(* alarms it stops or starts, is not known here, except that it does not   *)
(* stop the alarm whose turn is next: alt_tick keeps its address.  An      *)
(* alarm is never started while it is already in the list.                 *)
(***************************************************************************)
EXTENDS Integers, SequencesExt

CONSTANTS
    Alarms,     \* the alt_alarm structures
    ListHead,   \* alt_alarm_list, the list's head element
    NoAlarm,    \* no alarm
    TickMod,    \* _alt_nticks is a counter modulo this; 2^32
    Intervals,  \* bound: the values of nticks given to alt_alarm_start
    Returns     \* bound: the values a callback returns

ASSUME AlarmAssumption ==
    /\ ListHead \notin Alarms /\ NoAlarm \notin Alarms \union {ListHead}
    /\ TickMod \in Nat /\ TickMod > 1
    /\ Intervals \subseteq 0..(TickMod - 1) /\ Returns \subseteq 0..(TickMod - 1)

VARIABLES
    alarmTicks,      \* _alt_nticks
    links,           \* links[e].next, links[e].prev of the list
    time, rollover,  \* of each alarm
    alarmAt,         \* where alt_tick's walk is; NoAlarm outside alt_tick
    due,             \* history: ticks until the callback that was asked for
    running,         \* history: the alarms started and not stopped or expired
    fired            \* the alarm whose callback ran in the last step, or NoAlarm

alarm == <<links, time, rollover>>
alarmVars == <<alarmTicks, alarm, alarmAt, due, running, fired>>

Elements == Alarms \union {ListHead}
Wrap(t) == t % TickMod
-----------------------------------------------------------------------------
(* alt_llist_insert puts e right behind the head.                          *)
Inserted(l, e) ==
    LET first == l[ListHead].next
        one == [l EXCEPT ![e] = [next |-> first, prev |-> ListHead]]
        two == [one EXCEPT ![first].prev = e]
    IN [two EXCEPT ![ListHead].next = e]

(* alt_llist_remove leaves e pointing to itself, so that a second removal  *)
(* is harmless.  The first is a mutant: e keeps its links.                 *)
Removed_linked(l, e) ==
    LET one == [l EXCEPT ![l[e].next].prev = l[e].prev]
    IN [one EXCEPT ![one[e].prev].next = one[e].next]
Removed(l, e) ==
    LET one == [l EXCEPT ![l[e].next].prev = l[e].prev]
        two == [one EXCEPT ![one[e].prev].next = one[e].next]
    IN [two EXCEPT ![e] = [next |-> e, prev |-> e]]

(* alt_alarm_start: time and rollover.  The callback comes nticks whole    *)
(* periods later, at the tick after them.  The first is a mutant: no wrap. *)
StartTime_wide(interval) == interval + alarmTicks + 1
StartTime(interval) == Wrap(interval + alarmTicks + 1)

Started(a, interval) ==
    /\ time' = [time EXCEPT ![a] = StartTime(interval)]
    /\ rollover' = [rollover EXCEPT ![a] = StartTime(interval) < alarmTicks]
    /\ links' = Inserted(links, a)
    /\ due' = [due EXCEPT ![a] = interval + 1]
    /\ running' = running \union {a}

AlarmInit ==
    /\ alarmTicks = 0
    /\ links = [e \in Elements |-> IF e = ListHead THEN [next |-> e, prev |-> e]
                                   ELSE [next |-> NoAlarm, prev |-> NoAlarm]]
    /\ time = [a \in Alarms |-> 0] /\ rollover = [a \in Alarms |-> FALSE]
    /\ alarmAt = NoAlarm /\ due = [a \in Alarms |-> 0] /\ running = {} /\ fired = NoAlarm

AlarmStart(a, interval) ==
    /\ alarmAt = NoAlarm /\ a \notin running
    /\ Started(a, interval) /\ fired' = NoAlarm
    /\ UNCHANGED <<alarmTicks, alarmAt>>

(* Stopping an alarm that has run out already is allowed, stopping one     *)
(* that never was started is not: its links are null.                      *)
AlarmStop(a) ==
    /\ alarmAt = NoAlarm /\ links[a].next # NoAlarm
    /\ links' = Removed(links, a)
    /\ running' = running \ {a} /\ due' = [due EXCEPT ![a] = 0] /\ fired' = NoAlarm
    /\ UNCHANGED <<alarmTicks, time, rollover, alarmAt>>

(* alt_avalon_timer_sc_irq, once a period: the head of alt_tick.           *)
TickBegin ==
    /\ alarmAt = NoAlarm /\ alarmAt' = links[ListHead].next
    /\ alarmTicks' = Wrap(alarmTicks + 1)
    /\ due' = [a \in Alarms |-> IF a \in running THEN due[a] - 1 ELSE 0]
    /\ fired' = NoAlarm
    /\ UNCHANGED <<alarm, running>>

(* Clearing the flag: the tick that wraps the counter.  The first is a     *)
(* mutant: the flag stays.                                                 *)
StillRollover_stuck(a) == rollover[a]
StillRollover(a) == rollover[a] /\ alarmTicks # 0
Expired(a) == time[a] <= alarmTicks /\ ~StillRollover(a)

(* The walk has read the link of the alarm before it calls the callback.   *)
PassBy ==
    /\ alarmAt \in Alarms /\ ~Expired(alarmAt)
    /\ alarmAt' = links[alarmAt].next
    /\ rollover' = [rollover EXCEPT ![alarmAt] = StillRollover(alarmAt)]
    /\ fired' = NoAlarm
    /\ UNCHANGED <<alarmTicks, links, time, due, running>>

(* What a callback may do to the list before it returns.                   *)
Effects == [kind : {"none"}, alarm : {NoAlarm}, interval : {0}]
             \union [kind : {"stop"}, alarm : Alarms, interval : {0}]
             \union [kind : {"start"}, alarm : Alarms, interval : Intervals]
Allowed(e) ==
    /\ e.kind = "start" => e.alarm \notin running
    /\ e.kind = "stop" => /\ links[e.alarm].next # NoAlarm
                          /\ e.alarm # links[alarmAt].next

(* Rearming: the new time of a callback that returned r, and its rollover. *)
(* The first is a mutant: the rollover is not marked.                      *)
RearmRollover_unmarked(t) == FALSE
RearmRollover(t) == t < alarmTicks

(* The alarm has expired: its callback runs, with its effect, and returns  *)
(* r; zero takes the alarm out of the list.  The walk goes on with the     *)
(* link that was read before the callback.                                 *)
Callback(e, r) ==
    /\ alarmAt \in Alarms /\ Expired(alarmAt) /\ Allowed(e)
    /\ fired' = alarmAt
    /\ LET b == e.alarm
           stopped == (IF e.kind = "stop" THEN {b} ELSE {})
                        \union (IF r = 0 THEN {alarmAt} ELSE {})
           started == IF e.kind = "start" THEN {b} ELSE {}
           edited == CASE e.kind = "stop" -> Removed(links, b)
                       [] e.kind = "start" -> Inserted(links, b)
                       [] OTHER -> links
           next == Wrap(time[alarmAt] + r)
       IN /\ links' = IF r = 0 THEN Removed(edited, alarmAt) ELSE edited
          /\ alarmAt' = links[alarmAt].next
          /\ running' = (running \union started) \ stopped
          /\ due' = [a \in Alarms |->
                       IF a \notin running' THEN 0
                       ELSE IF a = alarmAt THEN r
                       ELSE IF a \in started THEN e.interval + 1
                       ELSE due[a]]
          /\ time' = [a \in Alarms |-> IF a = alarmAt /\ r # 0 THEN next
                                       ELSE IF a \in started THEN StartTime(e.interval)
                                       ELSE time[a]]
          /\ rollover' = [a \in Alarms |->
                            IF a = alarmAt THEN r # 0 /\ RearmRollover(next)
                            ELSE IF a \in started THEN StartTime(e.interval) < alarmTicks
                            ELSE rollover[a]]
    /\ UNCHANGED alarmTicks

TickEnd ==
    /\ alarmAt = ListHead /\ alarmAt' = NoAlarm /\ fired' = NoAlarm
    /\ UNCHANGED <<alarmTicks, alarm, due, running>>

AlarmTick == PassBy \/ TickEnd \/ \E e \in Effects, r \in Returns : Callback(e, r)

AlarmNext == \/ \E a \in Alarms : AlarmStop(a) \/ \E i \in Intervals : AlarmStart(a, i)
             \/ TickBegin \/ AlarmTick

AlarmSpec == AlarmInit /\ [][AlarmNext]_alarmVars
-----------------------------------------------------------------------------
(* An interval of a whole turn of the counter leads back to the present    *)
(* tick, which the rollover does not mark.                                 *)
IntervalsAssumed == TickMod - 1 \notin Intervals

AlarmTypeOK ==
    /\ alarmTicks \in 0..(TickMod - 1)
    /\ links \in [Elements -> [next : Elements \union {NoAlarm}, prev : Elements \union {NoAlarm}]]
    /\ time \in [Alarms -> 0..(TickMod - 1)] /\ rollover \in [Alarms -> BOOLEAN]
    /\ alarmAt \in Elements \union {NoAlarm} /\ fired \in Alarms \union {NoAlarm}
    /\ due \in [Alarms -> 0..TickMod] /\ running \subseteq Alarms

(* The elements of q, in this order, with the head between the last and    *)
(* the first, are a ring in which both directions agree.                   *)
RingOf(q) ==
    LET at(i) == IF i \in DOMAIN q THEN q[i] ELSE ListHead
    IN \A i \in 0..Len(q) : links[at(i)].next = at(i + 1) /\ links[at(i + 1)].prev = at(i)

(* Outside alt_tick the ring through the head visits each running alarm    *)
(* once, and no other.                                                     *)
ListIsRunning == alarmAt = NoAlarm => \E q \in SetToSeqs(running) : RingOf(q)

(* A callback runs at the tick its starter, or its last run, asked for:    *)
(* never at another one, across every wrap of the counter, and never for   *)
(* an alarm that is not running.                                           *)
CallbackOnTime ==
    [][fired' # NoAlarm => fired' \in running /\ due[fired'] = 0]_alarmVars

(* And it is not missed: when alt_tick is done nothing is overdue.         *)
NothingOverdue == alarmAt = NoAlarm => \A a \in running : due[a] > 0

(* alt_alarm_start and alt_tick keep what they promise: every callback at  *)
(* its tick, none missed, and the list in order for the next one.          *)
AlarmsOnTime == CallbackOnTime /\ [](ListIsRunning /\ NothingOverdue)
=============================================================================
