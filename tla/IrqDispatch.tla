------------------------------ MODULE IrqDispatch ------------------------------
(***************************************************************************)
(* Interrupts of the HAL: the registration of handlers, the dispatch by    *)
(* alt_irq_handler, and the nesting that alt_irq_interruptible allows.     *)
(* The processor takes an interrupt between any two instructions as soon   *)
(* as its global enable and an enabled request line allow it.  A request   *)
(* line stays up until a handler acknowledges it, and every handler does.  *)
(***************************************************************************)
EXTENDS Integers, Sequences, FiniteSets, FiniteSetsExt

CONSTANTS
    NIrq,        \* interrupts; the lower number goes first
    Handlers, Contexts,
    NULL,        \* no handler
    Habits,      \* what handlers may do, as sets of
                 \*   "nest":   make themselves interruptible
                 \*   "change": enable and disable interrupts
    MaxRaises    \* bound: requests of the devices

Ids == 0..(NIrq - 1)
ASSUME IrqAssumption ==
    /\ NIrq \in Nat \ {0} /\ NULL \notin Handlers /\ Contexts # {}
    /\ Habits \subseteq SUBSET {"nest", "change"} /\ MaxRaises \in Nat

VARIABLES
    pie, ienable,   \* processor: global enable, the mask register
    line,           \* devices: request lines that are up
    active,         \* alt_irq_active: individually enabled
    mask,           \* alt_priority_mask
    table,          \* alt_irq: [handler, context]
    main,           \* a registration by the program: [pc, id, entry, saved]
    stack,          \* running handlers, the last one on the processor
    registered,     \* history: the entries of the last completed registrations
    raises,         \* history: requests so far
    habits          \* what handlers do, one of Habits: never changes

cpu == <<pie, ienable>>
irqVars == <<cpu, line, active, mask, table, main, stack, registered, raises, habits>>

IrqPending == line \intersect ienable
Interrupted == pie /\ IrqPending # {}
Top == stack[Len(stack)]
SetTop(f) == stack' = [stack EXCEPT ![Len(stack)] = f]
-----------------------------------------------------------------------------
Raise ==
    /\ raises < MaxRaises /\ raises' = raises + 1
    /\ \E i \in Ids \ line : line' = line \union {i}
    /\ UNCHANGED <<cpu, active, mask, table, main, stack, registered, habits>>

(* alt_irq_register, with interrupts off while the table is changed.  The  *)
(* first is a mutant: they stay on.                                        *)
PieWhile_on == pie
PieWhile == FALSE
IrqRegister ==
    /\ stack = <<>> /\ ~Interrupted /\ main.pc = "idle"
    /\ \E i \in Ids, h \in Handlers \union {NULL}, c \in Contexts :
         main' = [pc |-> "handler", id |-> i, entry |-> [handler |-> h, context |-> c], saved |-> pie]
    /\ pie' = PieWhile
    /\ UNCHANGED <<ienable, line, active, mask, table, stack, registered, raises, habits>>
StoreHandler ==
    /\ stack = <<>> /\ ~Interrupted /\ main.pc = "handler"
    /\ table' = [table EXCEPT ![main.id].handler = main.entry.handler]
    /\ main' = [main EXCEPT !.pc = "context"]
    /\ UNCHANGED <<cpu, line, active, mask, stack, registered, raises, habits>>
StoreContext ==
    /\ stack = <<>> /\ ~Interrupted /\ main.pc = "context"
    /\ table' = [table EXCEPT ![main.id].context = main.entry.context]
    /\ registered' = [registered EXCEPT ![main.id] = main.entry]
    /\ main' = [main EXCEPT !.pc = "enable"]
    /\ UNCHANGED <<cpu, line, active, mask, stack, raises, habits>>

(* alt_irq_enable and alt_irq_disable write the mask register.  The first  *)
(* is a mutant: the bit next to the interrupt's.                           *)
SetActive_next(i, on) ==
    /\ active' = IF on THEN active \union {i + 1} ELSE active \ {i + 1}
    /\ ienable' = active'
SetActive(i, on) ==
    /\ active' = IF on THEN active \union {i} ELSE active \ {i}
    /\ ienable' = active'
EnableIrq ==
    /\ stack = <<>> /\ ~Interrupted /\ main.pc = "enable"
    /\ SetActive(main.id, main.entry.handler # NULL)
    /\ main' = [main EXCEPT !.pc = "restore"]
    /\ UNCHANGED <<pie, line, mask, table, stack, registered, raises, habits>>

(* alt_irq_enable_all gives back what alt_irq_disable_all returned.  The   *)
(* first is a mutant: interrupts stay off.                                 *)
Restored_off == FALSE
Restored == main.saved
Restore ==
    /\ stack = <<>> /\ ~Interrupted /\ main.pc = "restore"
    /\ pie' = Restored /\ main' = [main EXCEPT !.pc = "idle"]
    /\ UNCHANGED <<ienable, line, active, mask, table, stack, registered, raises, habits>>
-----------------------------------------------------------------------------
(* The exception, and the passes of the loop of alt_irq_handler; after the *)
(* last the exception returns to what it interrupted.                      *)
Exception ==
    /\ Interrupted /\ pie' = FALSE
    /\ stack' = Append(stack, [pc |-> "pass", id |-> NIrq, old |-> {}, open |-> FALSE, call |-> NULL])
    /\ UNCHANGED <<ienable, line, active, mask, table, main, registered, raises, habits>>

(* Which of them goes first.                                               *)
FirstIrq(s) == Min(s)
Pass ==
    /\ stack # <<>> /\ Top.pc = "pass"
    /\ \/ /\ IrqPending # {} /\ UNCHANGED pie
          /\ SetTop([Top EXCEPT !.pc = "isr", !.id = FirstIrq(IrqPending), !.open = FALSE,
                                !.call = table[FirstIrq(IrqPending)]])
       \/ /\ IrqPending = {} /\ pie' = TRUE
          /\ stack' = SubSeq(stack, 1, Len(stack) - 1)
    /\ UNCHANGED <<ienable, line, active, mask, table, main, registered, raises, habits>>

(* What a handler does: acknowledge, and go; in between it may let others  *)
(* interrupt it, or change which are enabled.                              *)
Running == stack # <<>> /\ ~Interrupted
Acknowledge ==
    /\ Running /\ Top.pc = "isr" /\ line' = line \ {Top.id} /\ SetTop([Top EXCEPT !.pc = "acked"])
    /\ UNCHANGED <<cpu, active, mask, table, main, registered, raises, habits>>

(* The interrupts allowed in between.  The first is a mutant: the running  *)
(* one, too.                                                               *)
Above_own(i) == 0..i
Above(i) == 0..(i - 1)
Interruptible ==
    /\ Running /\ "nest" \in habits /\ Top.pc = "isr" /\ ~Top.open
    /\ SetTop([Top EXCEPT !.open = TRUE, !.old = mask])
    /\ mask' = Above(Top.id) /\ ienable' = active \intersect mask' /\ pie' = TRUE
    /\ UNCHANGED <<line, active, table, main, registered, raises, habits>>
(* The first is a mutant: the mask of before is not put back.              *)
MaskAfter_kept == mask
MaskAfter == Top.old
NonInterruptible ==
    /\ Running /\ Top.pc = "acked" /\ Top.open
    /\ SetTop([Top EXCEPT !.open = FALSE])
    /\ mask' = MaskAfter /\ ienable' = active \intersect mask' /\ pie' = FALSE
    /\ UNCHANGED <<line, active, table, main, registered, raises, habits>>
Change ==
    /\ Running /\ "change" \in habits /\ Top.pc \in {"isr", "acked"}
    /\ \E i \in Ids : registered[i].handler # NULL /\ \E on \in BOOLEAN : SetActive(i, on)
    /\ UNCHANGED <<pie, line, mask, table, main, stack, registered, raises, habits>>
IrqReturn ==
    /\ Running /\ Top.pc = "acked" /\ ~Top.open /\ SetTop([Top EXCEPT !.pc = "pass"])
    /\ UNCHANGED <<cpu, line, active, mask, table, main, registered, raises, habits>>

IrqInit ==
    /\ pie = TRUE /\ ienable = {} /\ line = {} /\ active = {} /\ mask = Ids
    /\ \E c \in Contexts :
         /\ table = [i \in Ids |-> [handler |-> NULL, context |-> c]] /\ registered = table
         /\ main = [pc |-> "idle", id |-> 0, entry |-> table[0], saved |-> TRUE]
    /\ stack = <<>> /\ raises = 0 /\ habits \in Habits

Program == IrqRegister \/ StoreHandler \/ StoreContext \/ EnableIrq \/ Restore
Serve == Exception \/ Pass \/ Acknowledge \/ NonInterruptible \/ IrqReturn
IrqNext == Raise \/ Program \/ Serve \/ Interruptible \/ Change
IrqSpec == IrqInit /\ [][IrqNext]_irqVars

(* The processor runs: handlers finish, a registration that began ends.    *)
IrqFairSpec == /\ IrqSpec /\ WF_irqVars(Exception) /\ WF_irqVars(Pass) /\ WF_irqVars(Acknowledge)
               /\ WF_irqVars(NonInterruptible) /\ WF_irqVars(IrqReturn)
               /\ WF_irqVars(StoreHandler \/ StoreContext \/ EnableIrq \/ Restore)
-----------------------------------------------------------------------------
IrqTypeOK ==
    /\ pie \in BOOLEAN /\ \A s \in {ienable, line, active, mask} : s \subseteq Ids
    /\ \A i \in Ids : table[i].handler \in Handlers \union {NULL} /\ table[i].context \in Contexts
    /\ raises \in 0..MaxRaises /\ habits \in Habits

(* A handler is only called with the context it was registered with, and a *)
(* cleared entry is never called: nobody sees the table half written.      *)
PairsMatch ==
    \A k \in DOMAIN stack :
      stack[k].pc = "isr" =>
        stack[k].call = registered[stack[k].id] /\ stack[k].call.handler # NULL

(* "to allow higer priority interrupts to interrupt the current ISR": a    *)
(* handler is interrupted only by a more urgent one, if handlers leave the *)
(* enables alone.                                                          *)
OnlyHigher ==
    "change" \notin habits =>
      \A k \in 1..(Len(stack) - 1) :
        stack[k + 1].pc # "pass" => stack[k + 1].id < stack[k].id

(* When all such handlers have gone, the enables are as before them.       *)
EnablesRestored ==
    "change" \notin habits /\ stack = <<>> /\ main.pc = "idle" =>
      pie /\ mask = Ids /\ ienable = active

(* A request of an enabled interrupt is served, whatever else is raised    *)
(* and registered in between.                                              *)
Served == \A i \in Ids : i \in line \intersect active ~> i \notin line \intersect active

(* Handlers nest: each is called with its own context, is interrupted only *)
(* by more urgent ones, and leaves the enables as it found them.           *)
HandlersNest == PairsMatch /\ OnlyHigher /\ EnablesRestored
=============================================================================
