-------------------------------- MODULE JtagUart --------------------------------
(***************************************************************************)
(* The interrupt driven driver of the JTAG UART, stdin and stdout of the   *)
(* processor: two ring buffers that read(), write() and close() share with *)
(* the interrupt routine, and a one-second alarm that decides whether a    *)
(* host is there.                                                          *)
(*                                                                         *)
(* There is one thread.  Its steps are the accesses to what it shares with *)
(* the interrupt routine; a section under alt_irq_disable_all is one step, *)
(* and the thread stands still while an interrupt routine runs (pcIsr).    *)
(* The host acts between any two of them.  The UART core and the host are  *)
(* external: two FIFOs, the interrupt conditions and the activity bit, as  *)
(* the driver uses them.  What alt_irq_enable and the control register     *)
(* hold is the same set, irq_enable: the two assignments have no access    *)
(* of anybody else between them.                                           *)
(***************************************************************************)
EXTENDS Integers, Sequences

CONSTANTS
    BufLen,     \* ALTERA_AVALON_JTAG_UART_BUF_LEN; 2048
    FifoLen,    \* depth of each FIFO of the core; 64
    Threshold,  \* JTAG_UART_READ_THRESHOLD, ..._WRITE_THRESHOLD; 8
    IntMax,     \* INT_MAX
    DefaultTimeout, \* ALTERA_AVALON_JTAG_UART_DEFAULT_TIMEOUT; 10
    Numbers,    \* bytes are numbered modulo this
    Programs,   \* what applications do: [calls, sends], the routines they
                \* call and whether the host also sends bytes
    Lengths,    \* bound: the lengths it passes
    TimeoutArgs \* the arguments it gives TIOCSTIMEOUT

ASSUME UartAssumption ==
    /\ BufLen \in Nat /\ BufLen > 1 /\ FifoLen \in Nat \ {0}
    /\ Threshold \in 0..FifoLen
    /\ IntMax \in Nat /\ IntMax > 3 /\ DefaultTimeout \in 2..(IntMax - 2)
    /\ Numbers \in Nat /\ Numbers >= BufLen + FifoLen
    /\ Programs \subseteq [calls : SUBSET {"read", "write", "close"}, sends : BOOLEAN]
    /\ Lengths \subseteq Nat /\ TimeoutArgs \subseteq Int

VARIABLES
    rx_buf, rx_in, rx_out, tx_buf, tx_in, tx_out,   \* the two rings
    irq_enable, host_inactive, timeout,
    pc,          \* where the thread is; "idle" between calls
    nonblock,    \* flags & O_NONBLOCK of the call
    left,        \* space or count, what the call has still to move
    done,        \* ptr - buffer or ptr - start
    mark, n,     \* its copy of rx_in or tx_out, and the next chunk
    ret,         \* the last result
    got,         \* the chunk read() copied last
    pcIsr,       \* where the interrupt routine is; "off" outside it
    wi, space, ravail,   \* its locals: WI and WSPACE of control, RAVAIL of data
    program,     \* the application, chosen once
    rfifo, wfifo, pause, ac, connected,   \* the UART core and the host
    rxSent, txSent,   \* numbers of the next byte of each stream
    heard        \* the byte the host took last

rxRing  == <<rx_buf, rx_in, rx_out>>
txRing  == <<tx_buf, tx_in, tx_out>>
locals  == <<nonblock, left, done, mark, n>>
thread  == <<pc, locals, ret, got>>
isr     == <<pcIsr, wi, space, ravail>>
host    == <<program, connected, heard>>
core    == <<rfifo, wfifo, pause, ac>>
control == <<irq_enable, host_inactive, timeout>>
shared  == <<rxRing, txRing, control>>
wire    == <<core, host, rxSent, txSent>>
outside == <<isr, wire>>
vars == <<shared, thread, outside>>

EIO == -5
EWOULDBLOCK == -11
-----------------------------------------------------------------------------
(* Interrupt conditions of the core: data paused in the receive FIFO or    *)
(* the FIFO nearly full, and room in the transmit FIFO.                    *)
ReadPending  == "RE" \in irq_enable /\ (pause \/ FifoLen - Len(rfifo) <= Threshold)
WritePending == "WE" \in irq_enable /\ Len(wfifo) <= Threshold
WSpace == FifoLen - Len(wfifo)

Slot(i) == i % BufLen
Ring(buf, from, to) == [i \in 1..Slot(to - from) |-> buf[Slot(from + i - 1)]]

(* The contiguous bytes to read, and the contiguous room to write; a full  *)
(* ring keeps one slot free.  The first is a mutant: no slot kept free.    *)
ReadChunk(in, out) == IF in >= out THEN in - out ELSE BufLen - out
WriteChunk_fill(in, out) == IF in < out THEN out - 1 - in ELSE BufLen - in
WriteChunk(in, out) ==
    CASE in < out             -> out - 1 - in
      [] in >= out /\ out > 0 -> BufLen - in
      [] OTHER                -> BufLen - 1 - in

Least(a, b) == IF a < b THEN a ELSE b

Return(value) ==
    /\ pc' = "idle" /\ ret' = value
    /\ left' = 0 /\ done' = 0 /\ mark' = 0 /\ n' = 0 /\ nonblock' = FALSE
NothingDone(nb) == IF nb THEN EWOULDBLOCK ELSE EIO

(* The thread runs when no interrupt routine does.                         *)
At(label) == pcIsr = "off" /\ pc = label
GoTo(label) == pc' = label

Init ==
    /\ rx_buf = [i \in 0..(BufLen - 1) |-> 0] /\ rx_in = 0 /\ rx_out = 0
    /\ tx_buf = [i \in 0..(BufLen - 1) |-> 0] /\ tx_in = 0 /\ tx_out = 0
    /\ irq_enable = {"RE"} /\ host_inactive = 0
    /\ timeout \in {DefaultTimeout, IntMax}   \* IntMax: no alarm to be had
    /\ pc = "idle" /\ nonblock = FALSE /\ left = 0 /\ done = 0 /\ mark = 0
    /\ n = 0 /\ ret = 0 /\ got = <<>>
    /\ pcIsr = "off" /\ wi = FALSE /\ space = 0 /\ ravail = FALSE
    /\ rfifo = <<>> /\ wfifo = <<>> /\ pause = FALSE /\ ac = FALSE
    /\ program \in Programs
    /\ connected \in BOOLEAN /\ heard = <<>> /\ rxSent = 0 /\ txSent = 0
-----------------------------------------------------------------------------
(* altera_avalon_jtag_uart_read.  Without room the loop is not entered.    *)
ReadCall(len, nb) ==
    /\ At("idle") /\ "read" \in program.calls
    /\ IF len > 0 THEN /\ GoTo("rdSample") /\ left' = len /\ nonblock' = nb
                       /\ UNCHANGED <<done, mark, n, ret>>
                  ELSE Return(NothingDone(nb))
    /\ UNCHANGED <<shared, got, outside>>

(* in = rx_in; out = rx_out; how much can be copied, or what to do if      *)
(* nothing can.                                                            *)
ReadSample ==
    /\ At("rdSample")
    /\ LET avail == ReadChunk(rx_in, rx_out) IN
         IF avail > 0
         THEN /\ GoTo("rdCopy") /\ n' = Least(avail, left) /\ mark' = rx_in
              /\ UNCHANGED <<nonblock, left, done, ret>>
         ELSE IF done = 0 /\ nonblock THEN Return(EWOULDBLOCK)
         ELSE /\ GoTo(IF done > 0 THEN "rdEnable" ELSE "rdSpin")
              /\ mark' = rx_in /\ n' = 0
              /\ UNCHANGED <<nonblock, left, done, ret>>
    /\ UNCHANGED <<shared, got, outside>>

ReadCopy ==
    /\ At("rdCopy") /\ GoTo("rdAdvance")
    /\ got' = [i \in 1..n |-> rx_buf[rx_out + i - 1]]
    /\ done' = done + n /\ left' = left - n
    /\ UNCHANGED <<shared, nonblock, mark, n, ret, outside>>

ReadAdvance ==
    /\ At("rdAdvance") /\ GoTo(IF left > 0 THEN "rdSample" ELSE "rdEnable")
    /\ rx_out' = Slot(rx_out + n)
    /\ UNCHANGED <<rx_buf, rx_in, txRing, control, locals, ret, got,
                   outside>>

(* Space was made: receive interrupts on again, under a disable.           *)
(* The first is a mutant: they stay off.                                   *)
ReadEnable_never ==
    /\ At("rdEnable") /\ Return(done)
    /\ UNCHANGED <<shared, got, outside>>
ReadEnable ==
    /\ At("rdEnable") /\ Return(done)
    /\ irq_enable' = irq_enable \union {"RE"}
    /\ UNCHANGED <<rxRing, txRing, host_inactive, timeout, got, outside>>

(* Spin: while (in == rx_in && host_inactive < timeout), then the check.   *)
ReadCheck ==
    /\ At("rdCheck")
    /\ IF mark = rx_in THEN Return(EIO)
                       ELSE GoTo("rdSample") /\ UNCHANGED <<locals, ret>>
    /\ UNCHANGED <<shared, got, outside>>
-----------------------------------------------------------------------------
(* altera_avalon_jtag_uart_write: bytes are numbered as they are accepted. *)
WriteCall(count, nb) ==
    /\ At("idle") /\ "write" \in program.calls
    /\ GoTo(IF count > 0 THEN "wrSample" ELSE "wrKick")
    /\ left' = count /\ nonblock' = nb
    /\ UNCHANGED <<shared, done, mark, n, ret, got, outside>>

WriteSample ==
    /\ At("wrSample")
    /\ LET room == WriteChunk(tx_in, tx_out) IN
         /\ n' = Least(room, left) /\ mark' = tx_out
         /\ GoTo(IF room > 0 THEN "wrCopy" ELSE "wrKick")
    /\ UNCHANGED <<shared, nonblock, left, done, ret, got, outside>>

WriteCopy ==
    /\ At("wrCopy") /\ GoTo("wrAdvance")
    /\ tx_buf' = [i \in DOMAIN tx_buf |->
                    IF i \in tx_in..(tx_in + n - 1)
                    THEN (txSent + i - tx_in) % Numbers ELSE tx_buf[i]]
    /\ txSent' = (txSent + n) % Numbers
    /\ done' = done + n /\ left' = left - n
    /\ UNCHANGED <<rxRing, tx_in, tx_out, control, nonblock, mark, n, ret,
                   got, isr, core, host, rxSent>>

WriteAdvance ==
    /\ At("wrAdvance") /\ GoTo(IF left > 0 THEN "wrSample" ELSE "wrKick")
    /\ tx_in' = Slot(tx_in + n)
    /\ UNCHANGED <<rxRing, tx_buf, tx_out, control, locals, ret, got,
                   outside>>

WriteResult == IF done > 0 THEN done ELSE NothingDone(nonblock)

(* The interrupt routine is kicked on every round, under a disable.        *)
(* The first is a mutant: it is kicked only when the ring is full.         *)
WriteKick_late ==
    /\ At("wrKick")
    /\ irq_enable' = IF left > 0 THEN irq_enable \union {"WE"} ELSE irq_enable
    /\ IF left > 0 /\ ~nonblock THEN GoTo("wrSpin") /\ UNCHANGED <<locals, ret>>
                                ELSE Return(WriteResult)
    /\ UNCHANGED <<rxRing, txRing, host_inactive, timeout, got, outside>>
WriteKick ==
    /\ At("wrKick")
    /\ irq_enable' = irq_enable \union {"WE"}
    /\ IF left > 0 /\ ~nonblock THEN GoTo("wrSpin") /\ UNCHANGED <<locals, ret>>
                                ELSE Return(WriteResult)
    /\ UNCHANGED <<rxRing, txRing, host_inactive, timeout, got, outside>>

WriteCheck ==
    /\ At("wrCheck")
    /\ IF mark = tx_out THEN Return(WriteResult)
                        ELSE GoTo("wrSample") /\ UNCHANGED <<locals, ret>>
    /\ UNCHANGED <<shared, got, outside>>

(* altera_avalon_jtag_uart_close waits for the ring to drain.              *)
CloseCall(nb) ==
    /\ At("idle") /\ "close" \in program.calls /\ GoTo("clSpin") /\ nonblock' = nb
    /\ UNCHANGED <<shared, left, done, mark, n, ret, got, outside>>

(* The three spins: the ring is looked at first, the host after it.        *)
SpinOnRing ==
    /\ \/ At("rdSpin") /\ GoTo(IF mark = rx_in THEN "rdTimer" ELSE "rdCheck")
       \/ At("wrSpin") /\ GoTo(IF mark = tx_out THEN "wrTimer" ELSE "wrCheck")
       \/ At("clSpin") /\ tx_in # tx_out /\ GoTo("clTimer")
    /\ UNCHANGED <<shared, locals, ret, got, outside>>

HostGone == host_inactive >= timeout

(* The first is a mutant: a spin that does not look at the host.           *)
SpinOnTimer_deaf ==
    /\ \/ At("rdTimer") /\ GoTo("rdSpin")
       \/ At("wrTimer") /\ GoTo("wrSpin")
       \/ At("clTimer") /\ ~HostGone /\ ~nonblock /\ GoTo("clSpin")
    /\ UNCHANGED <<shared, locals, ret, got, outside>>
SpinOnTimer ==
    /\ \/ At("rdTimer") /\ GoTo(IF HostGone THEN "rdCheck" ELSE "rdSpin")
       \/ At("wrTimer") /\ GoTo(IF HostGone THEN "wrCheck" ELSE "wrSpin")
       \/ At("clTimer") /\ ~HostGone /\ ~nonblock /\ GoTo("clSpin")
    /\ UNCHANGED <<shared, locals, ret, got, outside>>

CloseReturn ==
    /\ \/ At("clSpin") /\ tx_in = tx_out /\ Return(0)
       \/ At("clTimer") /\ HostGone /\ Return(0)
       \/ At("clTimer") /\ ~HostGone /\ nonblock /\ Return(EWOULDBLOCK)
    /\ UNCHANGED <<shared, got, outside>>

(* altera_avalon_jtag_uart_ioctl, TIOCSTIMEOUT; TIOCGCONNECTED changes     *)
(* nothing.                                                                *)
SetTimeout(arg) ==
    /\ At("idle") /\ timeout # IntMax
    /\ timeout' = IF arg >= 2 /\ arg < IntMax THEN arg ELSE IntMax - 1
    /\ UNCHANGED <<rxRing, txRing, irq_enable, host_inactive, thread,
                   outside>>
-----------------------------------------------------------------------------
(* altera_avalon_jtag_uart_irq: the control register is read on entry and  *)
(* again after every round, until neither condition is pending.            *)
IsrControl ==
    /\ pcIsr = "ctl" \/ (pcIsr = "off" /\ (ReadPending \/ WritePending))
    /\ pcIsr' = CASE ReadPending -> "rx"
                  [] ~ReadPending /\ WritePending -> "tx" [] OTHER -> "off"
    /\ wi' = WritePending
    /\ space' = IF WritePending THEN WSpace ELSE 0
    /\ ravail' = ReadPending   \* "assume that there is data"
    /\ UNCHANGED <<shared, thread, wire>>

RxFull == Slot(rx_in + 1) = rx_out

(* One byte from the data register into the ring; the read clears pause.   *)
(* The first is a mutant: the ring is not asked for room.                  *)
IsrReceive_blind ==
    /\ pcIsr = "rx" /\ rfifo # <<>>
    /\ rx_buf' = [rx_buf EXCEPT ![rx_in] = Head(rfifo)]
    /\ rx_in' = Slot(rx_in + 1)
    /\ rfifo' = Tail(rfifo) /\ pause' = FALSE /\ ravail' = (Len(rfifo) > 1)
    /\ UNCHANGED <<rx_out, txRing, control, thread, pcIsr, wi, space,
                   wfifo, ac, host, rxSent, txSent>>
IsrReceive ==
    /\ pcIsr = "rx" /\ ~RxFull /\ rfifo # <<>>
    /\ rx_buf' = [rx_buf EXCEPT ![rx_in] = Head(rfifo)]
    /\ rx_in' = Slot(rx_in + 1)
    /\ rfifo' = Tail(rfifo) /\ pause' = FALSE /\ ravail' = (Len(rfifo) > 1)
    /\ UNCHANGED <<rx_out, txRing, control, thread, pcIsr, wi, space,
                   wfifo, ac, host, rxSent, txSent>>

(* The receive loop ends: the ring is full, or a read found no byte.       *)
(* Bytes that stay behind a full ring turn the receive interrupt off.      *)
IsrReceiveEnd ==
    /\ pcIsr = "rx" /\ (RxFull \/ rfifo = <<>>)
    /\ pause' = (RxFull /\ pause)
    /\ irq_enable' = IF RxFull /\ ravail THEN irq_enable \ {"RE"} ELSE irq_enable
    /\ pcIsr' = (IF wi THEN "tx" ELSE "ctl") /\ ravail' = FALSE
    /\ UNCHANGED <<rxRing, txRing, host_inactive, timeout, thread, wi,
                   space, rfifo, wfifo, ac, host, rxSent, txSent>>

(* One byte of the ring into the data register: a full FIFO drops it.      *)
IsrTransmit ==
    /\ pcIsr = "tx" /\ space > 0 /\ tx_out # tx_in
    /\ wfifo' = IF Len(wfifo) < FifoLen THEN Append(wfifo, tx_buf[tx_out]) ELSE wfifo
    /\ tx_out' = Slot(tx_out + 1) /\ space' = space - 1
    /\ UNCHANGED <<rxRing, tx_buf, tx_in, control, thread, pcIsr, wi,
                   ravail, rfifo, pause, ac, host, rxSent, txSent>>

(* Room is left but nothing to send: the transmit interrupt goes off.      *)
IsrTransmitEnd ==
    /\ pcIsr = "tx" /\ (space = 0 \/ tx_out = tx_in)
    /\ irq_enable' = IF space > 0 THEN irq_enable \ {"WE"} ELSE irq_enable
    /\ pcIsr' = "ctl" /\ space' = 0 /\ wi' = FALSE
    /\ UNCHANGED <<rxRing, txRing, host_inactive, timeout, thread, ravail,
                   wire>>

(* altera_avalon_jtag_uart_timeout, once a second from the timer's         *)
(* interrupt routine.  Activity between its read and its write of the      *)
(* control register counts as activity before the read.  It never runs if  *)
(* the alarm could not be started.  The first is a mutant: no cap.         *)
AlarmTimeout_free ==
    /\ pcIsr = "off" /\ timeout # IntMax
    /\ host_inactive' = IF ac THEN 0 ELSE Least(host_inactive + 1, IntMax)
    /\ ac' = FALSE
    /\ UNCHANGED <<rxRing, txRing, irq_enable, timeout, thread, isr, rfifo,
                   wfifo, pause, host, rxSent, txSent>>
(* Another mutant: the counter is compared after it was incremented.       *)
AlarmTimeout_wide ==
    /\ pcIsr = "off" /\ timeout # IntMax
    /\ host_inactive' = IF ac THEN 0 ELSE host_inactive + 1
    /\ ac' = FALSE /\ host_inactive <= IntMax
    /\ UNCHANGED <<rxRing, txRing, irq_enable, timeout, thread, isr, rfifo,
                   wfifo, pause, host, rxSent, txSent>>
AlarmTimeout ==
    /\ pcIsr = "off" /\ timeout # IntMax
    /\ host_inactive' = IF ac THEN 0
                        ELSE IF host_inactive < IntMax - 2 THEN host_inactive + 1
                        ELSE host_inactive
    /\ ac' = FALSE
    /\ UNCHANGED <<rxRing, txRing, irq_enable, timeout, thread, isr, rfifo,
                   wfifo, pause, host, rxSent, txSent>>
-----------------------------------------------------------------------------
(* The host: connects and goes, sends a byte, pauses (which announces the  *)
(* bytes it has sent), takes a byte.  Sending and pausing are activity.    *)
HostPlug ==
    /\ connected' = ~connected
    /\ UNCHANGED <<shared, thread, isr, core, program, heard, rxSent, txSent>>

HostSend ==
    /\ connected /\ program.sends /\ Len(rfifo) < FifoLen
    /\ rfifo' = Append(rfifo, rxSent) /\ rxSent' = (rxSent + 1) % Numbers
    /\ ac' = TRUE
    /\ UNCHANGED <<shared, thread, isr, wfifo, pause, host, txSent>>

HostPause ==
    /\ connected
    /\ ac' = TRUE /\ pause' = (pause \/ rfifo # <<>>)
    /\ UNCHANGED <<shared, thread, isr, rfifo, wfifo, host, rxSent, txSent>>

HostTake ==
    /\ connected /\ wfifo # <<>>
    /\ heard' = <<Head(wfifo)>> /\ wfifo' = Tail(wfifo)
    /\ UNCHANGED <<shared, thread, isr, rfifo, pause, ac, program,
                   connected, rxSent, txSent>>

Thread == \/ ReadSample \/ ReadCopy \/ ReadAdvance \/ ReadEnable \/ ReadCheck
          \/ WriteSample \/ WriteCopy \/ WriteAdvance \/ WriteKick \/ WriteCheck
          \/ SpinOnRing \/ SpinOnTimer \/ CloseReturn
Isr == IsrControl \/ IsrReceive \/ IsrReceiveEnd \/ IsrTransmit \/ IsrTransmitEnd
Application == \/ \E len \in Lengths, nb \in BOOLEAN :
                     ReadCall(len, nb) \/ WriteCall(len, nb)
               \/ \E nb \in BOOLEAN : CloseCall(nb)
               \/ \E arg \in TimeoutArgs : SetTimeout(arg)
Next == Application \/ Thread \/ Isr \/ AlarmTimeout
            \/ HostPlug \/ HostSend \/ HostPause \/ HostTake

(* The processor goes on executing, the timer goes on ticking, and a host  *)
(* that stays connected goes on polling the link.  Nobody has to call the  *)
(* driver or to send it anything.                                          *)
Spec == Init /\ [][Next]_vars
LiveSpec == /\ Spec
            /\ WF_vars(Thread) /\ WF_vars(Isr) /\ WF_vars(AlarmTimeout)
            /\ WF_vars(HostPause) /\ WF_vars(HostTake)
-----------------------------------------------------------------------------
ReadPcs  == {"rdSample", "rdCopy", "rdAdvance", "rdEnable", "rdSpin", "rdTimer", "rdCheck"}
WritePcs == {"wrSample", "wrCopy", "wrAdvance", "wrKick", "wrSpin", "wrTimer", "wrCheck"}
ClosePcs == {"clSpin", "clTimer"}
Index == 0..(BufLen - 1)
Number == 0..(Numbers - 1)

(* Every variable keeps to its type; the FIFOs and rings to their size.    *)
UartTypeOK ==
    /\ rx_buf \in [Index -> Number] /\ rx_in \in Index /\ rx_out \in Index
    /\ tx_buf \in [Index -> Number] /\ tx_in \in Index /\ tx_out \in Index
    /\ irq_enable \subseteq {"RE", "WE"}
    /\ host_inactive \in 0..IntMax /\ timeout \in 2..IntMax
    /\ pc \in {"idle"} \union ReadPcs \union WritePcs \union ClosePcs
    /\ nonblock \in BOOLEAN /\ left \in Nat /\ done \in Nat
    /\ mark \in Index /\ n \in 0..BufLen /\ ret \in Int
    /\ pcIsr \in {"off", "ctl", "rx", "tx"}
    /\ wi \in BOOLEAN /\ space \in 0..FifoLen /\ ravail \in BOOLEAN
    /\ Len(rfifo) <= FifoLen /\ Len(wfifo) <= FifoLen
    /\ pause \in BOOLEAN /\ ac \in BOOLEAN /\ connected \in BOOLEAN
    /\ rxSent \in Number /\ txSent \in Number

(* Bytes reach the reader in order, none lost, none twice, whatever the    *)
(* interrupt routine does between the reader's steps: the receive FIFO,    *)
(* the ring and the reader are one channel.                                *)
RxQueue == LET from == IF pc = "rdAdvance" THEN rx_out + n ELSE rx_out
           IN Ring(rx_buf, from, rx_in) \o rfifo
Rx == INSTANCE ByteChannel WITH sent <- rxSent, queue <- RxQueue, taken <- got,
                                Capacity <- BufLen - 1 + FifoLen
RxIsChannel == Rx!Spec

(* The same for what is written, from write() to the host.                 *)
TxQueue == LET to == IF pc = "wrAdvance" THEN tx_in + n ELSE tx_in
           IN wfifo \o Ring(tx_buf, tx_out, to)
Tx == INSTANCE ByteChannel WITH sent <- txSent, queue <- TxQueue, taken <- heard,
                                Capacity <- BufLen - 1 + FifoLen
TxIsChannel == Tx!Spec

(* Receive interrupts are off only while the application has bytes to      *)
(* read, or is about to turn them on: reception never stops for good.      *)
ReceiveNotStuck ==
    "RE" \notin irq_enable => rx_in # rx_out \/ (pc \in ReadPcs /\ done > 0)

(* Bytes wait in the transmit ring only with the transmit interrupt on, or *)
(* with a writer that is about to turn it on.                              *)
TransmitArmed ==
    tx_in # tx_out => \/ "WE" \in irq_enable
                      \/ pc \in {"wrSample", "wrCopy", "wrAdvance", "wrKick"}

(* A timeout of INT_MAX - 1 (the caller asked for none) or INT_MAX (there  *)
(* is no alarm) never expires, however long the host is away.              *)
NeverMeansNever == timeout >= IntMax - 1 => ~HostGone

(* Once the host stays away or stays connected, a write or close under a   *)
(* finite timeout returns.                                                 *)
Settled == <>[]connected \/ <>[]~connected
WriteReturns ==
    Settled => (pc \in WritePcs \union ClosePcs /\ timeout < IntMax - 1) ~> (pc = "idle")

(* With a host that stays, a read for which there is a byte anywhere on    *)
(* the way returns; without one, every read under a finite timeout does.   *)
ReadReturns ==
    /\ <>[]connected => (pc \in ReadPcs /\ RxQueue # <<>>) ~> (pc = "idle")
    /\ <>[]~connected => (pc \in ReadPcs /\ timeout < IntMax - 1) ~> (pc = "idle")

(* With a host that stays, every byte write() accepted reaches it (all     *)
(* bytes are alike, so it is said of those numbered 0).                    *)
InFlight(k) == \E i \in 1..Len(TxQueue) : TxQueue[i] = k
BytesArrive == <>[]connected => (InFlight(0) ~> ~InFlight(0))

(* The rings and their interrupts: nothing that waits is forgotten.        *)
RingsKept == UartTypeOK /\ ReceiveNotStuck /\ TransmitArmed

(* Calls return, under the timeout they have.                              *)
CallsReturn == WriteReturns /\ ReadReturns /\ []NeverMeansNever
=============================================================================
