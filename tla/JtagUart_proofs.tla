--------------------------- MODULE JtagUart_proofs ---------------------------
(***************************************************************************)
(* Proofs about the JTAG UART driver, for every size of rings and FIFOs,   *)
(* every set of programs and lengths, and every interleaving of thread,    *)
(* interrupt routine, alarm and host: both directions implement            *)
(* ByteChannel, and the interrupts stay armed.                             *)
(*                                                                         *)
(* The argument.  The thread and the interrupt routine share a ring; each  *)
(* moves one of its ends.  What the thread has measured (Reserved) stays   *)
(* true while it copies, since the other end only moves away from it; the  *)
(* bytes between the ends are a sequence (Ring) to which moving an end     *)
(* adds bytes behind (RingAdd) or from which it takes some in front        *)
(* (RingDrop).  A channel is a FIFO and a ring in a row, and every step    *)
(* puts, takes, or passes bytes from one to the other.                     *)
(***************************************************************************)
EXTENDS JtagUart, SequenceTheorems, TLAPS
-----------------------------------------------------------------------------
(* Positions in a ring                                                     *)

(* The remainder, from any representation.                                 *)
LEMMA Remainder ==
    ASSUME NEW x \in Int, NEW m \in Int, m > 1, NEW q \in Int, NEW r \in 0..(m - 1),
           x = m * q + r
    PROVE  x % m = r
BY SMT

(* The slot of a position at most one turn away.                           *)
LEMMA SlotOf ==
    ASSUME NEW x \in Int, -BufLen <= x, x < 2 * BufLen
    PROVE  Slot(x) = IF x < 0 THEN x + BufLen ELSE IF x < BufLen THEN x ELSE x - BufLen
<1> DEFINE m == BufLen
<1>1. m \in Int /\ m > 1
    BY UartAssumption
<1> HIDE DEF m
<1>2. CASE x < 0
  <2>1. x = m * (-1) + (x + m) /\ x + m \in 0..(m - 1) /\ -1 \in Int
      BY <1>1, <1>2 DEF m
  <2> QED
      BY <1>1, <1>2, <2>1, Remainder DEF Slot, m
<1>3. CASE 0 <= x /\ x < m
  <2>1. x = m * 0 + x /\ x \in 0..(m - 1)
      BY <1>1, <1>3
  <2> QED
      BY <1>1, <1>3, <2>1, Remainder DEF Slot, m
<1>4. CASE x >= m
  <2>1. x = m * 1 + (x - m) /\ x - m \in 0..(m - 1)
      BY <1>1, <1>4 DEF m
  <2> QED
      BY <1>1, <1>4, <2>1, Remainder DEF Slot, m
<1> QED
    BY <1>1, <1>2, <1>3, <1>4 DEF m

(* A function on 1..m is a sequence of length m.                           *)
LEMMA FunctionIsSeq ==
    ASSUME NEW S, NEW m \in Nat, NEW f \in [1..m -> S]
    PROVE  f \in Seq(S) /\ Len(f) = m
<1>1. f \in Seq(S)
    BY SeqDef
<1> QED
    BY <1>1, LenProperties

(* An end of a ring may stand one past the last slot before it wraps.      *)
Ends == 0..BufLen

(* The bytes between two ends.                                             *)
LEMMA RingProperties ==
    ASSUME NEW buf \in [Index -> Number], NEW from \in Ends, NEW to \in Ends
    PROVE  /\ Slot(to - from) \in Index
           /\ Ring(buf, from, to) \in Seq(Number)
           /\ Len(Ring(buf, from, to)) = Slot(to - from)
           /\ \A i \in 1..Slot(to - from) :
                /\ Slot(from + i - 1) \in Index
                /\ Ring(buf, from, to)[i] = buf[Slot(from + i - 1)]
<1>1. BufLen \in Nat /\ BufLen > 1
    BY UartAssumption
<1>2. Slot(to - from) \in Index
    BY <1>1, SlotOf DEF Ends, Index
<1>3. \A i \in 1..Slot(to - from) : Slot(from + i - 1) \in Index
    BY <1>1, <1>2, SlotOf DEF Ends, Index
<1>4. Slot(to - from) \in Nat
    BY <1>1, <1>2 DEF Index
<1>5. Ring(buf, from, to) \in [1..Slot(to - from) -> Number]
    BY <1>3 DEF Ring
<1> QED
    BY <1>2, <1>3, <1>4, <1>5, FunctionIsSeq DEF Ring

(* An end one past the last slot is the same as one in slot 0.             *)
LEMMA RingWraps ==
    ASSUME NEW buf \in [Index -> Number], NEW from \in Ends, NEW to \in Ends
    PROVE  /\ Slot(from) \in Index /\ Slot(to) \in Index
           /\ Ring(buf, Slot(from), to) = Ring(buf, from, to)
           /\ Ring(buf, from, Slot(to)) = Ring(buf, from, to)
           /\ Slot(to - Slot(from)) = Slot(to - from)
           /\ Slot(Slot(to) - from) = Slot(to - from)
<1>1. BufLen \in Nat /\ BufLen > 1
    BY UartAssumption
<1>2. Slot(from) = (IF from = BufLen THEN 0 ELSE from) /\ Slot(to) = IF to = BufLen THEN 0 ELSE to
    BY <1>1, SlotOf DEF Ends
<1>3. Slot(from) \in Index /\ Slot(to) \in Index
    BY <1>1, <1>2 DEF Ends, Index
<1>4. Slot(to - Slot(from)) = Slot(to - from) /\ Slot(Slot(to) - from) = Slot(to - from)
    BY <1>1, <1>2, SlotOf DEF Ends
<1>5. \A i \in 1..Slot(to - from) : Slot(Slot(from) + i - 1) = Slot(from + i - 1)
  <2>1. Slot(to - from) \in Index
      BY RingProperties
  <2> QED
      BY <1>1, <1>2, <2>1, SlotOf DEF Ends, Index
<1> QED
    BY <1>3, <1>4, <1>5 DEF Ring

(* The next m places of a ring, without a wrap.                            *)
Slice(buf, from, m) == [i \in 1..m |-> buf[from + i - 1]]

(* Moving the far end adds bytes behind.                                   *)
LEMMA RingAdd ==
    ASSUME NEW buf \in [Index -> Number], NEW new \in [Index -> Number],
           NEW from \in Ends, NEW to \in Ends, NEW m \in Nat, to + m <= BufLen,
           Slot(to - from) + m < BufLen,
           \A i \in Index : i < to \/ i >= to + m => new[i] = buf[i]
    PROVE  /\ Slot((to + m) - from) = Slot(to - from) + m
           /\ Ring(new, from, to + m) = Ring(buf, from, to) \o Slice(new, to, m)
<1> DEFINE used == Slot(to - from)
           end == to + m
           old == Ring(buf, from, to)
           more == [i \in 1..m |-> new[to + i - 1]]
           all == Ring(new, from, end)
<1>1. BufLen \in Nat /\ BufLen > 1
    BY UartAssumption
<1>2. used \in Index /\ used \in Nat
    BY <1>1, RingProperties DEF Index
<1>3. to + m \in Ends
    BY <1>1 DEF Ends
<1>4. Slot((to + m) - from) = used + m
    BY <1>1, SlotOf DEF Ends
<1>5. more \in Seq(Number) /\ Len(more) = m /\ \A i \in 1..m : more[i] = new[to + i - 1]
  <2>1. more \in [1..m -> Number]
      BY <1>1 DEF Ends, Index
  <2> QED
      BY <2>1, FunctionIsSeq
<1>6. /\ old \in Seq(Number) /\ Len(old) = used
      /\ \A i \in 1..used : old[i] = buf[Slot(from + i - 1)]
    BY RingProperties
<1>7. /\ all \in Seq(Number) /\ Len(all) = used + m
      /\ \A i \in 1..(used + m) : /\ Slot(from + i - 1) \in Index
                                  /\ all[i] = new[Slot(from + i - 1)]
  <2>1. end \in Ends
      BY <1>3
  <2>2. Slot(end - from) = used + m
      BY <1>4
  <2> HIDE DEF end
  <2>3. /\ all \in Seq(Number) /\ Len(all) = Slot(end - from)
        /\ \A i \in 1..Slot(end - from) : /\ Slot(from + i - 1) \in Index
                                          /\ all[i] = new[Slot(from + i - 1)]
      BY <2>1, RingProperties
  <2> HIDE DEF used
  <2> QED
      BY <2>2, <2>3
<1>8. \A i \in 1..used : Slot(from + i - 1) < to \/ Slot(from + i - 1) >= to + m
    BY <1>1, SlotOf DEF Ends, Index
<1>9. ASSUME NEW i \in (used + 1)..(used + m)
      PROVE  Slot(from + i - 1) = to + (i - used) - 1
  <2> DEFINE x == from + i - 1
  <2>1. x \in Int /\ 0 <= x /\ -BufLen <= x /\ x < 2 * BufLen
      BY <1>1, <1>2 DEF Ends
  <2>2. to - from \in Int /\ -BufLen <= to - from /\ to - from < 2 * BufLen
      BY <1>1 DEF Ends
  <2> HIDE DEF x
  <2>3. Slot(x) = IF x < 0 THEN x + BufLen ELSE IF x < BufLen THEN x ELSE x - BufLen
      BY <2>1, SlotOf
  <2>4. used = IF to - from < 0 THEN to - from + BufLen
               ELSE IF to - from < BufLen THEN to - from ELSE to - from - BufLen
      BY <2>2, SlotOf
  <2> QED
      BY <1>1, <2>1, <2>2, <2>3, <2>4 DEF Ends, x
<1> HIDE DEF used, old, more, all
<1>10. /\ old \o more \in Seq(Number) /\ Len(old \o more) = used + m
       /\ \A i \in 1..(used + m) :
            (old \o more)[i] = IF i <= used THEN old[i] ELSE more[i - used]
    BY <1>5, <1>6, ConcatProperties, ZenonT(30)
<1>11. ASSUME NEW i \in 1..(used + m) PROVE all[i] = (old \o more)[i]
  <2>1. CASE i <= used
    <3>1. i \in 1..used
        BY <1>2, <2>1
    <3> QED
        BY <1>6, <1>7, <1>8, <1>10, <2>1, <3>1
  <2>2. CASE i > used
    <3>1. i \in (used + 1)..(used + m) /\ i - used \in 1..m /\ ~(i <= used)
        BY <1>2, <2>2
    <3> QED
        BY <1>5, <1>7, <1>9, <1>10, <3>1
  <2>3. i <= used \/ i > used
      BY <1>2
  <2> QED
      BY <2>1, <2>2, <2>3
<1>12. all = old \o more
    BY <1>7, <1>10, <1>11, SeqEqual
<1> QED
    BY <1>4, <1>12 DEF used, old, more, all, Slice

(* Moving the near end takes bytes in front.                               *)
LEMMA RingDrop ==
    ASSUME NEW buf \in [Index -> Number], NEW from \in Ends, NEW to \in Ends,
           NEW m \in Nat, from + m <= BufLen, m <= Slot(to - from)
    PROVE  /\ Slot(to - (from + m)) = Slot(to - from) - m
           /\ Slice(buf, from, m) \in Seq(Number) /\ Len(Slice(buf, from, m)) = m
           /\ Ring(buf, from, to) = Slice(buf, from, m) \o Ring(buf, from + m, to)
<1> DEFINE used == Slot(to - from)
           all == Ring(buf, from, to)
           front == [i \in 1..m |-> buf[from + i - 1]]
           rest == Ring(buf, from + m, to)
<1>1. BufLen \in Nat /\ BufLen > 1
    BY UartAssumption
<1>2. used \in Index /\ used \in Nat
    BY <1>1, RingProperties DEF Index
<1>3. from + m \in Ends
    BY <1>1 DEF Ends
<1>4. Slot(to - (from + m)) = used - m
    BY <1>1, <1>2, SlotOf DEF Ends, Index
<1>5. front \in Seq(Number) /\ Len(front) = m /\ \A i \in 1..m : front[i] = buf[from + i - 1]
  <2>1. front \in [1..m -> Number]
      BY <1>1 DEF Ends, Index
  <2> QED
      BY <2>1, FunctionIsSeq
<1>6. /\ all \in Seq(Number) /\ Len(all) = used
      /\ \A i \in 1..used : all[i] = buf[Slot(from + i - 1)]
    BY RingProperties
<1>7. /\ rest \in Seq(Number) /\ Len(rest) = used - m
      /\ \A i \in 1..(used - m) : rest[i] = buf[Slot(from + m + i - 1)]
    BY <1>3, <1>4, RingProperties, ZenonT(30)
<1>8. \A i \in 1..m : Slot(from + i - 1) = from + i - 1
    BY <1>1, SlotOf DEF Ends, Index
<1>9. m <= used
    OBVIOUS
<1> HIDE DEF used, all, front, rest
<1>10. /\ front \o rest \in Seq(Number) /\ Len(front \o rest) = used
       /\ \A i \in 1..used :
            (front \o rest)[i] = IF i <= m THEN front[i] ELSE rest[i - m]
  <2>1. Len(front) + Len(rest) = used
      BY <1>2, <1>5, <1>7
  <2> QED
      BY <1>5, <1>7, <2>1, ConcatProperties
<1>11. ASSUME NEW i \in 1..used PROVE all[i] = (front \o rest)[i]
  <2>1. CASE i <= m
      BY <1>5, <1>6, <1>8, <1>10, <2>1
  <2>2. CASE i > m
    <3>1. i - m \in 1..(used - m) /\ from + m + (i - m) - 1 = from + i - 1 /\ ~(i <= m)
        BY <1>2, <2>2 DEF Ends
    <3> QED
        BY <1>6, <1>7, <1>10, <3>1
  <2>3. i <= m \/ i > m
      BY <1>2
  <2> QED
      BY <2>1, <2>2, <2>3
<1>12. all = front \o rest
    BY <1>6, <1>10, <1>11, SeqEqual
<1> QED
    BY <1>4, <1>5, <1>12 DEF used, all, front, rest, Slice
-----------------------------------------------------------------------------
(* The inductive invariant                                                 *)

UsedRx == Slot(rx_in - rx_out)
UsedTx == Slot(tx_in - tx_out)

(* The FIFOs hold bytes; the alarm stops counting short of "never".        *)
TypesKept ==
    /\ UartTypeOK
    /\ rfifo \in Seq(Number) /\ wfifo \in Seq(Number)
    /\ host_inactive <= IntMax - 2

(* What the thread measured still holds when it copies and advances.       *)
Reserved ==
    /\ pc \in {"rdCopy", "rdAdvance"} =>
         n >= 1 /\ n <= UsedRx /\ rx_out + n <= BufLen
    /\ pc \in {"wrCopy", "wrAdvance"} =>
         n >= 1 /\ UsedTx + n < BufLen /\ tx_in + n <= BufLen
    /\ pc \in {"rdCopy", "wrCopy"} => n <= left

(* Calls wait only with something left to do, a read only with no byte     *)
(* copied, and it comes to its end only with one.                          *)
CallState ==
    /\ pc \in {"rdSample", "rdSpin", "rdTimer", "rdCheck",
               "wrSample", "wrSpin", "wrTimer", "wrCheck"} => left > 0
    /\ pc \in {"rdSpin", "rdTimer", "rdCheck"} => done = 0
    /\ pc \in {"rdAdvance", "rdEnable"} => done > 0

(* The room the interrupt routine counts on is in the transmit FIFO.       *)
RoomKept == space + Len(wfifo) <= FifoLen

UartInv == /\ TypesKept /\ Reserved /\ CallState /\ RoomKept
           /\ ReceiveNotStuck /\ TransmitArmed

(* An interrupt routine's steps along a ring, in numbers.                  *)
LEMMA Moves ==
    ASSUME NEW in \in Index, NEW out \in Index
    PROVE  /\ Slot(in + 1) \in Index /\ Slot(out + 1) \in Index
           /\ Slot(in - out) \in Index
           /\ in = out => Slot(in - out) = 0
           /\ Slot(in + 1) = out => in # out
           /\ Slot(in + 1) # out =>
                /\ Slot(in - out) + 1 < BufLen
                /\ Slot(Slot(in + 1) - out) = Slot(in - out) + 1
           /\ in # out =>
                /\ Slot(in - out) >= 1
                /\ Slot(in - Slot(out + 1)) = Slot(in - out) - 1
<1>1. BufLen \in Nat /\ BufLen > 1
    BY UartAssumption
<1>2. Slot(in + 1) = IF in + 1 < BufLen THEN in + 1 ELSE 0
    BY <1>1, SlotOf DEF Index
<1>3. Slot(out + 1) = IF out + 1 < BufLen THEN out + 1 ELSE 0
    BY <1>1, SlotOf DEF Index
<1>4. Slot(in - out) = IF in < out THEN in - out + BufLen ELSE in - out
    BY <1>1, SlotOf DEF Index
<1>5. Slot(in + 1) # out =>
        /\ Slot(in - out) + 1 < BufLen
        /\ Slot(Slot(in + 1) - out) = Slot(in - out) + 1
    BY <1>1, <1>2, <1>4, SlotOf DEF Index
<1>6. in # out =>
        /\ Slot(in - out) >= 1
        /\ Slot(in - Slot(out + 1)) = Slot(in - out) - 1
    BY <1>1, <1>3, <1>4, SlotOf DEF Index
<1> QED
    BY <1>1, <1>2, <1>3, <1>4, <1>5, <1>6 DEF Index

(* What the thread measures.                                               *)
LEMMA Chunks ==
    ASSUME NEW in \in Index, NEW out \in Index
    PROVE  /\ ReadChunk(in, out) \in 0..BufLen
           /\ ReadChunk(in, out) <= Slot(in - out) /\ out + ReadChunk(in, out) <= BufLen
           /\ WriteChunk(in, out) \in 0..BufLen
           /\ Slot(in - out) + WriteChunk(in, out) < BufLen
           /\ in + WriteChunk(in, out) <= BufLen
<1>1. BufLen \in Nat /\ BufLen > 1
    BY UartAssumption
<1>2. Slot(in - out) = IF in < out THEN in - out + BufLen ELSE in - out
    BY <1>1, SlotOf DEF Index
<1>3. WriteChunk(in, out) = IF in < out THEN out - 1 - in
                            ELSE IF out > 0 THEN BufLen - in ELSE BufLen - 1 - in
    BY <1>1 DEF WriteChunk, Index
<1> QED
    BY <1>1, <1>2, <1>3 DEF ReadChunk, Index

LEMMA InitUartInv == Init => UartInv
<1> SUFFICES ASSUME Init PROVE UartInv
    OBVIOUS
<1>1. BufLen \in Nat /\ BufLen > 1 /\ FifoLen \in Nat \ {0} /\ 0 \in Number /\ 0 \in Index
    BY UartAssumption DEF Number, Index
<1>2. TypesKept
  <2>1. rx_buf \in [Index -> Number] /\ tx_buf \in [Index -> Number]
      BY <1>1 DEF Init, Index
  <2>2. rfifo = <<>> /\ wfifo = <<>> /\ Len(rfifo) = 0 /\ Len(wfifo) = 0
      BY EmptySeq DEF Init
  <2>3. host_inactive \in 0..IntMax /\ timeout \in 2..IntMax /\ host_inactive <= IntMax - 2
      BY UartAssumption DEF Init
  <2>4. /\ 0 \in 0..BufLen /\ 0 \in 0..FifoLen /\ 0 \in Nat /\ 0 \in Int /\ 0 <= FifoLen
        /\ <<>> \in Seq(Number)
      BY <1>1, EmptySeq
  <2> QED
      BY <1>1, <2>1, <2>2, <2>3, <2>4 DEF Init, TypesKept, UartTypeOK
<1>3. Reserved /\ CallState /\ ReceiveNotStuck /\ TransmitArmed
    BY DEF Init, Reserved, CallState, ReceiveNotStuck, TransmitArmed
<1>4. RoomKept
    BY <1>1, EmptySeq DEF Init, RoomKept
<1> QED
    BY <1>2, <1>3, <1>4 DEF UartInv

(* A step of the thread that changes neither ring, flag nor device.        *)
LEMMA ThreadStep ==
    ASSUME UartInv, UNCHANGED <<shared, outside>>,
           pc' \in {"idle"} \union ReadPcs \union WritePcs \union ClosePcs,
           nonblock' \in BOOLEAN, left' \in Nat, done' \in Nat, mark' \in Index,
           n' \in 0..BufLen, ret' \in Int, Reserved', CallState',
           (pc \in ReadPcs /\ done > 0) => (pc' \in ReadPcs /\ done' > 0) \/ rx_in # rx_out \/ "RE" \in irq_enable,
           pc \in {"wrSample", "wrCopy", "wrAdvance", "wrKick"} =>
             pc' \in {"wrSample", "wrCopy", "wrAdvance", "wrKick"}
    PROVE  UartInv'
<1>1. TypesKept'
    BY DEF UartInv, TypesKept, UartTypeOK, shared, outside, rxRing, txRing, control,
           isr, wire, core, host
<1>2. RoomKept'
    BY DEF UartInv, RoomKept, outside, isr, wire, core
<1>3. ReceiveNotStuck'
    BY DEF UartInv, ReceiveNotStuck, shared, rxRing, control
<1>4. TransmitArmed'
    BY DEF UartInv, TransmitArmed, shared, txRing, control
<1> QED
    BY <1>1, <1>2, <1>3, <1>4 DEF UartInv

(* The numbers in the types.                                               *)
LEMMA Sizes ==
    /\ BufLen \in Nat /\ BufLen > 1 /\ FifoLen \in Nat /\ FifoLen > 0
    /\ Numbers \in Nat /\ Numbers >= BufLen + FifoLen /\ IntMax \in Nat /\ IntMax > 3
    /\ 0 \in Index /\ EIO \in Int /\ EWOULDBLOCK \in Int
BY UartAssumption DEF Index, EIO, EWOULDBLOCK

LEMMA Returned ==
    ASSUME UartInv, NEW value \in Int, Return(value), UNCHANGED <<shared, outside>>,
           ~(pc \in ReadPcs /\ done > 0) \/ rx_in # rx_out \/ "RE" \in irq_enable,
           pc \notin {"wrSample", "wrCopy", "wrAdvance", "wrKick"}
    PROVE  UartInv'
<1>1. /\ pc' = "idle" /\ ret' = value /\ nonblock' \in BOOLEAN
      /\ left' = 0 /\ done' = 0 /\ mark' = 0 /\ n' = 0
    BY DEF Return
<1>2. Reserved' /\ CallState'
    BY <1>1 DEF Reserved, CallState
<1>3. left' \in Nat /\ done' \in Nat /\ mark' \in Index /\ n' \in 0..BufLen
    BY <1>1, Sizes
<1> QED
    BY <1>1, <1>2, <1>3, ThreadStep

LEMMA ReadCallKeeps ==
    ASSUME UartInv, NEW len \in Lengths, NEW nb \in BOOLEAN, ReadCall(len, nb)
    PROVE  UartInv'
<1>1. len \in Nat
    BY UartAssumption
<1>2. pc = "idle" /\ UNCHANGED <<shared, outside>>
    BY DEF ReadCall, At
<1>3. CASE len > 0
  <2>1. pc' = "rdSample" /\ left' = len /\ nonblock' = nb /\ UNCHANGED <<done, mark, n, ret>>
      BY <1>3 DEF ReadCall, GoTo
  <2>2. Reserved' /\ CallState'
      BY <1>1, <1>3, <2>1 DEF Reserved, CallState
  <2>3. done \in Nat /\ mark \in Index /\ n \in 0..BufLen /\ ret \in Int
      BY DEF UartInv, TypesKept, UartTypeOK
  <2> QED
      BY <1>1, <1>2, <2>1, <2>2, <2>3, ThreadStep DEF ReadPcs
<1>4. CASE ~(len > 0)
  <2>1. Return(NothingDone(nb)) /\ NothingDone(nb) \in Int
      BY <1>4, Sizes DEF ReadCall, NothingDone
  <2> QED
      BY <1>2, <2>1, Returned DEF ReadPcs
<1> QED
    BY <1>3, <1>4

LEMMA ReadSampleKeeps == ASSUME UartInv, ReadSample PROVE UartInv'
<1> DEFINE avail == ReadChunk(rx_in, rx_out)
<1>1. pc = "rdSample" /\ UNCHANGED <<shared, outside>> /\ left \in Nat /\ left > 0
    BY DEF ReadSample, At, UartInv, CallState, TypesKept, UartTypeOK
<1>2. rx_in \in Index /\ rx_out \in Index /\ nonblock \in BOOLEAN /\ done \in Nat /\ ret \in Int
    BY DEF UartInv, TypesKept, UartTypeOK
<1>3. avail \in 0..BufLen /\ avail <= UsedRx /\ rx_out + avail <= BufLen /\ UsedRx \in Index
    BY <1>2, Chunks, Moves DEF UsedRx
<1>4. UNCHANGED <<rx_in, rx_out, tx_in, tx_out>> /\ UNCHANGED <<UsedRx, UsedTx>>
    BY <1>1 DEF shared, rxRing, txRing, UsedRx, UsedTx
<1>5. CASE avail > 0
  <2>1. pc' = "rdCopy" /\ n' = Least(avail, left) /\ mark' = rx_in
        /\ UNCHANGED <<nonblock, left, done, ret>>
      BY <1>5 DEF ReadSample, GoTo
  <2>2. n' \in 0..BufLen /\ n' >= 1 /\ n' <= avail /\ n' <= left
      BY <1>1, <1>3, <1>5, <2>1, Sizes DEF Least
  <2>3. Reserved'
      BY <1>1, <1>2, <1>3, <1>4, <2>1, <2>2, Sizes DEF Reserved, Index
  <2>4. CallState'
      BY <2>1 DEF CallState
  <2> QED
      BY <1>1, <1>2, <2>1, <2>2, <2>3, <2>4, ThreadStep DEF ReadPcs
<1>6. CASE ~(avail > 0) /\ done = 0 /\ nonblock
  <2>1. Return(EWOULDBLOCK)
      BY <1>6 DEF ReadSample
  <2> QED
      BY <1>1, <1>6, <2>1, Sizes, Returned
<1>7. CASE ~(avail > 0) /\ ~(done = 0 /\ nonblock)
  <2>1. pc' = (IF done > 0 THEN "rdEnable" ELSE "rdSpin") /\ mark' = rx_in /\ n' = 0
        /\ UNCHANGED <<nonblock, left, done, ret>>
      BY <1>7 DEF ReadSample, GoTo
  <2>2. Reserved' /\ CallState'
      BY <1>1, <1>2, <2>1 DEF Reserved, CallState
  <2> QED
      BY <1>1, <1>2, <2>1, <2>2, Sizes, ThreadStep DEF ReadPcs
<1> QED
    BY <1>5, <1>6, <1>7

LEMMA ReadCopyKeeps == ASSUME UartInv, ReadCopy PROVE UartInv'
<1>1. pc = "rdCopy" /\ pc' = "rdAdvance" /\ done' = done + n /\ left' = left - n
      /\ UNCHANGED <<shared, nonblock, mark, n, ret, outside>>
    BY DEF ReadCopy, At, GoTo
<1>2. /\ done \in Nat /\ left \in Nat /\ n \in 0..BufLen /\ n >= 1 /\ n <= left
      /\ nonblock \in BOOLEAN /\ mark \in Index /\ ret \in Int
    BY <1>1 DEF UartInv, TypesKept, UartTypeOK, Reserved
<1>3. Reserved'
    BY <1>1 DEF UartInv, Reserved, shared, rxRing, UsedRx
<1>4. done' \in Nat /\ left' \in Nat /\ done' > 0
    BY <1>1, <1>2, Sizes
<1>5. CallState'
    BY <1>1, <1>4 DEF CallState
<1> QED
    BY <1>1, <1>2, <1>3, <1>4, <1>5, ThreadStep DEF ReadPcs

LEMMA ReadAdvanceKeeps == ASSUME UartInv, ReadAdvance PROVE UartInv'
<1>1. pc = "rdAdvance" /\ pc' = (IF left > 0 THEN "rdSample" ELSE "rdEnable")
      /\ rx_out' = Slot(rx_out + n)
      /\ UNCHANGED <<rx_buf, rx_in, txRing, control, locals, ret, outside>>
    BY DEF ReadAdvance, At, GoTo
<1>2. rx_out' \in Index
  <2>1. rx_out \in Index /\ n \in 0..BufLen
      BY DEF UartInv, TypesKept, UartTypeOK
  <2>2. rx_out + n <= BufLen
      BY <1>1 DEF UartInv, Reserved
  <2> QED
      BY <1>1, <2>1, <2>2, Sizes, SlotOf DEF Index
<1>3. TypesKept'
    BY <1>1, <1>2 DEF UartInv, TypesKept, UartTypeOK, ReadPcs, txRing, control, locals,
                      outside, isr, wire, core, host
<1>4. left > 0 \/ ~(left > 0)
    OBVIOUS
<1>5. Reserved' /\ CallState' /\ ReceiveNotStuck'
    BY <1>1 DEF UartInv, Reserved, CallState, ReceiveNotStuck, ReadPcs, locals
<1>6. RoomKept' /\ TransmitArmed'
    BY <1>1 DEF UartInv, RoomKept, TransmitArmed, txRing, control, outside, isr, wire, core
<1> QED
    BY <1>3, <1>5, <1>6 DEF UartInv

LEMMA ReadEnableKeeps == ASSUME UartInv, ReadEnable PROVE UartInv'
<1>1. pc = "rdEnable" /\ Return(done) /\ irq_enable' = irq_enable \union {"RE"}
      /\ UNCHANGED <<rxRing, txRing, host_inactive, timeout, outside>>
    BY DEF ReadEnable, At
<1>2. done \in Int
    BY DEF UartInv, TypesKept, UartTypeOK
<1>3. TypesKept'
    BY <1>1, <1>2, Sizes DEF UartInv, TypesKept, UartTypeOK, Return, rxRing, txRing,
                      outside, isr, wire, core, host
<1>4. Reserved' /\ CallState' /\ ReceiveNotStuck' /\ RoomKept'
    BY <1>1 DEF UartInv, Reserved, CallState, ReceiveNotStuck, RoomKept, Return,
                outside, isr, wire, core
<1>5. TransmitArmed'
    BY <1>1 DEF UartInv, TransmitArmed, txRing
<1> QED
    BY <1>3, <1>4, <1>5 DEF UartInv

LEMMA ReadCheckKeeps == ASSUME UartInv, ReadCheck PROVE UartInv'
<1>1. pc = "rdCheck" /\ UNCHANGED <<shared, outside>> /\ left > 0 /\ done = 0
    BY DEF ReadCheck, At, UartInv, CallState
<1>2. CASE mark = rx_in
  <2>1. Return(EIO)
      BY <1>2 DEF ReadCheck
  <2> QED
      BY <1>1, <2>1, Sizes, Returned
<1>3. CASE mark # rx_in
  <2>1. pc' = "rdSample" /\ UNCHANGED <<locals, ret>>
      BY <1>3 DEF ReadCheck, GoTo
  <2>2. Reserved' /\ CallState'
      BY <1>1, <2>1 DEF Reserved, CallState, locals
  <2> QED
      BY <1>1, <2>1, <2>2, ThreadStep DEF UartInv, TypesKept, UartTypeOK, ReadPcs, locals
<1> QED
    BY <1>2, <1>3

LEMMA WriteCallKeeps ==
    ASSUME UartInv, NEW count \in Lengths, NEW nb \in BOOLEAN, WriteCall(count, nb)
    PROVE  UartInv'
<1>1. pc = "idle" /\ pc' = (IF count > 0 THEN "wrSample" ELSE "wrKick") /\ left' = count
      /\ nonblock' = nb /\ UNCHANGED <<shared, done, mark, n, ret, outside>>
    BY DEF WriteCall, At, GoTo
<1>2. count \in Nat
    BY UartAssumption
<1>3. Reserved' /\ CallState'
    BY <1>1, <1>2 DEF Reserved, CallState
<1> QED
    BY <1>1, <1>2, <1>3, ThreadStep DEF UartInv, TypesKept, UartTypeOK, ReadPcs, WritePcs

LEMMA WriteSampleKeeps == ASSUME UartInv, WriteSample PROVE UartInv'
<1> DEFINE room == WriteChunk(tx_in, tx_out)
<1>1. pc = "wrSample" /\ UNCHANGED <<shared, nonblock, left, done, ret, outside>>
      /\ n' = Least(room, left) /\ mark' = tx_out
      /\ pc' = IF room > 0 THEN "wrCopy" ELSE "wrKick"
    BY DEF WriteSample, At, GoTo
<1>2. /\ tx_in \in Index /\ tx_out \in Index /\ nonblock \in BOOLEAN
      /\ done \in Nat /\ ret \in Int /\ left \in Nat /\ left > 0
    BY <1>1 DEF UartInv, TypesKept, UartTypeOK, CallState
<1>3. room \in 0..BufLen /\ UsedTx + room < BufLen /\ tx_in + room <= BufLen
      /\ UsedTx \in Index
    BY <1>2, Chunks, Moves DEF UsedTx
<1>4. UNCHANGED <<tx_in, UsedTx>>
    BY <1>1 DEF shared, txRing, UsedTx
<1> HIDE DEF room
<1>5. n' \in 0..BufLen /\ n' <= room /\ n' <= left /\ (room > 0 => n' >= 1)
    BY <1>1, <1>2, <1>3, Sizes DEF Least
<1>6. UsedTx + n' < BufLen /\ tx_in + n' <= BufLen
  <2>1. \A u, i \in Index, r, x \in 0..BufLen :
          u + r < BufLen /\ i + r <= BufLen /\ x <= r => u + x < BufLen /\ i + x <= BufLen
      BY Sizes DEF Index
  <2> QED
      BY <1>2, <1>3, <1>5, <2>1
<1>7. room > 0 \/ ~(room > 0)
    OBVIOUS
<1>8. Reserved'
    BY <1>1, <1>4, <1>5, <1>6, <1>7 DEF Reserved
<1>9. CallState'
    BY <1>1, <1>7 DEF CallState
<1>10. pc' \in {"wrCopy", "wrKick"}
    BY <1>1, <1>7
<1> QED
    BY <1>1, <1>2, <1>5, <1>8, <1>9, <1>10, ThreadStep DEF ReadPcs, WritePcs

LEMMA WriteCopyKeeps == ASSUME UartInv, WriteCopy PROVE UartInv'
<1>1. pc = "wrCopy" /\ pc' = "wrAdvance" /\ done' = done + n /\ left' = left - n
      /\ txSent' = (txSent + n) % Numbers
      /\ UNCHANGED <<rxRing, tx_in, tx_out, control, nonblock, mark, n, ret,
                     isr, core, host, rxSent>>
    BY DEF WriteCopy, At, GoTo
<1>2. /\ done \in Nat /\ left \in Nat /\ n \in 0..BufLen /\ n >= 1 /\ n <= left
      /\ tx_buf \in [Index -> Number] /\ txSent \in Number /\ tx_in \in Index
    BY <1>1 DEF UartInv, TypesKept, UartTypeOK, Reserved
<1>3. done' \in Nat /\ left' \in Nat
    BY <1>1, <1>2, Sizes
<1>4. \A x \in Nat : x % Numbers \in Number
    BY Sizes DEF Number
<1>5. txSent' \in Number
    BY <1>1, <1>2, <1>4, Sizes DEF Number
<1>6. tx_buf' \in [Index -> Number]
  <2>1. tx_buf' = [i \in Index |-> IF i \in tx_in..(tx_in + n - 1)
                                   THEN (txSent + i - tx_in) % Numbers ELSE tx_buf[i]]
      BY <1>2 DEF WriteCopy
  <2>2. \A i \in tx_in..(tx_in + n - 1) : (txSent + i - tx_in) % Numbers \in Number
    <3> SUFFICES ASSUME NEW i \in tx_in..(tx_in + n - 1)
                 PROVE  (txSent + i - tx_in) % Numbers \in Number
        OBVIOUS
    <3>1. txSent + i - tx_in \in Nat
        BY <1>2, Sizes DEF Number, Index
    <3> QED
        BY <1>4, <3>1
  <2> QED
      BY <1>2, <2>1, <2>2
<1>7. TypesKept'
    BY <1>1, <1>3, <1>5, <1>6 DEF UartInv, TypesKept, UartTypeOK, WritePcs, rxRing, control,
       isr, core, host
<1>8. Reserved'
    BY <1>1 DEF UartInv, Reserved, UsedTx
<1>9. CallState' /\ RoomKept' /\ ReceiveNotStuck' /\ TransmitArmed'
    BY <1>1 DEF UartInv, CallState, RoomKept, ReceiveNotStuck, TransmitArmed, ReadPcs,
                rxRing, control, isr, core
<1> QED
    BY <1>7, <1>8, <1>9 DEF UartInv

LEMMA WriteAdvanceKeeps == ASSUME UartInv, WriteAdvance PROVE UartInv'
<1>1. pc = "wrAdvance" /\ pc' = (IF left > 0 THEN "wrSample" ELSE "wrKick")
      /\ tx_in' = Slot(tx_in + n)
      /\ UNCHANGED <<rxRing, tx_buf, tx_out, control, locals, ret, outside>>
    BY DEF WriteAdvance, At, GoTo
<1>2. tx_in' \in Index
  <2>1. tx_in \in Index /\ n \in 0..BufLen
      BY DEF UartInv, TypesKept, UartTypeOK
  <2>2. tx_in + n <= BufLen
      BY <1>1 DEF UartInv, Reserved
  <2> QED
      BY <1>1, <2>1, <2>2, Sizes, SlotOf DEF Index
<1>3. TypesKept'
    BY <1>1, <1>2 DEF UartInv, TypesKept, UartTypeOK, WritePcs, rxRing, control, locals,
                      outside, isr, wire, core, host
<1>4. Reserved' /\ CallState' /\ TransmitArmed'
    BY <1>1 DEF UartInv, Reserved, CallState, TransmitArmed, locals
<1>5. RoomKept' /\ ReceiveNotStuck'
    BY <1>1 DEF UartInv, RoomKept, ReceiveNotStuck, ReadPcs, rxRing, control,
                outside, isr, wire, core
<1> QED
    BY <1>3, <1>4, <1>5 DEF UartInv

LEMMA WriteResultType == UartInv => WriteResult \in Int
BY Sizes DEF UartInv, TypesKept, UartTypeOK, WriteResult, NothingDone

LEMMA WriteKickKeeps == ASSUME UartInv, WriteKick PROVE UartInv'
<1>1. pc = "wrKick" /\ irq_enable' = irq_enable \union {"WE"}
      /\ UNCHANGED <<rxRing, txRing, host_inactive, timeout, outside>>
    BY DEF WriteKick, At
<1>2. CASE left > 0 /\ ~nonblock
  <2>1. pc' = "wrSpin" /\ UNCHANGED <<locals, ret>>
      BY <1>2 DEF WriteKick, GoTo
  <2>2. TypesKept'
      BY <1>1, <2>1 DEF UartInv, TypesKept, UartTypeOK, WritePcs, rxRing, txRing, locals,
                        outside, isr, wire, core, host
  <2>3. Reserved' /\ CallState' /\ ReceiveNotStuck' /\ RoomKept' /\ TransmitArmed'
      BY <1>1, <1>2, <2>1 DEF UartInv, Reserved, CallState, ReceiveNotStuck, RoomKept,
         TransmitArmed, ReadPcs, rxRing, locals, outside, isr, wire, core
  <2> QED
      BY <2>2, <2>3 DEF UartInv
<1>3. CASE ~(left > 0 /\ ~nonblock)
  <2>1. Return(WriteResult)
      BY <1>3 DEF WriteKick
  <2>2. TypesKept'
    <3>1. ret' \in Int /\ 0 \in Nat /\ 0 \in 0..BufLen
        BY <2>1, Sizes, WriteResultType DEF Return
    <3>2. irq_enable' \subseteq {"RE", "WE"}
        BY <1>1 DEF UartInv, TypesKept, UartTypeOK
    <3> QED
        BY <1>1, <2>1, <3>1, <3>2, Sizes DEF UartInv, TypesKept, UartTypeOK, Return,
           rxRing, txRing, outside, isr, wire, core, host
  <2>3. Reserved' /\ CallState' /\ ReceiveNotStuck' /\ RoomKept' /\ TransmitArmed'
      BY <1>1, <2>1 DEF UartInv, Reserved, CallState, ReceiveNotStuck, RoomKept,
         TransmitArmed, ReadPcs, Return, rxRing, outside, isr, wire, core
  <2> QED
      BY <2>2, <2>3 DEF UartInv
<1> QED
    BY <1>2, <1>3

LEMMA WriteCheckKeeps == ASSUME UartInv, WriteCheck PROVE UartInv'
<1>1. pc = "wrCheck" /\ UNCHANGED <<shared, outside>> /\ left > 0
    BY DEF WriteCheck, At, UartInv, CallState
<1>2. CASE mark = tx_out
  <2>1. Return(WriteResult)
      BY <1>2 DEF WriteCheck
  <2> QED
      BY <1>1, <2>1, WriteResultType, Returned DEF ReadPcs
<1>3. CASE mark # tx_out
  <2>1. pc' = "wrSample" /\ UNCHANGED <<locals, ret>>
      BY <1>3 DEF WriteCheck, GoTo
  <2>2. Reserved' /\ CallState'
      BY <1>1, <2>1 DEF Reserved, CallState, locals
  <2> QED
      BY <1>1, <2>1, <2>2, ThreadStep
      DEF UartInv, TypesKept, UartTypeOK, ReadPcs, WritePcs, locals
<1> QED
    BY <1>2, <1>3

LEMMA CloseCallKeeps ==
    ASSUME UartInv, NEW nb \in BOOLEAN, CloseCall(nb)
    PROVE  UartInv'
<1>1. pc = "idle" /\ pc' = "clSpin" /\ nonblock' = nb
      /\ UNCHANGED <<shared, left, done, mark, n, ret, outside>>
    BY DEF CloseCall, At, GoTo
<1>2. Reserved' /\ CallState'
    BY <1>1 DEF Reserved, CallState
<1> QED
    BY <1>1, <1>2, ThreadStep DEF UartInv, TypesKept, UartTypeOK, ReadPcs, ClosePcs

(* A spin or its look at the host.                                         *)
LEMMA SpinKeeps == ASSUME UartInv, SpinOnRing \/ SpinOnTimer PROVE UartInv'
<1>1. UNCHANGED <<shared, outside>> /\ UNCHANGED <<locals, ret>>
    BY DEF SpinOnRing, SpinOnTimer
<1>2. \/ pc \in {"rdSpin", "rdTimer"} /\ pc' \in {"rdSpin", "rdTimer", "rdCheck"}
      \/ pc \in {"wrSpin", "wrTimer"} /\ pc' \in {"wrSpin", "wrTimer", "wrCheck"}
      \/ pc \in {"clSpin", "clTimer"} /\ pc' \in {"clSpin", "clTimer"}
    BY DEF SpinOnRing, SpinOnTimer, At, GoTo
<1>3. Reserved'
    BY <1>2 DEF Reserved
<1>4. CallState'
    BY <1>1, <1>2 DEF UartInv, CallState, locals
<1>5. pc \in ReadPcs => done = 0
    BY <1>2 DEF UartInv, CallState, ReadPcs
<1>6. pc' \in ReadPcs \union WritePcs \union ClosePcs
    BY <1>2 DEF ReadPcs, WritePcs, ClosePcs
<1>7. pc \notin {"wrSample", "wrCopy", "wrAdvance", "wrKick"}
    BY <1>2
<1> QED
    BY <1>1, <1>3, <1>4, <1>5, <1>6, <1>7, ThreadStep
    DEF UartInv, TypesKept, UartTypeOK, locals

LEMMA CloseReturnKeeps == ASSUME UartInv, CloseReturn PROVE UartInv'
<1>1. pc \in {"clSpin", "clTimer"} /\ UNCHANGED <<shared, outside>>
    BY DEF CloseReturn, At
<1>2. Return(0) \/ Return(EWOULDBLOCK)
    BY DEF CloseReturn
<1>3. pc \notin ReadPcs /\ pc \notin {"wrSample", "wrCopy", "wrAdvance", "wrKick"}
    BY <1>1 DEF ReadPcs
<1> QED
    BY <1>1, <1>2, <1>3, Sizes, Returned

LEMMA SetTimeoutKeeps ==
    ASSUME UartInv, NEW arg \in TimeoutArgs, SetTimeout(arg)
    PROVE  UartInv'
<1>1. arg \in Int /\ IntMax \in Nat /\ IntMax > 3
    BY UartAssumption
<1>2. timeout' \in 2..IntMax
    BY <1>1 DEF SetTimeout
<1>3. UNCHANGED <<rxRing, txRing, irq_enable, host_inactive, thread, outside>>
    BY DEF SetTimeout
<1>4. TypesKept'
    BY <1>2, <1>3 DEF UartInv, TypesKept, UartTypeOK, rxRing, txRing, thread, locals,
       outside, isr, wire, core, host
<1>5. Reserved' /\ CallState' /\ ReceiveNotStuck' /\ RoomKept' /\ TransmitArmed'
    BY <1>3 DEF UartInv, Reserved, CallState, ReceiveNotStuck, RoomKept, TransmitArmed,
       UsedRx, UsedTx, rxRing, txRing, thread, locals, outside, isr, wire, core
<1> QED
    BY <1>4, <1>5 DEF UartInv

LEMMA IsrControlKeeps == ASSUME UartInv, IsrControl PROVE UartInv'
<1>1. UNCHANGED <<shared, thread, wire>> /\ wi' = WritePending /\ ravail' = ReadPending
      /\ space' = (IF WritePending THEN WSpace ELSE 0)
    BY DEF IsrControl
<1>2. pcIsr' \in {"off", "rx", "tx"}
    BY DEF IsrControl
<1>3. Len(wfifo) \in Nat /\ Len(wfifo) <= FifoLen
    BY LenProperties DEF UartInv, TypesKept, UartTypeOK
<1>4. space' \in 0..FifoLen /\ space' + Len(wfifo) <= FifoLen
  <2>1. WritePending \/ ~WritePending
      OBVIOUS
  <2> QED
      BY <1>1, <1>3, <2>1, Sizes DEF WSpace
<1>5. wi' \in BOOLEAN /\ ravail' \in BOOLEAN
    BY <1>1 DEF ReadPending, WritePending, UartInv, TypesKept, UartTypeOK
<1>6. TypesKept'
    BY <1>1, <1>2, <1>4, <1>5 DEF UartInv, TypesKept, UartTypeOK, shared, rxRing, txRing,
       control, thread, locals, wire, core, host
<1>7. RoomKept'
    BY <1>1, <1>4 DEF RoomKept, wire, core
<1>8. Reserved' /\ CallState' /\ ReceiveNotStuck' /\ TransmitArmed'
    BY <1>1 DEF UartInv, Reserved, CallState, ReceiveNotStuck, TransmitArmed,
       UsedRx, UsedTx, shared, rxRing, txRing, control, thread, locals
<1> QED
    BY <1>6, <1>7, <1>8 DEF UartInv

LEMMA IsrReceiveKeeps == ASSUME UartInv, IsrReceive PROVE UartInv'
<1>1. /\ ~RxFull /\ rfifo # <<>> /\ rx_buf' = [rx_buf EXCEPT ![rx_in] = Head(rfifo)]
      /\ rx_in' = Slot(rx_in + 1) /\ rfifo' = Tail(rfifo) /\ pause' = FALSE
      /\ ravail' = (Len(rfifo) > 1)
      /\ UNCHANGED <<rx_out, txRing, control, thread, pcIsr, wi, space, wfifo, ac, host,
                     rxSent, txSent>>
    BY DEF IsrReceive
<1>2. /\ rx_in \in Index /\ rx_out \in Index /\ rx_buf \in [Index -> Number]
      /\ rfifo \in Seq(Number) /\ Len(rfifo) <= FifoLen
    BY DEF UartInv, TypesKept, UartTypeOK
<1>3. /\ Head(rfifo) \in Number /\ Tail(rfifo) \in Seq(Number) /\ Len(rfifo) \in Nat
      /\ Len(Tail(rfifo)) = Len(rfifo) - 1
    BY <1>1, <1>2, HeadTailProperties, LenProperties
<1>4. Len(rfifo') <= FifoLen
    BY <1>1, <1>2, <1>3, Sizes
<1>5. /\ rx_in' \in Index /\ rx_in' # rx_out /\ UsedRx' = UsedRx + 1 /\ UsedRx \in Index
    BY <1>1, <1>2, Moves DEF RxFull, UsedRx
<1>6. rx_buf' \in [Index -> Number]
    BY <1>1, <1>2, <1>3
<1>7. pause' \in BOOLEAN /\ ravail' \in BOOLEAN /\ rfifo' \in Seq(Number)
  <2>1. ravail' = (Len(rfifo) > 1)
      BY <1>1
  <2>2. (Len(rfifo) > 1) \in BOOLEAN
      BY <1>3
  <2>3. ravail' \in BOOLEAN
      BY <2>1, <2>2, Zenon
  <2> QED
      BY <1>1, <1>3, <2>3
<1>8. TypesKept'
    BY <1>1, <1>4, <1>5, <1>6, <1>7 DEF UartInv, TypesKept, UartTypeOK, txRing,
       control, thread, locals, host
<1>9. Reserved'
  <2>1. UNCHANGED <<pc, n, left, rx_out, tx_in, UsedTx>>
      BY <1>1 DEF thread, locals, txRing, UsedTx
  <2>2. n \in 0..BufLen
      BY DEF UartInv, TypesKept, UartTypeOK
  <2>3. n <= UsedRx => n <= UsedRx'
      BY <1>5, <2>2, Sizes DEF Index
  <2> QED
      BY <2>1, <2>3 DEF UartInv, Reserved
<1>10. CallState' /\ RoomKept' /\ TransmitArmed'
    BY <1>1 DEF UartInv, CallState, RoomKept, TransmitArmed, txRing, control, thread, locals
<1>11. ReceiveNotStuck'
    BY <1>1, <1>5 DEF ReceiveNotStuck
<1> QED
    BY <1>8, <1>9, <1>10, <1>11 DEF UartInv

LEMMA IsrReceiveEndKeeps == ASSUME UartInv, IsrReceiveEnd PROVE UartInv'
<1>1. /\ pause' = (RxFull /\ pause) /\ pcIsr' = (IF wi THEN "tx" ELSE "ctl")
      /\ irq_enable' = IF RxFull /\ ravail THEN irq_enable \ {"RE"} ELSE irq_enable
      /\ ravail' = FALSE
      /\ UNCHANGED <<rxRing, txRing, host_inactive, timeout, thread, wi, space, rfifo,
                     wfifo, ac, host, rxSent, txSent>>
    BY DEF IsrReceiveEnd
<1>2. rx_in \in Index /\ rx_out \in Index /\ pause \in BOOLEAN /\ irq_enable \subseteq {"RE", "WE"}
    BY DEF UartInv, TypesKept, UartTypeOK
<1>3. RxFull => rx_in # rx_out
    BY <1>2, Moves DEF RxFull
<1>4. pause' \in BOOLEAN /\ irq_enable' \subseteq {"RE", "WE"} /\ pcIsr' \in {"tx", "ctl"}
    BY <1>1, <1>2
<1>5. TypesKept'
    BY <1>1, <1>4 DEF UartInv, TypesKept, UartTypeOK, rxRing, txRing, thread, locals, host
<1>6. Reserved' /\ CallState' /\ RoomKept'
    BY <1>1 DEF UartInv, Reserved, CallState, RoomKept, UsedRx, UsedTx, rxRing, txRing,
       thread, locals
<1>7. ReceiveNotStuck'
    BY <1>1, <1>3 DEF UartInv, ReceiveNotStuck, rxRing, thread, locals
<1>8. TransmitArmed'
    BY <1>1 DEF UartInv, TransmitArmed, txRing, thread
<1> QED
    BY <1>5, <1>6, <1>7, <1>8 DEF UartInv

LEMMA IsrTransmitKeeps == ASSUME UartInv, IsrTransmit PROVE UartInv'
<1>1. /\ space > 0 /\ tx_out # tx_in /\ tx_out' = Slot(tx_out + 1) /\ space' = space - 1
      /\ wfifo' = IF Len(wfifo) < FifoLen THEN Append(wfifo, tx_buf[tx_out]) ELSE wfifo
      /\ UNCHANGED <<rxRing, tx_buf, tx_in, control, thread, pcIsr, wi, ravail, rfifo,
                     pause, ac, host, rxSent, txSent>>
    BY DEF IsrTransmit
<1>2. /\ tx_in \in Index /\ tx_out \in Index /\ tx_buf \in [Index -> Number]
      /\ wfifo \in Seq(Number) /\ space \in 0..FifoLen /\ Len(wfifo) \in Nat
      /\ space + Len(wfifo) <= FifoLen
    BY LenProperties DEF UartInv, TypesKept, UartTypeOK, RoomKept
<1>3. Len(wfifo) < FifoLen
    BY <1>1, <1>2, Sizes
<1>4. /\ wfifo' \in Seq(Number) /\ Len(wfifo') = Len(wfifo) + 1
    BY <1>1, <1>2, <1>3, AppendProperties
<1>5. /\ Len(wfifo') <= FifoLen /\ space' \in 0..FifoLen
      /\ space' + Len(wfifo') <= FifoLen
    BY <1>1, <1>2, <1>4, Sizes
<1>6. tx_out' \in Index /\ UsedTx' = UsedTx - 1 /\ UsedTx \in Index
    BY <1>1, <1>2, Moves DEF UsedTx
<1>7. TypesKept'
    BY <1>1, <1>4, <1>5, <1>6 DEF UartInv, TypesKept, UartTypeOK, rxRing, control, thread,
       locals, host
<1>8. Reserved'
  <2>1. UNCHANGED <<pc, n, left, rx_out, tx_in, UsedRx>>
      BY <1>1 DEF thread, locals, rxRing, UsedRx
  <2>2. n \in 0..BufLen
      BY DEF UartInv, TypesKept, UartTypeOK
  <2>3. UsedTx + n < BufLen => UsedTx' + n < BufLen
      BY <1>6, <2>2, Sizes DEF Index
  <2> QED
      BY <2>1, <2>3 DEF UartInv, Reserved
<1>9. CallState' /\ RoomKept' /\ ReceiveNotStuck' /\ TransmitArmed'
    BY <1>1, <1>5 DEF UartInv, CallState, RoomKept, ReceiveNotStuck, TransmitArmed,
       rxRing, control, thread, locals
<1> QED
    BY <1>7, <1>8, <1>9 DEF UartInv

LEMMA IsrTransmitEndKeeps == ASSUME UartInv, IsrTransmitEnd PROVE UartInv'
<1>1. /\ space = 0 \/ tx_out = tx_in
      /\ irq_enable' = IF space > 0 THEN irq_enable \ {"WE"} ELSE irq_enable
      /\ pcIsr' = "ctl" /\ space' = 0 /\ wi' = FALSE
      /\ UNCHANGED <<rxRing, txRing, host_inactive, timeout, thread, ravail, wire>>
    BY DEF IsrTransmitEnd
<1>2. irq_enable \subseteq {"RE", "WE"} /\ wfifo \in Seq(Number) /\ Len(wfifo) \in Nat
      /\ Len(wfifo) <= FifoLen
    BY LenProperties DEF UartInv, TypesKept, UartTypeOK
<1>3. irq_enable' \subseteq {"RE", "WE"} /\ space' \in 0..FifoLen
      /\ space' + Len(wfifo) <= FifoLen
    BY <1>1, <1>2, Sizes
<1>4. TypesKept'
    BY <1>1, <1>3 DEF UartInv, TypesKept, UartTypeOK, rxRing, txRing, thread, locals, wire,
       core, host
<1>5. Reserved' /\ CallState' /\ RoomKept'
    BY <1>1, <1>3 DEF UartInv, Reserved, CallState, RoomKept, UsedRx, UsedTx, rxRing,
       txRing, thread, locals, wire, core
<1>6. ReceiveNotStuck'
    BY <1>1 DEF UartInv, ReceiveNotStuck, rxRing, thread, locals
<1>7. TransmitArmed'
  <2>1. CASE space > 0
      BY <1>1, <2>1 DEF TransmitArmed, txRing
  <2>2. CASE ~(space > 0)
      BY <1>1, <2>2 DEF UartInv, TransmitArmed, txRing, thread
  <2> QED
      BY <2>1, <2>2
<1> QED
    BY <1>4, <1>5, <1>6, <1>7 DEF UartInv

LEMMA AlarmTimeoutKeeps == ASSUME UartInv, AlarmTimeout PROVE UartInv'
<1>1. /\ host_inactive' = IF ac THEN 0
                          ELSE IF host_inactive < IntMax - 2 THEN host_inactive + 1
                          ELSE host_inactive
      /\ ac' = FALSE
      /\ UNCHANGED <<rxRing, txRing, irq_enable, timeout, thread, isr, rfifo, wfifo,
                     pause, host, rxSent, txSent>>
    BY DEF AlarmTimeout
<1>2. host_inactive \in 0..IntMax /\ host_inactive <= IntMax - 2
    BY DEF UartInv, TypesKept, UartTypeOK
<1>3. host_inactive' \in 0..IntMax /\ host_inactive' <= IntMax - 2
    BY <1>1, <1>2, Sizes
<1>4. TypesKept'
    BY <1>1, <1>3 DEF UartInv, TypesKept, UartTypeOK, rxRing, txRing, thread, locals, isr,
       host
<1>5. Reserved' /\ CallState' /\ RoomKept' /\ ReceiveNotStuck' /\ TransmitArmed'
    BY <1>1 DEF UartInv, Reserved, CallState, RoomKept, ReceiveNotStuck, TransmitArmed,
       UsedRx, UsedTx, rxRing, txRing, thread, locals, isr
<1> QED
    BY <1>4, <1>5 DEF UartInv

(* The host and the two FIFOs of the core.                                 *)
LEMMA HostKeeps ==
    ASSUME UartInv, HostPlug \/ HostSend \/ HostPause \/ HostTake
    PROVE  UartInv'
<1>1. UNCHANGED <<shared, thread, isr>>
    BY DEF HostPlug, HostSend, HostPause, HostTake
<1>2. /\ rfifo \in Seq(Number) /\ wfifo \in Seq(Number) /\ Len(rfifo) \in Nat
      /\ Len(wfifo) \in Nat /\ Len(rfifo) <= FifoLen /\ Len(wfifo) <= FifoLen
      /\ rxSent \in Number /\ txSent \in Number /\ pause \in BOOLEAN /\ ac \in BOOLEAN
      /\ connected \in BOOLEAN /\ space \in 0..FifoLen
    BY LenProperties DEF UartInv, TypesKept, UartTypeOK
<1>3. rfifo' \in Seq(Number) /\ Len(rfifo') <= FifoLen /\ rxSent' \in Number
  <2>1. CASE HostSend
    <3>1. Len(rfifo) < FifoLen /\ rfifo' = Append(rfifo, rxSent)
          /\ rxSent' = (rxSent + 1) % Numbers
        BY <2>1 DEF HostSend
    <3>2. rfifo' \in Seq(Number) /\ Len(rfifo') = Len(rfifo) + 1
        BY <1>2, <3>1, AppendProperties
    <3> QED
        BY <1>2, <3>1, <3>2, Sizes DEF Number
  <2>2. CASE HostPlug \/ HostPause \/ HostTake
      BY <1>2, <2>2 DEF HostPlug, HostPause, HostTake, core
  <2> QED
      BY <2>1, <2>2
<1>4. wfifo' \in Seq(Number) /\ Len(wfifo') \in Nat /\ Len(wfifo') <= Len(wfifo)
  <2>1. CASE HostTake
    <3>1. wfifo # <<>> /\ wfifo' = Tail(wfifo)
        BY <2>1 DEF HostTake
    <3>2. wfifo' \in Seq(Number) /\ Len(wfifo') = Len(wfifo) - 1 /\ Len(wfifo') \in Nat
        BY <1>2, <3>1, HeadTailProperties, LenProperties
    <3> QED
        BY <1>2, <3>2
  <2>2. CASE HostPlug \/ HostPause \/ HostSend
      BY <1>2, <2>2 DEF HostPlug, HostPause, HostSend, core
  <2> QED
      BY <2>1, <2>2
<1>5. /\ txSent' = txSent /\ pause' \in BOOLEAN /\ ac' \in BOOLEAN
      /\ connected' \in BOOLEAN
    BY <1>2 DEF HostPlug, HostSend, HostPause, HostTake, core, host
<1>6. Len(wfifo') <= FifoLen /\ (space + Len(wfifo) <= FifoLen => space + Len(wfifo') <= FifoLen)
    BY <1>2, <1>4, Sizes
<1>7. TypesKept'
    BY <1>1, <1>2, <1>3, <1>4, <1>5, <1>6 DEF UartInv, TypesKept, UartTypeOK, shared,
       rxRing, txRing, control, thread, locals, isr
<1>8. Reserved' /\ CallState' /\ RoomKept' /\ ReceiveNotStuck' /\ TransmitArmed'
    BY <1>1, <1>6 DEF UartInv, Reserved, CallState, RoomKept, ReceiveNotStuck,
       TransmitArmed, UsedRx, UsedTx, shared, rxRing, txRing, control, thread, locals, isr
<1> QED
    BY <1>7, <1>8 DEF UartInv

LEMMA NextUartInv == UartInv /\ [Next]_vars => UartInv'
<1> SUFFICES ASSUME UartInv, [Next]_vars PROVE UartInv'
    OBVIOUS
<1>1. CASE Application
    BY <1>1, ReadCallKeeps, WriteCallKeeps, CloseCallKeeps, SetTimeoutKeeps DEF Application
<1>2. CASE Thread
    BY <1>2, ReadSampleKeeps, ReadCopyKeeps, ReadAdvanceKeeps, ReadEnableKeeps,
       ReadCheckKeeps, WriteSampleKeeps, WriteCopyKeeps, WriteAdvanceKeeps, WriteKickKeeps,
       WriteCheckKeeps, SpinKeeps, CloseReturnKeeps DEF Thread
<1>3. CASE Isr
    BY <1>3, IsrControlKeeps, IsrReceiveKeeps, IsrReceiveEndKeeps, IsrTransmitKeeps,
       IsrTransmitEndKeeps DEF Isr
<1>4. CASE AlarmTimeout \/ HostPlug \/ HostSend \/ HostPause \/ HostTake
    BY <1>4, AlarmTimeoutKeeps, HostKeeps
<1>5. CASE UNCHANGED vars
    BY <1>5 DEF UartInv, TypesKept, UartTypeOK, Reserved, CallState, RoomKept,
       ReceiveNotStuck, TransmitArmed, UsedRx, UsedTx, vars, shared, rxRing, txRing,
       control, thread, locals, outside, isr, wire, core, host
<1> QED
    BY <1>1, <1>2, <1>3, <1>4, <1>5 DEF Next

LEMMA UartInvAlways == Spec => []UartInv
BY InitUartInv, NextUartInv, PTL DEF Spec

(* Both rings and both FIFOs keep to their sizes and the numbers in them;  *)
(* receive interrupts are off only while the application has bytes to read *)
(* or is about to turn them on; and bytes wait to be sent only with        *)
(* transmit interrupts on or with a writer about to turn them on.          *)
THEOREM RingsKeptAlways == Spec => []RingsKept
<1>1. UartInv => RingsKept
    BY DEF UartInv, TypesKept, RingsKept
<1> QED
    BY <1>1, UartInvAlways, PTL

(* A timeout that means "never" never expires: the seconds are not counted *)
(* past INT_MAX - 2.                                                       *)
THEOREM NeverMeansNeverAlways == Spec => []NeverMeansNever
<1>1. UartInv => NeverMeansNever
  <2> SUFFICES ASSUME UartInv PROVE NeverMeansNever
      OBVIOUS
  <2>1. host_inactive \in 0..IntMax /\ host_inactive <= IntMax - 2 /\ timeout \in 2..IntMax
      BY DEF UartInv, TypesKept, UartTypeOK
  <2> QED
      BY <2>1, Sizes DEF NeverMeansNever, HostGone
<1> QED
    BY <1>1, UartInvAlways, PTL
-----------------------------------------------------------------------------
(* Sequences                                                               *)

LEMMA TakeFront ==
    ASSUME NEW S, NEW s \in Seq(S), NEW t \in Seq(S)
    PROVE  /\ SubSeq(s \o t, 1, Len(s)) = s
           /\ SubSeq(s \o t, Len(s) + 1, Len(s \o t)) = t
<1> DEFINE q == s \o t
<1>1. /\ Len(s) \in Nat /\ Len(t) \in Nat
      /\ \A i \in 1..Len(s) : s[i] \in S
      /\ \A i \in 1..Len(t) : t[i] \in S
    BY LenProperties, ElementOfSeq
<1>2. /\ q \in Seq(S) /\ Len(q) = Len(s) + Len(t)
      /\ \A i \in 1..Len(q) : q[i] = IF i <= Len(s) THEN s[i] ELSE t[i - Len(s)]
    BY ConcatProperties
<1> HIDE DEF q
<1>3. \A i \in 1..Len(q) : q[i] \in S
    BY <1>2, ElementOfSeq
<1>4. SubSeq(q, 1, Len(s)) = s
  <2> DEFINE f == SubSeq(q, 1, Len(s))
  <2>1. /\ f \in Seq(S) /\ Len(f) = Len(s)
        /\ \A i \in 1..Len(s) : f[i] = q[i]
    <3>1. \A i \in 1..Len(s) : q[i] \in S
        BY <1>1, <1>2, <1>3
    <3>2. /\ f \in Seq(S) /\ Len(f) = IF 1 <= Len(s) THEN Len(s) - 1 + 1 ELSE 0
          /\ \A i \in 1..(Len(s) - 1 + 1) : f[i] = q[1 + i - 1]
        BY <1>1, <3>1, SubSeqProperties
    <3> HIDE DEF f
    <3> QED
        BY <1>1, <3>2
  <2> HIDE DEF f
  <2>2. \A i \in 1..Len(s) : f[i] = s[i]
      BY <1>1, <1>2, <2>1
  <2>3. f = s
      BY <2>1, <2>2, SeqEqual
  <2> QED
      BY <2>3 DEF f
<1>5. SubSeq(q, Len(s) + 1, Len(q)) = t
  <2> DEFINE a == Len(s) + 1
             b == Len(q)
             f == SubSeq(q, a, b)
  <2>1. a \in Int /\ b \in Int /\ \A i \in a..b : q[i] \in S
      BY <1>1, <1>2, <1>3
  <2> HIDE DEF a, b
  <2>2. /\ f \in Seq(S) /\ Len(f) = IF a <= b THEN b - a + 1 ELSE 0
        /\ \A i \in 1..(b - a + 1) : f[i] = q[a + i - 1]
      BY <2>1, SubSeqProperties
  <2> HIDE DEF f
  <2>3. Len(f) = Len(t) /\ \A i \in 1..Len(t) : f[i] = q[Len(s) + i]
    <3>1. b - a + 1 = Len(t) /\ \A i \in Nat : a + i - 1 = Len(s) + i
        BY <1>1, <1>2 DEF a, b
    <3>2. Len(f) = Len(t)
      <4>1. a <= b \/ Len(t) = 0
          BY <1>1, <1>2 DEF a, b
      <4>2. a <= b => Len(t) # 0
          BY <1>1, <1>2 DEF a, b
      <4> QED
          BY <2>2, <3>1, <4>1, <4>2
    <3>3. \A i \in 1..Len(t) : i \in Nat
        BY <1>1
    <3> QED
        BY <2>2, <3>1, <3>2, <3>3
  <2>4. ASSUME NEW i \in 1..Len(t) PROVE f[i] = t[i]
    <3>1. Len(s) + i \in 1..Len(q) /\ ~(Len(s) + i <= Len(s)) /\ (Len(s) + i) - Len(s) = i
        BY <1>1, <1>2
    <3> QED
        BY <1>2, <2>3, <3>1
  <2>5. f = t
      BY <2>2, <2>3, <2>4, SeqEqual
  <2> QED
      BY <2>5 DEF f, a, b
<1> QED
    BY <1>4, <1>5 DEF q

LEMMA HeadAndTail ==
    ASSUME NEW S, NEW s \in Seq(S), s # <<>>
    PROVE  /\ <<Head(s)>> \in Seq(S) /\ Len(<<Head(s)>>) = 1
           /\ s = <<Head(s)>> \o Tail(s)
<1> DEFINE h == <<Head(s)>>
           t == Tail(s)
<1>1. Head(s) \in S /\ Tail(s) \in Seq(S) /\ Len(s) \in Nat /\ Len(Tail(s)) \in Nat
    BY HeadTailProperties, LenProperties
<1>2. h \in Seq(S) /\ Len(h) = 1 /\ h[1] = Head(s)
    BY <1>1
<1>3. /\ t \in Seq(S) /\ Len(t) \in Nat /\ Len(t) = Len(s) - 1
      /\ \A i \in 1..Len(t) : t[i] = s[i + 1]
      /\ Head(s) = s[1]
    BY <1>1, HeadTailProperties
<1> HIDE DEF h, t
<1>4. /\ h \o t \in Seq(S) /\ Len(h \o t) = 1 + Len(t)
      /\ \A i \in 1..(1 + Len(t)) : (h \o t)[i] = IF i <= 1 THEN h[i] ELSE t[i - 1]
  <2>1. /\ h \o t \in Seq(S) /\ Len(h \o t) = Len(h) + Len(t)
        /\ \A i \in 1..(Len(h) + Len(t)) :
             (h \o t)[i] = IF i <= Len(h) THEN h[i] ELSE t[i - Len(h)]
    <3>1. h \in Seq(S) /\ t \in Seq(S)
        BY <1>2, <1>3
    <3> QED
        BY <3>1, ConcatProperties
  <2> QED
      BY <1>2, <2>1
<1>5. ASSUME NEW i \in 1..Len(s) PROVE s[i] = (h \o t)[i]
  <2>1. CASE i = 1
      BY <1>1, <1>2, <1>3, <1>4, <2>1 DEF t
  <2>2. CASE i # 1
    <3>1. i - 1 \in 1..Len(t) /\ (i - 1) + 1 = i /\ ~(i <= 1) /\ i \in 1..(1 + Len(t))
        BY <1>1, <1>3, <2>2
    <3> QED
        BY <1>3, <1>4, <3>1
  <2> QED
      BY <2>1, <2>2
<1>6. Len(h \o t) = Len(s)
    BY <1>1, <1>3, <1>4 DEF t
<1>7. s = h \o t
    BY <1>4, <1>5, <1>6, SeqEqual
<1> QED
    BY <1>2, <1>7 DEF h, t
-----------------------------------------------------------------------------
(* Received bytes: the receive FIFO, the ring and the reader               *)

(* Where the reader has got to.                                            *)
RxFrom == IF pc = "rdAdvance" THEN rx_out + n ELSE rx_out
InRx == Ring(rx_buf, RxFrom, rx_in)

LEMMA RxParts ==
    ASSUME UartInv
    PROVE  /\ RxQueue = InRx \o rfifo /\ RxFrom \in Ends
           /\ InRx \in Seq(Number) /\ rfifo \in Seq(Number)
           /\ Len(InRx) = Slot(rx_in - RxFrom) /\ Len(InRx) < BufLen /\ Len(InRx) \in Nat
           /\ Len(RxQueue) = Len(InRx) + Len(rfifo) /\ Len(rfifo) \in Nat
<1>1. /\ rx_buf \in [Index -> Number] /\ rx_in \in Index /\ rx_out \in Index /\ n \in 0..BufLen
      /\ rfifo \in Seq(Number) /\ Len(rfifo) \in Nat
    BY LenProperties DEF UartInv, TypesKept, UartTypeOK
<1>2. rx_in \in Ends /\ RxFrom \in Ends
    BY <1>1, Sizes DEF UartInv, Reserved, RxFrom, Ends, Index
<1>3. /\ InRx \in Seq(Number) /\ Len(InRx) = Slot(rx_in - RxFrom) /\ Len(InRx) \in Index
    BY <1>1, <1>2, RingProperties DEF InRx
<1>4. RxQueue = InRx \o rfifo
    BY DEF RxQueue, InRx, RxFrom
<1>5. Len(RxQueue) = Len(InRx) + Len(rfifo)
    BY <1>1, <1>3, <1>4, ConcatProperties
<1> QED
    BY <1>1, <1>2, <1>3, <1>4, <1>5, Sizes DEF Index

(* Steps the stream does not see.                                          *)
RxStill == /\ UNCHANGED <<rx_buf, rx_in, rx_out, rfifo, rxSent, got>>
           /\ \/ pc # "rdAdvance" /\ pc' # "rdAdvance"
              \/ pc' = pc /\ n' = n
RxSame == UNCHANGED <<rxSent, RxQueue, got>>

LEMMA RxStutter == RxStill => RxSame
BY DEF RxStill, RxSame, RxQueue, Ring

LEMMA RxOthers ==
    \/ Application \/ ReadSample \/ ReadEnable \/ ReadCheck
    \/ WriteSample \/ WriteCopy \/ WriteAdvance \/ WriteKick \/ WriteCheck
    \/ SpinOnRing \/ SpinOnTimer \/ CloseReturn
    \/ IsrControl \/ IsrReceiveEnd \/ IsrTransmit \/ IsrTransmitEnd
    \/ AlarmTimeout \/ HostPlug \/ HostPause \/ HostTake \/ UNCHANGED vars
    => RxStill
<1>1. Application => RxStill
  <2>1. \A len, nb : ReadCall(len, nb) => RxStill
      BY DEF ReadCall, RxStill, At, GoTo, Return, shared, rxRing, outside, wire, core
  <2>2. \A len, nb : WriteCall(len, nb) => RxStill
      BY DEF WriteCall, RxStill, At, GoTo, shared, rxRing, outside, wire, core
  <2>3. \A nb : CloseCall(nb) => RxStill
      BY DEF CloseCall, RxStill, At, GoTo, shared, rxRing, outside, wire, core
  <2>4. \A arg : SetTimeout(arg) => RxStill
      BY DEF SetTimeout, RxStill, thread, locals, rxRing, outside, wire, core
  <2> QED
      BY <2>1, <2>2, <2>3, <2>4 DEF Application
<1>2. ReadSample => RxStill
    BY DEF ReadSample, RxStill, At, GoTo, Return, shared, rxRing, outside, wire, core
<1>3. ReadEnable \/ ReadCheck => RxStill
    BY DEF ReadEnable, ReadCheck, RxStill, At, GoTo, Return, shared, rxRing, outside, wire, core
<1>4. WriteSample \/ WriteCopy \/ WriteAdvance => RxStill
    BY DEF WriteSample, WriteCopy, WriteAdvance, RxStill, At, GoTo, shared, rxRing, outside,
           wire, core
<1>5. WriteKick \/ WriteCheck => RxStill
    BY DEF WriteKick, WriteCheck, RxStill, At, GoTo, Return, shared, rxRing, outside, wire, core
<1>6. SpinOnRing \/ SpinOnTimer \/ CloseReturn => RxStill
    BY DEF SpinOnRing, SpinOnTimer, CloseReturn, RxStill, At, GoTo, Return, shared, rxRing,
           outside, wire, core
<1>7. IsrControl \/ IsrReceiveEnd \/ IsrTransmit \/ IsrTransmitEnd => RxStill
    BY DEF IsrControl, IsrReceiveEnd, IsrTransmit, IsrTransmitEnd, RxStill, thread, locals,
           shared, rxRing, wire, core
<1>8. AlarmTimeout \/ HostPlug \/ HostPause \/ HostTake => RxStill
    BY DEF AlarmTimeout, HostPlug, HostPause, HostTake, RxStill, thread, locals, shared,
           rxRing, core
<1>9. UNCHANGED vars => RxStill
    BY DEF vars, RxStill, thread, locals, shared, rxRing, outside, wire, core
<1> QED
    BY <1>1, <1>2, <1>3, <1>4, <1>5, <1>6, <1>7, <1>8, <1>9

(* A byte sent is put behind.                                              *)
LEMMA RxSend == ASSUME UartInv, UartInv', HostSend PROVE Rx!Put(1)
<1>1. /\ Len(rfifo) < FifoLen /\ rfifo' = Append(rfifo, rxSent)
      /\ rxSent' = (rxSent + 1) % Numbers
      /\ UNCHANGED <<rx_buf, rx_in, rx_out, pc, n, got>>
    BY DEF HostSend, shared, rxRing, thread, locals
<1>2. rxSent \in Number
    BY DEF UartInv, TypesKept, UartTypeOK
<1>3. rfifo' = rfifo \o <<rxSent>> /\ <<rxSent>> \in Seq(Number)
    BY <1>1, <1>2, RxParts, AppendIsConcat
<1>4. InRx' = InRx
    BY <1>1 DEF InRx, RxFrom, Ring
<1>5. RxQueue' = RxQueue \o <<rxSent>>
  <2>1. RxQueue' = InRx' \o rfifo'
      BY DEF RxQueue, InRx, RxFrom
  <2> DEFINE new == <<rxSent>>
  <2>2. new \in Seq(Number) /\ InRx \in Seq(Number) /\ rfifo \in Seq(Number)
      BY <1>3, RxParts
  <2>3. RxQueue = InRx \o rfifo /\ RxQueue' = InRx \o (rfifo \o new)
      BY <1>3, <1>4, <2>1, RxParts
  <2> HIDE DEF new
  <2>4. RxQueue' = RxQueue \o new
      BY <2>2, <2>3, ConcatAssociative, SMTT(30)
  <2> QED
      BY <2>4 DEF new
<1>6. [i \in 1..1 |-> (rxSent + i - 1) % Numbers] = <<rxSent>>
  <2>1. \A x \in Number : x % Numbers = x
    <3>1. \A x \in Number : x = Numbers * 0 + x /\ x \in 0..(Numbers - 1) /\ x \in Int
        BY Sizes DEF Number
    <3> QED
        BY <3>1, Remainder, Sizes
  <2>2. (rxSent + 1 - 1) % Numbers = rxSent
    <3>1. rxSent + 1 - 1 = rxSent
        BY <1>2, Sizes DEF Number
    <3> QED
        BY <1>2, <2>1, <3>1
  <2> QED
      BY <2>2
<1>7. Len(RxQueue) + 1 <= BufLen - 1 + FifoLen
    BY <1>1, RxParts, Sizes
<1> QED
    BY <1>1, <1>5, <1>6, <1>7 DEF Rx!Put

(* The bytes the reader copies are taken in front.                         *)
LEMMA RxCopy == ASSUME UartInv, UartInv', ReadCopy PROVE n \in 1..(BufLen - 1 + FifoLen) /\ Rx!Take(n)
<1> DEFINE front == Slice(rx_buf, rx_out, n)
           rest == Ring(rx_buf, rx_out + n, rx_in)
<1>1. /\ pc = "rdCopy" /\ pc' = "rdAdvance" /\ got' = front
      /\ UNCHANGED <<rx_buf, rx_in, rx_out, n, rfifo, rxSent>>
    BY DEF ReadCopy, At, GoTo, shared, rxRing, outside, wire, core, Slice
<1>2. /\ n \in 0..BufLen /\ n >= 1 /\ n <= Slot(rx_in - rx_out) /\ rx_out + n <= BufLen
      /\ rx_buf \in [Index -> Number] /\ rx_in \in Index /\ rx_out \in Index
    BY <1>1 DEF UartInv, TypesKept, UartTypeOK, Reserved, UsedRx
<1>3. n \in Nat /\ rx_out \in Ends /\ rx_in \in Ends /\ rx_out + n \in Ends
    BY <1>2, Sizes DEF Ends, Index
<1>4. /\ front \in Seq(Number) /\ Len(front) = n
      /\ Ring(rx_buf, rx_out, rx_in) = front \o rest
    BY <1>2, <1>3, RingDrop
<1>5. rest \in Seq(Number)
    BY <1>2, <1>3, RingProperties
<1>6. RxQueue = (front \o rest) \o rfifo
    BY <1>1, <1>4 DEF RxQueue
<1>7. RxQueue' = rest \o rfifo
    BY <1>1 DEF RxQueue, Ring
<1> HIDE DEF front, rest
<1>8. RxQueue = front \o (rest \o rfifo) /\ rest \o rfifo \in Seq(Number)
  <2>1. rfifo \in Seq(Number)
      BY RxParts
  <2>2. (front \o rest) \o rfifo = front \o (rest \o rfifo)
      BY <1>4, <1>5, <2>1, ConcatAssociative
  <2>3. rest \o rfifo \in Seq(Number)
      BY <1>5, <2>1, ConcatProperties
  <2> QED
      BY <1>6, <2>2, <2>3
<1>9. /\ SubSeq(RxQueue, 1, n) = front
      /\ SubSeq(RxQueue, n + 1, Len(RxQueue)) = rest \o rfifo
    BY <1>4, <1>8, TakeFront
<1>10. n <= Len(RxQueue) /\ n \in 1..(BufLen - 1 + FifoLen)
  <2>1. Slot(rx_in - rx_out) = Len(InRx)
      BY <1>1, RxParts DEF RxFrom
  <2> QED
      BY <1>2, <2>1, RxParts, Sizes
<1> QED
    BY <1>1, <1>7, <1>9, <1>10 DEF Rx!Take

(* Advancing only wraps the near end.                                      *)
LEMMA RxAdvance == ASSUME UartInv, UartInv', ReadAdvance PROVE RxSame
<1>1. /\ pc = "rdAdvance" /\ rx_out' = Slot(rx_out + n) /\ pc' # "rdAdvance"
      /\ UNCHANGED <<rx_buf, rx_in, rfifo, rxSent, got>>
    BY DEF ReadAdvance, At, GoTo, rxRing, outside, wire, core
<1>2. rx_buf \in [Index -> Number] /\ rx_in \in Ends /\ rx_out + n \in Ends
  <2>1. rx_buf \in [Index -> Number] /\ rx_in \in Index
      BY DEF UartInv, TypesKept, UartTypeOK
  <2>2. rx_out + n \in Ends
      BY <1>1, RxParts DEF RxFrom
  <2> QED
      BY <2>1, <2>2, Sizes DEF Ends, Index
<1>3. Ring(rx_buf, Slot(rx_out + n), rx_in) = Ring(rx_buf, rx_out + n, rx_in)
    BY <1>2, RingWraps
<1>4. RxQueue = Ring(rx_buf, rx_out + n, rx_in) \o rfifo
    BY <1>1 DEF RxQueue
<1>5. RxQueue' = Ring(rx_buf, Slot(rx_out + n), rx_in) \o rfifo
    BY <1>1 DEF RxQueue, Ring
<1> QED
    BY <1>1, <1>3, <1>4, <1>5 DEF RxSame

(* The interrupt routine passes a byte from the FIFO to the ring.          *)
LEMMA RxReceive == ASSUME UartInv, UartInv', IsrReceive PROVE RxSame
<1> DEFINE h == <<Head(rfifo)>>
           t == Tail(rfifo)
           from == RxFrom
           Full == Ring(rx_buf', from, rx_in + 1)
<1>1. /\ ~RxFull /\ rfifo # <<>> /\ rx_buf' = [rx_buf EXCEPT ![rx_in] = Head(rfifo)]
      /\ rx_in' = Slot(rx_in + 1) /\ rfifo' = t
      /\ UNCHANGED <<rx_out, pc, n, rxSent, got>>
    BY DEF IsrReceive, thread, locals
<1>2. /\ rx_in \in Index /\ rx_out \in Index /\ rx_buf \in [Index -> Number]
      /\ rx_buf' \in [Index -> Number] /\ n \in 0..BufLen
    BY DEF UartInv, TypesKept, UartTypeOK
<1>3. /\ h \in Seq(Number) /\ Len(h) = 1 /\ rfifo = h \o t /\ t \in Seq(Number)
    BY <1>1, RxParts, HeadAndTail, HeadTailProperties
<1>4. /\ from \in Ends /\ rx_in \in Ends /\ rx_in + 1 \in Ends /\ rx_in + 1 <= BufLen
      /\ from' = from
    BY <1>1, <1>2, RxParts, Sizes DEF Ends, Index, RxFrom
<1>5. Slot(rx_in - from) + 1 < BufLen
  <2>1. CASE pc = "rdAdvance"
    <3>1. n \in Nat /\ rx_out \in Ends /\ n >= 1 /\ n <= UsedRx /\ rx_out + n <= BufLen
        BY <1>2, <2>1, Sizes DEF UartInv, Reserved, Ends, Index
    <3>2. Slot(rx_in - (rx_out + n)) = UsedRx - n
        BY <1>2, <1>4, <3>1, RingDrop DEF UsedRx
    <3>3. UsedRx \in Index
        BY <1>2, Moves DEF UsedRx
    <3> QED
        BY <2>1, <3>1, <3>2, <3>3, Sizes DEF RxFrom, Index
  <2>2. CASE pc # "rdAdvance"
      BY <1>1, <1>2, <2>2, Moves DEF RxFull, RxFrom
  <2> QED
      BY <2>1, <2>2
<1>6. \A i \in Index : i < rx_in \/ i >= rx_in + 1 => rx_buf'[i] = rx_buf[i]
    BY <1>1, <1>2 DEF Index
<1>7. Slice(rx_buf', rx_in, 1) = h
  <2>1. rx_buf'[rx_in + 1 - 1] = Head(rfifo)
      BY <1>1, <1>2 DEF Index
  <2> QED
      BY <2>1 DEF Slice
<1> HIDE DEF h, t, from
<1>8. Full = InRx \o h
  <2>1. Full = Ring(rx_buf, from, rx_in) \o Slice(rx_buf', rx_in, 1)
      BY <1>2, <1>4, <1>5, <1>6, RingAdd
  <2> QED
      BY <1>7, <2>1 DEF InRx, from
<1>9. InRx' = Full
  <2>1. Ring(rx_buf', from, Slot(rx_in + 1)) = Full
      BY <1>2, <1>4, RingWraps
  <2>2. InRx' = Ring(rx_buf', from, Slot(rx_in + 1))
      BY <1>1, <1>4 DEF InRx, from, Ring
  <2> QED
      BY <2>1, <2>2
<1> HIDE DEF Full
<1>10. InRx \in Seq(Number) /\ RxQueue = InRx \o rfifo
    BY RxParts
<1>11. RxQueue' = (InRx \o h) \o t
  <2>1. RxQueue' = InRx' \o rfifo'
      BY DEF RxQueue, InRx, RxFrom
  <2> QED
      BY <1>1, <1>8, <1>9, <2>1
<1>12. RxQueue' = InRx \o (h \o t)
    BY <1>3, <1>10, <1>11, ConcatAssociative, SMTT(30)
<1> QED
    BY <1>1, <1>3, <1>10, <1>12 DEF RxSame

LEMMA RxStep == UartInv /\ UartInv' /\ [Next]_vars => [Rx!Next]_(Rx!vars)
<1> SUFFICES ASSUME UartInv, UartInv', [Next]_vars PROVE Rx!Next \/ RxSame
    BY DEF RxSame, Rx!vars
<1>1. CASE HostSend
  <2>1. 1 \in 1..(BufLen - 1 + FifoLen)
      BY Sizes
  <2> QED
      BY <1>1, <2>1, RxSend DEF Rx!Next
<1>2. CASE ReadCopy
    BY <1>2, RxCopy DEF Rx!Next
<1>3. CASE ReadAdvance \/ IsrReceive
    BY <1>3, RxAdvance, RxReceive
<1> QED
    BY <1>1, <1>2, <1>3, RxOthers, RxStutter DEF Next, Thread, Isr

(* An empty ring holds nothing.                                            *)
LEMMA EmptyRing ==
    ASSUME NEW buf \in [Index -> Number]
    PROVE  Ring(buf, 0, 0) = <<>>
<1>1. Slot(0 - 0) = 0 /\ 0 \in Ends
    BY Sizes, Moves DEF Ends
<1>2. Ring(buf, 0, 0) \in Seq(Number) /\ Len(Ring(buf, 0, 0)) = 0
    BY <1>1, RingProperties
<1> QED
    BY <1>2, EmptySeq

(* Bytes reach the reader in order, none lost and none twice, whatever the *)
(* interrupt routine does between the steps of read().                     *)
THEOREM RxIsChannelAlways == Spec => RxIsChannel
<1>1. Init => Rx!Init
  <2> SUFFICES ASSUME Init PROVE Rx!Init
      OBVIOUS
  <2>1. rx_buf \in [Index -> Number]
      BY InitUartInv DEF UartInv, TypesKept, UartTypeOK
  <2>2. Ring(rx_buf, 0, 0) = <<>> /\ <<>> \o <<>> = <<>>
      BY <2>1, EmptyRing
  <2>3. RxQueue = Ring(rx_buf, 0, 0) \o <<>>
      BY DEF Init, RxQueue
  <2> QED
      BY <2>2, <2>3 DEF Init, Rx!Init
<1> QED
    BY <1>1, RxStep, UartInvAlways, PTL DEF Spec, RxIsChannel, Rx!Spec
-----------------------------------------------------------------------------
(* Written bytes: write(), the ring, the transmit FIFO and the host        *)

(* Where the writer has got to.                                            *)
TxTo == IF pc = "wrAdvance" THEN tx_in + n ELSE tx_in
InTx == Ring(tx_buf, tx_out, TxTo)

LEMMA TxParts ==
    ASSUME UartInv
    PROVE  /\ TxQueue = wfifo \o InTx /\ TxTo \in Ends
           /\ InTx \in Seq(Number) /\ wfifo \in Seq(Number)
           /\ Len(InTx) = Slot(TxTo - tx_out) /\ Len(InTx) < BufLen /\ Len(InTx) \in Nat
           /\ Len(TxQueue) = Len(wfifo) + Len(InTx) /\ Len(wfifo) \in Nat
           /\ Len(wfifo) <= FifoLen
<1>1. /\ tx_buf \in [Index -> Number] /\ tx_in \in Index /\ tx_out \in Index /\ n \in 0..BufLen
      /\ wfifo \in Seq(Number) /\ Len(wfifo) \in Nat /\ Len(wfifo) <= FifoLen
    BY LenProperties DEF UartInv, TypesKept, UartTypeOK
<1>2. tx_out \in Ends /\ TxTo \in Ends
    BY <1>1, Sizes DEF UartInv, Reserved, TxTo, Ends, Index
<1>3. /\ InTx \in Seq(Number) /\ Len(InTx) = Slot(TxTo - tx_out) /\ Len(InTx) \in Index
    BY <1>1, <1>2, RingProperties DEF InTx
<1>4. TxQueue = wfifo \o InTx
    BY DEF TxQueue, InTx, TxTo
<1>5. Len(TxQueue) = Len(wfifo) + Len(InTx)
    BY <1>1, <1>3, <1>4, ConcatProperties
<1> QED
    BY <1>1, <1>2, <1>3, <1>4, <1>5, Sizes DEF Index

(* Steps the stream does not see.                                          *)
TxStill == /\ UNCHANGED <<tx_buf, tx_in, tx_out, wfifo, txSent, heard>>
           /\ \/ pc # "wrAdvance" /\ pc' # "wrAdvance"
              \/ pc' = pc /\ n' = n
TxSame == UNCHANGED <<txSent, TxQueue, heard>>

LEMMA TxStutter == TxStill => TxSame
BY DEF TxStill, TxSame, TxQueue, Ring

LEMMA TxOthers ==
    \/ Application \/ ReadSample \/ ReadCopy \/ ReadAdvance \/ ReadEnable \/ ReadCheck
    \/ WriteSample \/ WriteKick \/ WriteCheck
    \/ SpinOnRing \/ SpinOnTimer \/ CloseReturn
    \/ IsrControl \/ IsrReceive \/ IsrReceiveEnd \/ IsrTransmitEnd
    \/ AlarmTimeout \/ HostPlug \/ HostSend \/ HostPause \/ UNCHANGED vars
    => TxStill
<1>1. Application => TxStill
  <2>1. \A len, nb : ReadCall(len, nb) => TxStill
      BY DEF ReadCall, TxStill, At, GoTo, Return, shared, txRing, outside, wire, core, host
  <2>2. \A len, nb : WriteCall(len, nb) => TxStill
      BY DEF WriteCall, TxStill, At, GoTo, shared, txRing, outside, wire, core, host
  <2>3. \A nb : CloseCall(nb) => TxStill
      BY DEF CloseCall, TxStill, At, GoTo, shared, txRing, outside, wire, core, host
  <2>4. \A arg : SetTimeout(arg) => TxStill
      BY DEF SetTimeout, TxStill, thread, locals, txRing, outside, wire, core, host
  <2> QED
      BY <2>1, <2>2, <2>3, <2>4 DEF Application
<1>2. ReadSample \/ ReadCopy \/ ReadAdvance => TxStill
    BY DEF ReadSample, ReadCopy, ReadAdvance, TxStill, At, GoTo, Return, shared, txRing,
           outside, wire, core, host
<1>3. ReadEnable \/ ReadCheck => TxStill
    BY DEF ReadEnable, ReadCheck, TxStill, At, GoTo, Return, shared, txRing, outside, wire,
           core, host
<1>4. WriteSample => TxStill
    BY DEF WriteSample, TxStill, At, GoTo, shared, txRing, outside, wire, core, host
<1>5. WriteKick \/ WriteCheck => TxStill
    BY DEF WriteKick, WriteCheck, TxStill, At, GoTo, Return, shared, txRing, outside, wire,
           core, host
<1>6. SpinOnRing \/ SpinOnTimer \/ CloseReturn => TxStill
    BY DEF SpinOnRing, SpinOnTimer, CloseReturn, TxStill, At, GoTo, Return, shared, txRing,
           outside, wire, core, host
<1>7. IsrControl \/ IsrReceive \/ IsrReceiveEnd \/ IsrTransmitEnd => TxStill
    BY DEF IsrControl, IsrReceive, IsrReceiveEnd, IsrTransmitEnd, TxStill, thread, locals,
           shared, txRing, wire, core, host
<1>8. AlarmTimeout \/ HostPlug \/ HostSend \/ HostPause => TxStill
    BY DEF AlarmTimeout, HostPlug, HostSend, HostPause, TxStill, thread, locals, shared,
           txRing, core, host
<1>9. UNCHANGED vars => TxStill
    BY DEF vars, TxStill, thread, locals, shared, txRing, outside, wire, core, host
<1> QED
    BY <1>1, <1>2, <1>3, <1>4, <1>5, <1>6, <1>7, <1>8, <1>9

(* What write() copies is put behind.                                      *)
LEMMA TxCopy ==
    ASSUME UartInv, UartInv', WriteCopy
    PROVE  n \in 1..(BufLen - 1 + FifoLen) /\ Tx!Put(n)
<1> DEFINE new == [i \in 1..n |-> (txSent + i - 1) % Numbers]
<1>1. /\ pc = "wrCopy" /\ pc' = "wrAdvance" /\ txSent' = (txSent + n) % Numbers
      /\ tx_buf' = [i \in DOMAIN tx_buf |->
                      IF i \in tx_in..(tx_in + n - 1)
                      THEN (txSent + i - tx_in) % Numbers ELSE tx_buf[i]]
      /\ UNCHANGED <<tx_in, tx_out, n, wfifo, heard>>
    BY DEF WriteCopy, At, GoTo, core, host
<1>2. /\ n \in 0..BufLen /\ n >= 1 /\ UsedTx + n < BufLen /\ tx_in + n <= BufLen
      /\ tx_buf \in [Index -> Number] /\ tx_buf' \in [Index -> Number]
      /\ tx_in \in Index /\ tx_out \in Index /\ txSent \in Number
    BY <1>1 DEF UartInv, TypesKept, UartTypeOK, Reserved
<1>3. n \in Nat /\ tx_in \in Ends /\ tx_out \in Ends
    BY <1>2, Sizes DEF Ends, Index
<1>4. \A i \in Index : i < tx_in \/ i >= tx_in + n => tx_buf'[i] = tx_buf[i]
    BY <1>1, <1>2, <1>3 DEF Index
<1>5. Slice(tx_buf', tx_in, n) = new
  <2>1. ASSUME NEW i \in 1..n
        PROVE  tx_buf'[tx_in + i - 1] = (txSent + i - 1) % Numbers
    <3>1. tx_in + i - 1 \in Index /\ tx_in + i - 1 \in tx_in..(tx_in + n - 1)
        BY <1>2, <1>3, Sizes DEF Index
    <3>2. txSent + (tx_in + i - 1) - tx_in = txSent + i - 1
        BY <1>2, <1>3, Sizes DEF Index, Number
    <3>3. DOMAIN tx_buf = Index
        BY <1>2
    <3> QED
        BY <1>1, <3>1, <3>2, <3>3
  <2> QED
      BY <2>1 DEF Slice
<1> HIDE DEF new
<1>6. Ring(tx_buf', tx_out, tx_in + n) = Ring(tx_buf, tx_out, tx_in) \o new
  <2>1. Slot(tx_in - tx_out) + n < BufLen
      BY <1>2 DEF UsedTx
  <2>2. Ring(tx_buf', tx_out, tx_in + n) = Ring(tx_buf, tx_out, tx_in) \o Slice(tx_buf', tx_in, n)
      BY <1>2, <1>3, <1>4, <2>1, RingAdd
  <2> QED
      BY <1>5, <2>2
<1>7. InTx = Ring(tx_buf, tx_out, tx_in) /\ TxQueue = wfifo \o InTx
    BY <1>1 DEF InTx, TxTo, TxQueue
<1>8. TxQueue' = wfifo \o (InTx \o new)
  <2>1. TxQueue' = wfifo \o Ring(tx_buf', tx_out, tx_in + n)
      BY <1>1 DEF TxQueue, Ring
  <2> QED
      BY <1>6, <1>7, <2>1
<1>9. new \in Seq(Number)
  <2>1. \A i \in 1..n : (txSent + i - 1) % Numbers \in Number
    <3>1. \A x \in Nat : x % Numbers \in Number
        BY Sizes DEF Number
    <3>2. \A i \in 1..n : txSent + i - 1 \in Nat
        BY <1>2, <1>3, Sizes DEF Number
    <3> QED
        BY <3>1, <3>2
  <2>2. new \in [1..n -> Number]
      BY <2>1 DEF new
  <2> QED
      BY <1>3, <2>2, FunctionIsSeq
<1>10. TxQueue' = TxQueue \o new
  <2>1. wfifo \in Seq(Number) /\ InTx \in Seq(Number)
      BY TxParts
  <2> QED
      BY <1>7, <1>8, <1>9, <2>1, ConcatAssociative, SMTT(30)
<1>11. Len(TxQueue) + n <= BufLen - 1 + FifoLen
  <2>1. Len(InTx) = UsedTx
      BY <1>1, TxParts DEF TxTo, UsedTx
  <2> QED
      BY <1>2, <1>3, <2>1, TxParts, Sizes
<1>12. n \in 1..(BufLen - 1 + FifoLen)
    BY <1>2, Sizes
<1> QED
    BY <1>1, <1>10, <1>11, <1>12 DEF Tx!Put, new

(* Advancing only wraps the far end.                                       *)
LEMMA TxAdvance == ASSUME UartInv, UartInv', WriteAdvance PROVE TxSame
<1>1. /\ pc = "wrAdvance" /\ tx_in' = Slot(tx_in + n) /\ pc' # "wrAdvance"
      /\ UNCHANGED <<tx_buf, tx_out, wfifo, txSent, heard>>
    BY DEF WriteAdvance, At, GoTo, outside, wire, core, host
<1>2. tx_buf \in [Index -> Number] /\ tx_out \in Ends /\ tx_in + n \in Ends
  <2>1. tx_buf \in [Index -> Number] /\ tx_out \in Index
      BY DEF UartInv, TypesKept, UartTypeOK
  <2>2. tx_in + n \in Ends
      BY <1>1, TxParts DEF TxTo
  <2> QED
      BY <2>1, <2>2, Sizes DEF Ends, Index
<1>3. Ring(tx_buf, tx_out, Slot(tx_in + n)) = Ring(tx_buf, tx_out, tx_in + n)
    BY <1>2, RingWraps
<1>4. TxQueue = wfifo \o Ring(tx_buf, tx_out, tx_in + n)
    BY <1>1 DEF TxQueue
<1>5. TxQueue' = wfifo \o Ring(tx_buf, tx_out, Slot(tx_in + n))
    BY <1>1 DEF TxQueue, Ring
<1> QED
    BY <1>1, <1>3, <1>4, <1>5 DEF TxSame

(* The interrupt routine passes a byte from the ring to the FIFO, which    *)
(* has room: it was counted from the FIFO itself.                          *)
LEMMA TxTransmit == ASSUME UartInv, UartInv', IsrTransmit PROVE TxSame
<1> DEFINE to == TxTo
           h == <<tx_buf[tx_out]>>
           rest == Ring(tx_buf, tx_out + 1, to)
<1>1. /\ space > 0 /\ tx_out # tx_in /\ tx_out' = Slot(tx_out + 1)
      /\ wfifo' = IF Len(wfifo) < FifoLen THEN Append(wfifo, tx_buf[tx_out]) ELSE wfifo
      /\ UNCHANGED <<tx_buf, tx_in, pc, n, txSent, heard>>
    BY DEF IsrTransmit, thread, locals, host
<1>2. /\ tx_in \in Index /\ tx_out \in Index /\ tx_buf \in [Index -> Number]
      /\ n \in 0..BufLen /\ space \in 0..FifoLen /\ space + Len(wfifo) <= FifoLen
    BY DEF UartInv, TypesKept, UartTypeOK, RoomKept
<1>3. /\ to \in Ends /\ tx_out \in Ends /\ tx_out + 1 \in Ends /\ tx_out + 1 <= BufLen
      /\ tx_in \in Ends /\ to' = to
    BY <1>1, <1>2, TxParts, Sizes DEF Ends, Index, TxTo
<1>4. tx_buf[tx_out] \in Number /\ h \in Seq(Number) /\ Len(h) = 1
    BY <1>2
<1>5. wfifo' = wfifo \o h /\ wfifo \in Seq(Number)
  <2>1. Len(wfifo) < FifoLen
      BY <1>1, <1>2, TxParts, Sizes
  <2>2. wfifo' = Append(wfifo, tx_buf[tx_out]) /\ wfifo \in Seq(Number)
      BY <1>1, <2>1, TxParts
  <2> QED
      BY <1>4, <2>2, AppendIsConcat
<1>6. 1 <= Slot(to - tx_out)
  <2>1. UsedTx \in Index /\ UsedTx >= 1
      BY <1>1, <1>2, Moves DEF UsedTx
  <2>2. CASE pc = "wrAdvance"
    <3>1. n \in Nat /\ n >= 1 /\ UsedTx + n < BufLen /\ tx_in + n <= BufLen
        BY <1>2, <2>2, Sizes DEF UartInv, Reserved
    <3>2. Slot((tx_in + n) - tx_out) = UsedTx + n
      <4>1. \A i \in Index : i < tx_in \/ i >= tx_in + n => tx_buf[i] = tx_buf[i]
          OBVIOUS
      <4> QED
          BY <1>2, <1>3, <3>1, <4>1, RingAdd DEF UsedTx
    <3> QED
        BY <2>1, <2>2, <3>1, <3>2, Sizes DEF TxTo, Index
  <2>3. CASE pc # "wrAdvance"
      BY <2>1, <2>3 DEF TxTo, UsedTx
  <2> QED
      BY <2>2, <2>3
<1>7. Slice(tx_buf, tx_out, 1) = h
  <2>1. tx_out + 1 - 1 = tx_out
      BY <1>2, Sizes DEF Index
  <2> QED
      BY <2>1 DEF Slice
<1> HIDE DEF to, h
<1>8. Ring(tx_buf, tx_out, to) = h \o rest /\ rest \in Seq(Number)
  <2>1. Ring(tx_buf, tx_out, to) = Slice(tx_buf, tx_out, 1) \o rest
      BY <1>2, <1>3, <1>6, RingDrop
  <2>2. rest \in Seq(Number)
      BY <1>2, <1>3, RingProperties
  <2> QED
      BY <1>7, <2>1, <2>2
<1>9. InTx' = rest
  <2>1. Ring(tx_buf, Slot(tx_out + 1), to) = rest
      BY <1>2, <1>3, RingWraps
  <2>2. InTx' = Ring(tx_buf, Slot(tx_out + 1), to)
      BY <1>1, <1>3 DEF InTx, to, Ring
  <2> QED
      BY <2>1, <2>2
<1> HIDE DEF rest
<1>10. TxQueue = wfifo \o (h \o rest)
    BY <1>8, TxParts DEF InTx, to
<1>11. TxQueue' = (wfifo \o h) \o rest
  <2>1. TxQueue' = wfifo' \o InTx'
      BY DEF TxQueue, InTx, TxTo
  <2> QED
      BY <1>5, <1>9, <2>1
<1>12. (wfifo \o h) \o rest = wfifo \o (h \o rest)
    BY <1>4, <1>5, <1>8, ConcatAssociative
<1> QED
    BY <1>1, <1>10, <1>11, <1>12 DEF TxSame

(* The host takes the byte in front.                                       *)
LEMMA TxTake == ASSUME UartInv, UartInv', HostTake PROVE Tx!Take(1)
<1> DEFINE h == <<Head(wfifo)>>
           t == Tail(wfifo)
           rest == t \o InTx
<1>1. /\ wfifo # <<>> /\ heard' = h /\ wfifo' = t
      /\ UNCHANGED <<tx_buf, tx_in, tx_out, pc, n, txSent>>
    BY DEF HostTake, shared, txRing, thread, locals
<1>2. /\ h \in Seq(Number) /\ Len(h) = 1 /\ wfifo = h \o t /\ t \in Seq(Number)
    BY <1>1, TxParts, HeadAndTail, HeadTailProperties
<1>3. InTx' = InTx
    BY <1>1 DEF InTx, TxTo, Ring
<1> HIDE DEF h, t
<1>4. InTx \in Seq(Number) /\ TxQueue = wfifo \o InTx
    BY TxParts
<1>5. rest \in Seq(Number)
    BY <1>2, <1>4, ConcatProperties
<1>6. TxQueue = h \o rest
    BY <1>2, <1>4, ConcatAssociative
<1>7. TxQueue' = rest
  <2>1. TxQueue' = wfifo' \o InTx'
      BY DEF TxQueue, InTx, TxTo
  <2> QED
      BY <1>1, <1>3, <2>1
<1> HIDE DEF rest
<1>8. SubSeq(TxQueue, 1, 1) = h /\ SubSeq(TxQueue, 1 + 1, Len(TxQueue)) = rest
  <2>1. /\ SubSeq(h \o rest, 1, Len(h)) = h
        /\ SubSeq(h \o rest, Len(h) + 1, Len(h \o rest)) = rest
      BY <1>2, <1>5, TakeFront
  <2> QED
      BY <1>2, <1>6, <2>1
<1>9. 1 <= Len(TxQueue)
  <2>1. Len(rest) \in Nat /\ Len(TxQueue) = 1 + Len(rest)
      BY <1>2, <1>5, <1>6, ConcatProperties, LenProperties, ZenonT(30)
  <2> QED
      BY <2>1
<1> QED
    BY <1>1, <1>7, <1>8, <1>9 DEF Tx!Take

LEMMA TxStep == UartInv /\ UartInv' /\ [Next]_vars => [Tx!Next]_(Tx!vars)
<1> SUFFICES ASSUME UartInv, UartInv', [Next]_vars PROVE Tx!Next \/ TxSame
    BY DEF TxSame, Tx!vars
<1>1. CASE HostTake
  <2>1. 1 \in 1..(BufLen - 1 + FifoLen)
      BY Sizes
  <2> QED
      BY <1>1, <2>1, TxTake DEF Tx!Next
<1>2. CASE WriteCopy
    BY <1>2, TxCopy DEF Tx!Next
<1>3. CASE WriteAdvance \/ IsrTransmit
    BY <1>3, TxAdvance, TxTransmit
<1> QED
    BY <1>1, <1>2, <1>3, TxOthers, TxStutter DEF Next, Thread, Isr

(* What write() accepts reaches the host in order, none lost and none      *)
(* twice, whatever the interrupt routine does between the steps of write().*)
THEOREM TxIsChannelAlways == Spec => TxIsChannel
<1>1. Init => Tx!Init
  <2> SUFFICES ASSUME Init PROVE Tx!Init
      OBVIOUS
  <2>1. tx_buf \in [Index -> Number]
      BY InitUartInv DEF UartInv, TypesKept, UartTypeOK
  <2>2. Ring(tx_buf, 0, 0) = <<>> /\ <<>> \o <<>> = <<>>
      BY <2>1, EmptyRing
  <2>3. TxQueue = <<>> \o Ring(tx_buf, 0, 0)
      BY DEF Init, TxQueue
  <2> QED
      BY <2>2, <2>3 DEF Init, Tx!Init
<1> QED
    BY <1>1, TxStep, UartInvAlways, PTL DEF Spec, TxIsChannel, Tx!Spec
=============================================================================
