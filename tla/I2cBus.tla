-------------------------------- MODULE I2cBus --------------------------------
(***************************************************************************)
(* The bit-banged I2C master of I2C.c and the serial EEPROM it talks to.   *)
(*                                                                         *)
(* A call of the library is a script of i2c_start, i2c_write, i2c_read and *)
(* i2c_stop; each of these is a list of writes to the ports of SCL and     *)
(* SDA, with a loop over the bits of a byte.  One step is one port write,  *)
(* and the device reacts to the edge it makes.  The device may refuse any  *)
(* byte it receives.  Bytes have Bits bits; the delays, which give the     *)
(* device its time, are left out.                                          *)
(***************************************************************************)
EXTENDS Integers, Sequences

CONSTANTS
    Bits,        \* bits in a byte; 8
    DeviceAddr,  \* address byte of the device, with the read bit 0
    Foreign,     \* bound: other address bytes a program uses
    I2cLens,     \* bound: lengths of multiple reads and writes
    Data,        \* bound: the bytes a program writes
    I2cMem0      \* bound: contents of the EEPROM at the start

I2cByte == 0..(2^Bits - 1)
ASSUME I2cAssumption ==
    /\ Bits \in Nat /\ Bits > 1 /\ DeviceAddr \in I2cByte /\ DeviceAddr % 2 = 0
    /\ Foreign \subseteq I2cByte \ {DeviceAddr, DeviceAddr + 1}
    /\ I2cLens \subseteq Nat \ {0} /\ Data \subseteq I2cByte
    /\ I2cMem0 \subseteq [I2cByte -> I2cByte]

VARIABLES
    scl, sda, out,    \* master: port SCL, data and direction of port SDA
    fun, line, turn,  \* the function of the call that runs or is next, the line
                      \* it is at, its loop variable; 0 outside them
    success, data,    \* bSuccess; the bytes read so far, the last one in the making
    transfer,         \* the call: [op, dev, at, bytes, len]
    eeprom,           \* device: [state, n, byte, last, pull, ptr, new]
    cells,            \* device: contents
    i2cBefore,        \* history: the contents when the call began
    verify            \* i2c_data_verify: steps done, and what it has read

master == <<scl, sda, out, fun, line, turn, success, data>>
i2cVars == <<master, transfer, eeprom, cells, i2cBefore, verify>>

(* The wire: pulled up, low if either side pulls it down.                  *)
Wire(o, s, d) == IF (o /\ s = 0) \/ d.pull THEN 0 ELSE 1
Sda == Wire(out, sda, eeprom)
-----------------------------------------------------------------------------
(* Port writes and samples of the functions.                               *)
Scl(v) == [port |-> "scl", v |-> v]
SdaIs(v) == [port |-> "sda", v |-> v]
DirOut == [port |-> "dir", v |-> 1]
DirIn == [port |-> "dir", v |-> 0]
Ack == [port |-> "ack", v |-> 0]
Sample == [port |-> "sample", v |-> 0]

StartOps == <<DirOut, SdaIs(1), Scl(1), SdaIs(0), Scl(0)>>
StopOps == <<DirOut, SdaIs(0), Scl(1), SdaIs(1)>>

(* The most significant bit first.                                         *)
BitOf(b, i) == (b \div 2^(Bits - i)) % 2

(* i2c_write, the byte and the acknowledge.                                *)
WriteOps(b, i) ==
    <<DirOut, Scl(0), SdaIs(BitOf(b, i)), Scl(1), Scl(0), DirIn, Scl(1), Ack, Scl(0)>>

(* i2c_read, the byte and its acknowledge.                                 *)
ReadOps(ack) ==
    <<DirIn, Scl(0), Scl(1), Sample, Scl(0), Scl(0), DirOut, SdaIs(IF ack THEN 0 ELSE 1), Scl(1),
      Scl(0), SdaIs(0)>>

(* A function of a script: always called, or only while bSuccess.  The     *)
(* first of the stops is a mutant: a failed call leaves without one.       *)
F(fn, b, if) == [fn |-> fn, byte |-> b, if |-> if]
Start == F("start", 0, FALSE)
Restart == F("start", 0, TRUE)
Stop_onSuccess == F("stop", 0, TRUE)
Stop == F("stop", 0, FALSE)
W(b) == F("write", b, TRUE)
R(ack) == F("read", IF ack THEN 1 ELSE 0, TRUE)
OpsOf(f, i) == CASE f.fn = "start" -> StartOps
                 [] f.fn = "stop" -> StopOps
                 [] f.fn = "write" -> WriteOps(f.byte, i)
                 [] OTHER -> ReadOps(f.byte = 1)

(* The lines of its loop over the bits, the first and the last; 0: none.   *)
LoopFirst(f) == IF f.fn = "write" THEN 2 ELSE 3
LoopLast(f) == IF f.fn \in {"write", "read"} THEN 5 ELSE 0

(* I2C_Write, I2C_MultipleWrite; I2C_Read, I2C_MultipleRead, which differ  *)
(* in the restart after a refused byte.  The last of the bytes read is not *)
(* acknowledged.                                                           *)
WriteScript(c) ==
    [k \in 1..(c.len + 4) |-> CASE k = 1 -> Start
                                [] k = 2 -> W(c.dev)
                                [] k = 3 -> W(c.at)
                                [] k = c.len + 4 -> Stop
                                [] OTHER -> W(c.bytes[k - 3])]
ReadScript(c) ==
    [k \in 1..(c.len + 6) |-> CASE k = 1 -> Start
                                [] k = 2 -> W(c.dev)
                                [] k = 3 -> W(c.at)
                                [] k = 4 -> (IF c.op = "read" THEN Start ELSE Restart)
                                [] k = 5 -> W(c.dev - (c.dev % 2) + 1)
                                [] k = c.len + 6 -> Stop
                                [] OTHER -> R(k # c.len + 5)]
ScriptOf(c) == IF c.op \in {"write", "mwrite"} THEN WriteScript(c) ELSE ReadScript(c)
Running == ScriptOf(transfer)[fun]
-----------------------------------------------------------------------------
(* The device.  Receiving it shifts in a bit on a rising clock, answers    *)
(* after the last one has fallen, and goes on after that clock.  It keeps  *)
(* the clocks of the byte so far, its bits, the last of them, and the      *)
(* contents with the bytes received for the page.                          *)
Listening == {"device", "pointer", "store"}
I2cReset(s) == [eeprom EXCEPT !.state = s, !.n = 0, !.byte = 0, !.last = 0, !.pull = FALSE]
Bump(p) == (p + 1) % 2^Bits
Puts(p, n) == n < Bits /\ BitOf(cells[p], n + 1) = 0

(* Where a received byte leads, and whether the device knows it.           *)
Knows(b) == eeprom.state = "device" => b - (b % 2) = DeviceAddr
AfterByte(b) ==
    CASE eeprom.state = "device" /\ b % 2 = 1 -> [I2cReset("send") EXCEPT !.pull = Puts(eeprom.ptr, 0)]
      [] eeprom.state = "device" /\ b % 2 = 0 -> I2cReset("pointer")
      [] eeprom.state = "pointer" -> [I2cReset("store") EXCEPT !.ptr = b, !.new = cells]
      [] OTHER -> [I2cReset("store") EXCEPT !.ptr = Bump(@), !.new[eeprom.ptr] = b]

Rise(bit) ==
    IF eeprom.state \in Listening \union {"send"} /\ eeprom.n <= Bits
    THEN eeprom' = [eeprom EXCEPT !.n = @ + 1, !.last = bit,
                                  !.byte = IF eeprom.n < Bits THEN 2 * @ + bit ELSE @]
    ELSE UNCHANGED eeprom

Fall ==
    CASE eeprom.state \in Listening /\ eeprom.n = Bits ->
           \/ Knows(eeprom.byte) /\ eeprom' = [eeprom EXCEPT !.pull = TRUE]
           \/ eeprom' = I2cReset("idle")
      [] eeprom.state \in Listening /\ eeprom.n > Bits -> eeprom' = AfterByte(eeprom.byte)
      [] eeprom.state = "send" /\ eeprom.n <= Bits ->
           eeprom' = [eeprom EXCEPT !.pull = Puts(eeprom.ptr, eeprom.n)]
      [] eeprom.state = "send" /\ eeprom.n > Bits ->
           eeprom' = IF eeprom.last = 1 THEN I2cReset("idle")
                     ELSE [I2cReset("send") EXCEPT !.ptr = Bump(@), !.pull = Puts(Bump(eeprom.ptr), 0)]
      [] OTHER -> UNCHANGED eeprom

(* SDA moves while the clock is high: a start or a stop.  At the stop the  *)
(* bytes of the page are stored.                                           *)
Turn(bit) == IF bit = 0 THEN eeprom' = I2cReset("device") /\ UNCHANGED cells
             ELSE /\ cells' = IF eeprom.state = "store" THEN eeprom.new ELSE cells
                  /\ eeprom' = [I2cReset("idle") EXCEPT !.new = cells']
-----------------------------------------------------------------------------
NoCall == [op |-> "none", dev |-> 0, at |-> 0, bytes |-> <<>>, len |-> 0]
NoVerify == [step |-> 0, test |-> 0, org |-> 0]
I2cInit ==
    /\ scl = 1 /\ sda = 1 /\ out = FALSE /\ fun = 0 /\ line = 0 /\ turn = 0
    /\ success = TRUE /\ data = <<>> /\ transfer = NoCall
    /\ cells \in I2cMem0 /\ i2cBefore = cells /\ verify = NoVerify
    /\ eeprom = [state |-> "idle", n |-> 0, byte |-> 0, last |-> 0, pull |-> FALSE,
                 ptr |-> 0, new |-> cells]

Ready == fun = 0
Begun(c) == /\ transfer' = c /\ fun' = 1 /\ success' = TRUE /\ data' = <<>>
            /\ UNCHANGED <<scl, sda, out, line, turn, eeprom, cells>>

(* A program calls the library.                                            *)
I2cRequest ==
    /\ Ready /\ verify.step = 0 /\ i2cBefore' = cells /\ UNCHANGED verify
    /\ \E d \in Foreign \union {DeviceAddr}, a \in I2cByte, n \in I2cLens, b \in Data, b2 \in Data :
         \/ Begun([op |-> "write", dev |-> d, at |-> a, bytes |-> <<b>>, len |-> 1])
         \/ Begun([op |-> "mwrite", dev |-> d, at |-> a, len |-> n,
                   bytes |-> [i \in 1..n |-> IF i = 1 THEN b ELSE b2]])
         \/ Begun([op |-> "read", dev |-> d, at |-> a, bytes |-> <<>>, len |-> 1])
         \/ Begun([op |-> "mread", dev |-> d, at |-> a, bytes |-> <<>>, len |-> n])

(* i2c_data_verify: read, write a test byte, read it, write back, read.    *)
(* Each step needs the one before it.                                      *)
VerifyCall(a, write, b) ==
    Begun([op |-> IF write THEN "write" ELSE "read", dev |-> DeviceAddr, at |-> a,
           bytes |-> IF write THEN <<b>> ELSE <<>>, len |-> 1])
VerifyPassed ==
    /\ success
    /\ verify.step = 3 => data[1] = verify.test
    /\ verify.step = 5 => data[1] = verify.org

(* The steps.  The first is a mutant: nothing is written back.             *)
Steps_noRestore == 3
Steps == 5
I2cVerify ==
    /\ Ready
    /\ \/ /\ verify.step = 0 /\ i2cBefore' = cells
          /\ \E a \in I2cByte, t \in Data \ {0} :
               verify' = [step |-> 1, test |-> t, org |-> 0] /\ VerifyCall(a, FALSE, 0)
       \/ /\ verify.step \in 1..(Steps - 1) /\ VerifyPassed /\ UNCHANGED i2cBefore
          /\ LET org == IF verify.step = 1 THEN data[1] ELSE verify.org
             IN /\ verify' = [verify EXCEPT !.step = @ + 1, !.org = org]
                /\ VerifyCall(transfer.at, verify.step \in {1, 3},
                              IF verify.step = 1 THEN verify.test ELSE org)
       \/ /\ verify.step \in 1..Steps /\ (verify.step = Steps \/ ~VerifyPassed)
          /\ verify' = NoVerify /\ transfer' = NoCall /\ success' = VerifyPassed
          /\ UNCHANGED <<scl, sda, out, fun, line, turn, data, eeprom, cells, i2cBefore>>

(* On to the next function of the call, or to its return.                  *)
Proceed ==
    /\ fun' = IF fun = Len(ScriptOf(transfer)) THEN 0 ELSE fun + 1
    /\ line' = 0 /\ turn' = 0

(* The next function is entered, or passed over if it needs bSuccess.      *)
Function ==
    /\ fun # 0 /\ line = 0
    /\ IF Running.if /\ ~success THEN Proceed ELSE line' = 1 /\ turn' = 1 /\ UNCHANGED fun
    /\ data' = IF Running.fn = "read" /\ success THEN Append(data, 0) ELSE data
    /\ UNCHANGED <<scl, sda, out, success, transfer, eeprom, cells, i2cBefore, verify>>

(* The line after this one.                                                *)
Onward ==
    IF line = LoopLast(Running) /\ turn < Bits
    THEN line' = LoopFirst(Running) /\ turn' = turn + 1 /\ UNCHANGED fun
    ELSE IF line < Len(OpsOf(Running, turn)) THEN line' = line + 1 /\ UNCHANGED <<fun, turn>>
         ELSE Proceed

(* One port write: the wires change, the device sees the edge.             *)
Port ==
    /\ line # 0 /\ Onward
    /\ LET o == OpsOf(Running, turn)[line] IN
         /\ scl' = IF o.port = "scl" THEN o.v ELSE scl
         /\ sda' = IF o.port = "sda" THEN o.v ELSE sda
         /\ out' = IF o.port = "dir" THEN o.v = 1 ELSE out
         /\ success' = IF o.port = "ack" THEN Sda = 0 ELSE success
         /\ data' = IF o.port = "sample"
                    THEN [data EXCEPT ![Len(data)] = 2 * @ + Sda] ELSE data
    /\ LET bit == Wire(out', sda', eeprom)
       IN CASE scl = 0 /\ scl' = 1 -> Rise(Sda) /\ UNCHANGED cells
            [] scl = 1 /\ scl' = 0 -> Fall /\ UNCHANGED cells
            [] scl = 1 /\ scl' = 1 /\ bit # Sda -> Turn(bit)
            [] OTHER -> UNCHANGED <<eeprom, cells>>
    /\ UNCHANGED <<transfer, i2cBefore, verify>>

I2cNext == I2cRequest \/ I2cVerify \/ Function \/ Port
I2cSpec == I2cInit /\ [][I2cNext]_i2cVars
-----------------------------------------------------------------------------
I2cTypeOK ==
    /\ {scl, sda} \subseteq {0, 1} /\ out \in BOOLEAN /\ success \in BOOLEAN
    /\ \A i \in DOMAIN data : data[i] \in I2cByte
    /\ cells \in [I2cByte -> I2cByte] /\ eeprom.ptr \in I2cByte /\ verify.step \in 0..5
    /\ eeprom.state \in Listening \union {"idle", "send"} /\ eeprom.n <= Bits + 1

(* SDA moves while SCL is high only as the start or the stop of a call: no *)
(* bit of a transfer, and no change of the direction of the port, is taken *)
(* for one.                                                                *)
SdaStable ==
    [][scl = 1 /\ scl' = 1 /\ Sda' # Sda =>
         /\ line # 0 /\ Running.fn = IF Sda' = 0 THEN "start" ELSE "stop"]_i2cVars

(* While a bit is valid the two sides do not drive SDA against each other. *)
(* (With the clock low they do for a moment: the device acknowledges as    *)
(* soon as the clock has fallen, i2c_write turns its port a delay later.)  *)
NoContention == ~(scl = 1 /\ out /\ sda = 1 /\ eeprom.pull)

(* When a call returns the bus is free again, even after a refused byte:   *)
(* both wires high and the device waiting for a start.                     *)
BusReleased == Ready => scl = 1 /\ Sda = 1 /\ eeprom.state = "idle"

(* A call that returns success did what was asked: the bytes are in the    *)
(* device, the last of those for one cell, and nothing else has changed,   *)
(* or the bytes read are the device's.  A single write that fails has      *)
(* changed nothing.                                                        *)
Cell(i) == (transfer.at + i - 1) % 2^Bits
Written(mem, before, n) ==
    /\ \A i \in 1..n : (\A j \in (i + 1)..n : Cell(j) # Cell(i)) => mem[Cell(i)] = transfer.bytes[i]
    /\ \A a \in I2cByte : (\A i \in 1..n : Cell(i) # a) => mem[a] = before[a]
TransferTrue ==
    Ready /\ transfer.op # "none" /\ verify.step = 0 =>
      /\ transfer.op \in {"write", "mwrite"} /\ success => Written(cells, i2cBefore, transfer.len)
      /\ transfer.op \in {"read", "mread"} =>
           cells = i2cBefore /\ (success => data = [i \in 1..transfer.len |-> cells[Cell(i)]])
      /\ transfer.op = "write" /\ ~success => cells = i2cBefore

(* A verification that passes has put back what it found.                  *)
VerifyRestores ==
    [][verify.step # 0 /\ verify'.step = 0 /\ success' => cells = i2cBefore]_i2cVars

(* The bus protocol is kept in every transfer, also a refused one, and the *)
(* bus is left free.                                                       *)
BusKept == SdaStable /\ [](NoContention /\ BusReleased)

(* Transfers, and the verification made of them, do what they report.      *)
TransfersTrue == VerifyRestores /\ []TransferTrue
=============================================================================
