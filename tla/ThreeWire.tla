------------------------------ MODULE ThreeWire ------------------------------
(* The accelerometer demonstration on the three-wire SPI controller: the     *)
(* driver of terasic_spi.c, the ADXL345 calls and the demonstration's loop   *)
(* above it, and below it the controller's state machine, which runs on its  *)
(* own bit clock.  One tick is one state of that machine, so a whole byte in *)
(* the address and data phases and one bit clock elsewhere.  Only the rising *)
(* edge of the start flag is seen: clearing it stops nothing.                *)
EXTENDS Integers, SequencesExt, FiniteSets

CONSTANTS Depth,          \* bytes a FIFO of the controller holds
          DataLen,        \* bytes of one X, Y, Z sample: the count has six bits
          WireSleepTicks  \* ticks the usleep(10) after a start lasts at least

ASSUME WireAssumption == /\ Depth \in Nat \ {0} /\ DataLen \in 1 .. Depth
                         /\ DataLen <= 64 /\ WireSleepTicks \in Nat \ {0}

VARIABLES wireCore,    \* registers, FIFOs and state machine of the controller
          sensor,      \* the registers of the ADXL345, by address
          wireDrv,     \* the call under way: operation, where it is, result
          client,      \* where the demonstration is, and the key flag
          sent,        \* history: what the sensor answered to the current call
          wirePatient  \* whether the polls outlast every command: never changes

wireVars == <<wireCore, sensor, wireDrv, client, sent, wirePatient>>

(* The registers, in the order of their addresses, which a transfer of       *)
(* several bytes steps through.                                              *)
DevId == 0
Rate == 1
Power == 2
IntEnable == 3
IntSource == 4
Format == 5
Data == 6
Registers == DevId .. (Data + DataLen - 1)
DataRegisters == Data .. (Data + DataLen - 1)

Off == 0
On == 1
Samples == {1, 2}
Id == 5
Junk == 9  \* a byte nobody sent: the floating line, or an empty FIFO

WriteOp(a, v) == [read |-> FALSE, a |-> a, data |-> <<v>>, n |-> 1]
ReadOp(a, n) == [read |-> TRUE, a |-> a, data |-> <<>>, n |-> n]

(* The calls of ADXL345_SPI_Init, in order.                                  *)
Setup == <<WriteOp(Format, On), WriteOp(Rate, On), WriteOp(IntEnable, On),
           WriteOp(Power, Off), WriteOp(Power, On)>>

WireInit ==
    /\ wireCore = [start |-> FALSE, read |-> FALSE, a |-> 0, num |-> 0,
                   pre |-> TRUE, st |-> "idle", wr |-> FALSE, n |-> 0, left |-> 0,
                   cur |-> 0, bit0 |-> TRUE, tx |-> <<>>, rx |-> <<>>]
    /\ sensor = [a \in Registers |-> IF a = DevId THEN Id ELSE Off]
    /\ wireDrv = [at |-> "idle", op |-> ReadOp(DevId, 1), ticks |-> 0,
                  ok |-> FALSE, got |-> <<>>]
    /\ client = [at |-> "menu", step |-> 0, key |-> FALSE]
    /\ sent = <<>>
    /\ wirePatient \in BOOLEAN
-----------------------------------------------------------------------------
(* The controller.  A full FIFO drops what is pushed.                        *)
Push(q, b) == IF Len(q) < Depth THEN Append(q, b) ELSE q
PushAll(q, s) == LET all == q \o s
                 IN  SubSeq(all, 1, IF Len(all) < Depth THEN Len(all) ELSE Depth)

(* While the bit index is 0 and the controller drives nothing, every bit     *)
(* clock stores a byte.  It is 0 from power-up to the first start.           *)
Noise(c) == IF c.bit0 /\ c.st \in {"idle", "start"}
              THEN [c EXCEPT !.rx = Push(@, Junk)] ELSE c

(* Mutant: the level of the flag starts a command, not its edge.             *)
StartEdge_level == wireCore.start

StartEdge == ~wireCore.pre /\ wireCore.start

Begin ==
    /\ StartEdge
    /\ wireCore' = [Noise(wireCore) EXCEPT
                  !.pre = TRUE, !.st = "start", !.wr = ~wireCore.read,
                  !.n = IF wireCore.read THEN wireCore.num + 1 ELSE Len(wireCore.tx)]
    /\ UNCHANGED <<sensor, sent>>

Settle(c) == [Noise(c) EXCEPT !.pre = c.start]

(* From here on no start edge is pending.                                    *)
Rest ==
    /\ wireCore.st \in {"idle", "done"}
    /\ wireCore' = Settle(wireCore)
    /\ UNCHANGED <<sensor, sent>>

Address ==
    /\ wireCore.st = "start"
    /\ wireCore' = [Settle(wireCore) EXCEPT !.st = "addr", !.bit0 = FALSE,
                                            !.cur = wireCore.a]
    /\ UNCHANGED <<sensor, sent>>

(* Mutant: the bytes are counted down from their number.                     *)
AddressSent_more ==
    /\ wireCore.st = "addr"
    /\ wireCore' = [Settle(wireCore) EXCEPT !.st = "data", !.left = wireCore.n]
    /\ UNCHANGED <<sensor, sent>>

AddressSent ==
    /\ wireCore.st = "addr"
    /\ wireCore' = [Settle(wireCore) EXCEPT !.st = "data",
                                            !.left = (wireCore.n + 63) % 64]
    /\ UNCHANGED <<sensor, sent>>

ByteDone(c) ==
    [Settle(c) EXCEPT !.st = IF c.left = 0 THEN "end" ELSE "data",
                      !.left = IF @ = 0 THEN @ ELSE @ - 1,
                      !.cur = @ + 1]

(* The sensor takes a byte into the register the address has come to.        *)
WriteByte ==
    /\ wireCore.st = "data" /\ wireCore.wr
    /\ LET b == IF wireCore.tx = <<>> THEN Junk ELSE Head(wireCore.tx)
       IN  sensor' = IF wireCore.cur \in Registers
                       THEN [sensor EXCEPT ![wireCore.cur] = b] ELSE sensor
    /\ wireCore' = [ByteDone(wireCore) EXCEPT
                  !.tx = IF @ = <<>> THEN @ ELSE Tail(@)]
    /\ UNCHANGED sent

(* The sensor answers on the shared line once it is in its three-wire mode;  *)
(* reading a data register clears the data-ready flag.                       *)
ReadByte ==
    /\ wireCore.st = "data" /\ ~wireCore.wr
    /\ LET b == IF wireCore.cur \in Registers /\ sensor[Format] = On
                  THEN sensor[wireCore.cur] ELSE Junk
       IN  /\ wireCore' = [ByteDone(wireCore) EXCEPT !.rx = Push(@, b)]
           /\ sent' = Append(sent, b)
    /\ sensor' = IF wireCore.cur \in DataRegisters
                   THEN [sensor EXCEPT ![IntSource] = Off] ELSE sensor

End ==
    /\ wireCore.st = "end"
    /\ wireCore' = [Settle(wireCore) EXCEPT !.st = "done"]
    /\ UNCHANGED <<sensor, sent>>

WireTick ==
    /\ \/ Begin
       \/ /\ ~StartEdge
          /\ Rest \/ Address \/ AddressSent \/ WriteByte \/ ReadByte \/ End
    /\ wireDrv' = IF wireDrv.at = "sleep" /\ wireDrv.ticks < WireSleepTicks
                THEN [wireDrv EXCEPT !.ticks = @ + 1] ELSE wireDrv
    /\ UNCHANGED <<client, wirePatient>>

(* A measuring sensor takes a new sample, of all its bytes; not while it is  *)
(* being read.                                                               *)
Sample ==
    /\ sensor[Power] = On /\ wireCore.st \notin {"addr", "data"}
    /\ \E v \in Samples :
           sensor' = [a \in Registers |->
                        IF a \in DataRegisters THEN v
                        ELSE IF a = IntSource /\ sensor[IntEnable] = On THEN On
                        ELSE sensor[a]]
    /\ UNCHANGED <<wireCore, wireDrv, client, sent, wirePatient>>
-----------------------------------------------------------------------------
(* The driver.  A call clears the start flag and sets the direction...       *)
WireStop ==
    /\ wireDrv.at = "call"
    /\ wireCore' = [wireCore EXCEPT !.start = FALSE, !.read = wireDrv.op.read]
    /\ wireDrv' = [wireDrv EXCEPT !.at = "fill", !.ok = FALSE, !.got = <<>>]
    /\ sent' = <<>>
    /\ UNCHANGED <<sensor, client, wirePatient>>

(* ... writes the register's address, and the bytes or their number, ...     *)
(* Mutant: a read leaves the address of the command before.                  *)
Loaded_old(c, op) ==
    IF op.read THEN [c EXCEPT !.num = op.n - 1]
    ELSE [c EXCEPT !.a = op.a, !.tx = PushAll(@, op.data)]

Loaded(c, op) ==
    IF op.read THEN [c EXCEPT !.a = op.a, !.num = op.n - 1]
    ELSE [c EXCEPT !.a = op.a, !.tx = PushAll(@, op.data)]

Fill ==
    /\ wireDrv.at = "fill"
    /\ wireCore' = Loaded(wireCore, wireDrv.op)
    /\ wireDrv' = [wireDrv EXCEPT !.at = "go"]
    /\ UNCHANGED <<sensor, client, sent, wirePatient>>

(* ... and sets the flag.  The accesses since it was cleared take more than  *)
(* one bit clock, so the controller has seen it clear.                       *)
Go ==
    /\ wireDrv.at = "go" /\ ~wireCore.pre
    /\ wireCore' = [wireCore EXCEPT !.start = TRUE]
    /\ wireDrv' = [wireDrv EXCEPT !.at = "sleep", !.ticks = 0]
    /\ UNCHANGED <<sensor, client, sent, wirePatient>>

(* The sleep outlives the done flag of the command before.                   *)
(* Mutant: the status is polled at once.                                     *)
WireSlept_not == wireDrv.at = "sleep"

WireSlept == wireDrv.at = "sleep" /\ wireDrv.ticks >= WireSleepTicks

WireWake ==
    /\ WireSlept
    /\ wireDrv' = [wireDrv EXCEPT !.at = "poll"]
    /\ UNCHANGED <<wireCore, sensor, client, sent, wirePatient>>

(* A poll that finds the command done ends the loop, and so does the last    *)
(* one; polls that change nothing are not steps.                             *)
WirePoll ==
    /\ wireDrv.at = "poll"
    /\ wireCore.st = "done" \/ ~wirePatient
    /\ wireDrv' = [wireDrv EXCEPT !.at = "halt", !.ok = wireCore.st = "done"]
    /\ UNCHANGED <<wireCore, sensor, client, sent, wirePatient>>

(* The start flag is cleared again.                                          *)
Halt ==
    /\ wireDrv.at = "halt"
    /\ wireCore' = [wireCore EXCEPT !.start = FALSE, !.read = FALSE]
    /\ wireDrv' = [wireDrv EXCEPT
                      !.at = IF wireDrv.ok /\ wireDrv.op.read THEN "drain"
                             ELSE "back"]
    /\ UNCHANGED <<sensor, client, sent, wirePatient>>

(* The bytes of a read are taken out of the FIFO.                            *)
Drain ==
    /\ wireDrv.at = "drain"
    /\ LET n == wireDrv.op.n IN
       /\ wireDrv' = [wireDrv EXCEPT !.at = "back",
                    !.got = [i \in 1 .. n |-> IF i <= Len(wireCore.rx)
                                                THEN wireCore.rx[i] ELSE Junk]]
       /\ wireCore' = [wireCore EXCEPT !.rx = SubSeq(@, n + 1, Len(@))]
    /\ UNCHANGED <<sensor, client, sent, wirePatient>>

WireDriver == WireStop \/ Fill \/ Go \/ WireWake \/ WirePoll \/ Halt \/ Drain
-----------------------------------------------------------------------------
(* The demonstration.  SPI_Init clears both FIFOs.                           *)
WireCleared(c) == [c EXCEPT !.start = FALSE, !.read = FALSE,
                            !.tx = <<>>, !.rx = <<>>]

WireCall(op) == wireDrv' = [wireDrv EXCEPT !.at = "call", !.op = op]
WireReturn ==
    /\ wireDrv' = [wireDrv EXCEPT !.at = "idle"]
    /\ client' = [client EXCEPT !.at = "menu"]

WireSelect ==
    /\ client.at = "menu"
    /\ wireCore' = WireCleared(wireCore)
    /\ WireCall(Setup[1])
    /\ client' = [at |-> "setup", step |-> 1, key |-> FALSE]
    /\ UNCHANGED <<sensor, sent, wirePatient>>

(* The FIFOs are cleared again after the first write, whose start has ended  *)
(* the noise.                                                                *)
(* Mutant: one clear, at the beginning, is thought to be enough.             *)
AfterSetup_keep(c, step) == c

AfterSetup(c, step) == IF step = 1 THEN WireCleared(c) ELSE c

Configure ==
    /\ client.at = "setup" /\ wireDrv.at = "back"
    /\ wireCore' = AfterSetup(wireCore, client.step)
    /\ \/ /\ wireDrv.ok /\ client.step < Len(Setup)
          /\ WireCall(Setup[client.step + 1])
          /\ client' = [client EXCEPT !.step = @ + 1]
       \/ /\ wireDrv.ok /\ client.step = Len(Setup)
          /\ WireCall(ReadOp(DevId, 1))
          /\ client' = [client EXCEPT !.at = "id"]
       \/ ~wireDrv.ok /\ WireReturn
    /\ UNCHANGED <<sensor, sent, wirePatient>>

(* The loop asks for a sample until a key is pressed.                        *)
(* Mutant: the key flag is not looked at.                                    *)
WireAgain_deaf ==
    /\ WireCall(ReadOp(IntSource, 1))
    /\ client' = [client EXCEPT !.at = "ready"]

WireAgain ==
    \/ client.key /\ WireReturn
    \/ /\ ~client.key
       /\ WireCall(ReadOp(IntSource, 1))
       /\ client' = [client EXCEPT !.at = "ready"]

Identify ==
    /\ client.at = "id" /\ wireDrv.at = "back"
    /\ \/ wireDrv.ok /\ WireAgain
       \/ ~wireDrv.ok /\ WireReturn
    /\ UNCHANGED <<wireCore, sensor, sent, wirePatient>>

(* A failed read of the flag counts as no sample.                            *)
Ready ==
    /\ client.at = "ready" /\ wireDrv.at = "back"
    /\ LET ready == wireDrv.ok /\ wireDrv.got[1] = On
       IN  \/ /\ ready
              /\ WireCall(ReadOp(Data, DataLen))
              /\ client' = [client EXCEPT !.at = "xyz"]
           \/ ~ready /\ WireAgain
    /\ UNCHANGED <<wireCore, sensor, sent, wirePatient>>

WireShow ==
    /\ client.at = "xyz" /\ wireDrv.at = "back"
    /\ \/ wireDrv.ok /\ WireAgain
       \/ ~wireDrv.ok /\ WireReturn
    /\ UNCHANGED <<wireCore, sensor, sent, wirePatient>>

(* KEY_ISR, while the demonstration runs.                                    *)
WirePressKey ==
    /\ client.at # "menu" /\ ~client.key
    /\ client' = [client EXCEPT !.key = TRUE]
    /\ UNCHANGED <<wireCore, sensor, wireDrv, sent, wirePatient>>

Client == Configure \/ Identify \/ Ready \/ WireShow

WireNext == WireTick \/ Sample \/ WireDriver \/ Client \/ WireSelect \/ WirePressKey

WireSpec == WireInit /\ [][WireNext]_wireVars

(* The bit clock runs, and so does the processor.                            *)
WireFairSpec == /\ WireSpec
                /\ WF_wireVars(WireTick) /\ WF_wireVars(WireDriver)
                /\ WF_wireVars(Client)
-----------------------------------------------------------------------------
(* Values.                                                                   *)
WireTypeOK ==
    /\ Len(wireCore.tx) <= Depth /\ Len(wireCore.rx) <= Depth
    /\ wireCore.st \in {"idle", "start", "addr", "data", "end", "done"}
    /\ wireCore.n \in 0 .. Depth /\ wireCore.left \in 0 .. 63
    /\ wirePatient => /\ wireCore.left < Depth
                      /\ wireCore.cur \in 0 .. (Data + DataLen)
    /\ sensor \in [Registers -> {Off, On, Id, Junk} \union Samples]
    /\ wireDrv.at \in {"idle", "call", "fill", "go", "sleep", "poll", "halt",
                       "drain", "back"}
    /\ client.at \in {"menu", "setup", "id", "ready", "xyz"}
    /\ client.step \in 0 .. Len(Setup)

(* If the polls outlast every command, a read that succeeds returns exactly  *)
(* the bytes the sensor sent in this command (SPI_MultipleRead): no noise    *)
(* from before the first start, no byte of an earlier command, none missing. *)
ReadsOwn ==
    wirePatient /\ wireDrv.at = "back" /\ wireDrv.ok /\ wireDrv.op.read =>
        wireDrv.got = sent /\ \A i \in 1 .. Len(sent) : sent[i] # Junk

(* What the demonstration then reads is what the sensor holds: the           *)
(* identifier is the sensor's and the bytes of X, Y and Z belong to one      *)
(* sample, taken while it was measuring (ADXL345_SPI_IdRead,                 *)
(* ADXL345_SPI_XYZ_Read).                                                    *)
ReadsTrue ==
    wirePatient /\ wireDrv.at = "back" /\ wireDrv.ok =>
        /\ client.at = "id" => wireDrv.got = <<Id>>
        /\ client.at = "xyz" =>
               \E v \in Samples : wireDrv.got = [i \in 1 .. DataLen |-> v]

(* When the set-up has then succeeded the sensor has taken all of it         *)
(* (ADXL345_SPI_Init): a write reports success only after its byte landed.   *)
SetUp ==
    wirePatient /\ client.at \in {"id", "ready", "xyz"} =>
        \A a \in {Format, Rate, IntEnable, Power} : sensor[a] = On

(* Every call returns (SPI_MultipleWrite, SPI_MultipleRead).                 *)
CallEnds == wireDrv.at = "call" ~> wireDrv.at = "back"

(* A key pressed while the demonstration runs ends it, also with calls that  *)
(* fail (DEMO_ACCELEROMETER).                                                *)
WireKeyEnds == client.key ~> client.at = "menu"

(* The calls on the accelerometer: the settings arrive, and what is read   *)
(* is the sensor's answer to this call.                                    *)
AnswersTrue == SetUp /\ ReadsOwn /\ ReadsTrue
=============================================================================
