----------------------------- MODULE I2cBus_proofs -----------------------------
(***************************************************************************)
(* Proofs about the I2C bus and its EEPROM, for every number of bits in a  *)
(* byte, every address, length and data, and every refusal.                *)
(*                                                                         *)
(* The argument.  BusKept and TransfersTrue speak of the edges of the bus  *)
(* and of calls that have returned; they follow from I2cInv, which says    *)
(* what holds at every line of every function.  Between two functions of a *)
(* call the clock is low and the device has no bit of a byte (Between),    *)
(* and Device says where in the call it is: the byte it expects, the cell  *)
(* it points to, the page it has been given.  Inside a function the device *)
(* has as many bits as the loop has had turns, and they are the leading    *)
(* bits of the byte sent (Shifted, Sent), so that the last of them makes   *)
(* the byte.  After a refusal the device waits for a start, and nothing it *)
(* was given is stored.  The calls of a verification begin with the        *)
(* contents that its steps so far have left (Base).                        *)
(*                                                                         *)
(* The provers know nothing of powers: that they double is a hypothesis    *)
(* (PowersAssumed), which EightBits proves for the bytes of the source.    *)
(***************************************************************************)
EXTENDS I2cBus, TLAPS

(* The first k bits of a byte, as a number.                                *)
Prefix(b, k) == b \div 2^(Bits - k)

(* What the device does not depend on: a call, the types, the verification *)
(* and the contents its present call begins with.                          *)
Writes == {"write", "mwrite"}
IsTransfer(c) ==
    /\ c.op \in Writes \union {"read", "mread"} /\ c.dev \in Foreign \union {DeviceAddr}
    /\ c.at \in I2cByte /\ c.len \in Nat /\ c.len >= 1 /\ (c.op \in {"write", "read"} => c.len = 1)
    /\ c.op \in Writes => \A i \in 1..c.len : c.bytes[i] \in I2cByte
Eeproms == [state : Listening \union {"idle", "send"}, n : 0..(Bits + 1), byte : Nat,
            last : {0, 1}, pull : BOOLEAN, ptr : I2cByte, new : [I2cByte -> I2cByte]]
I2cTyped ==
    /\ scl \in {0, 1} /\ sda \in {0, 1} /\ out \in BOOLEAN /\ success \in BOOLEAN
    /\ data \in Seq(I2cByte) /\ cells \in [I2cByte -> I2cByte] /\ i2cBefore \in [I2cByte -> I2cByte]
    /\ eeprom \in Eeproms
VerifySteps ==
    /\ verify \in [step : 0..Steps, test : I2cByte, org : I2cByte]
    /\ verify.step # 0 =>
         /\ IsTransfer(transfer) /\ transfer.dev = DeviceAddr
         /\ transfer.op = IF verify.step \in {2, 4} THEN "write" ELSE "read"
         /\ verify.step >= 2 => verify.org = i2cBefore[transfer.at]
         /\ verify.step = 2 => transfer.bytes[1] = verify.test
         /\ verify.step = 4 => transfer.bytes[1] = verify.org
Base == IF verify.step \in {3, 4} THEN [i2cBefore EXCEPT ![transfer.at] = verify.test] ELSE i2cBefore

(* The functions of a call, the device before function k of a call that    *)
(* has gone well so far, and what has been read by then.                   *)
LastFun == transfer.len + (IF transfer.op \in Writes THEN 4 ELSE 6)
Device(k) ==
    /\ k = 2 => eeprom.state = "device"
    /\ k = 3 => eeprom.state = "pointer"
    /\ transfer.op \in Writes /\ k >= 4 =>
         /\ eeprom.state = "store" /\ eeprom.ptr = Cell(k - 3)
         /\ Written(eeprom.new, cells, k - 4)
    /\ transfer.op \notin Writes /\ k >= 4 =>
         /\ k = 4 => eeprom.state = "store" /\ eeprom.ptr = Cell(1)
         /\ k = 5 => eeprom.state = "device" /\ eeprom.ptr = Cell(1)
         /\ k >= 6 /\ k < LastFun => eeprom.state = "send" /\ eeprom.ptr = Cell(k - 5)
         /\ k = LastFun => eeprom.state = "idle"
ReadBy(k) == IF transfer.op \in Writes \/ k <= 6 THEN 0 ELSE k - 6
GotBy(k) == Len(data) = ReadBy(k) /\ \A i \in 1..ReadBy(k) : data[i] = cells[Cell(i)]
Well(k) == IF success THEN Device(k) /\ GotBy(k) ELSE eeprom.state \in {"idle", "device"}

(* The bus between two calls, and before function k of a call.             *)
BusRest == scl = 1 /\ sda = 1 /\ eeprom.state = "idle" /\ ~eeprom.pull
Between(k) == /\ scl = 0 /\ eeprom.n = 0 /\ eeprom.byte = 0 /\ Well(k)
              /\ eeprom.pull <=> eeprom.state = "send" /\ Puts(eeprom.ptr, 0)
FunEntry(k) == IF k = 1 THEN BusRest /\ success /\ data = <<>> ELSE Between(k)

(* At the lines of the functions.                                          *)
InStart ==
    /\ line \in 1..5 /\ fun \in {1, 4}
    /\ line <= 3 => FunEntry(fun)
    /\ line >= 2 => out
    /\ line \in {3, 4} => sda = 1
    /\ line >= 4 => /\ scl = 1 /\ ~eeprom.pull /\ (success => data = <<>>)
                    /\ success /\ fun = 4 => eeprom.ptr = Cell(1)
    /\ line = 5 => sda = 0 /\ eeprom.state = "device" /\ eeprom.n = 0 /\ eeprom.byte = 0
InStop ==
    /\ line \in 1..4 /\ fun = LastFun
    /\ line <= 3 => Between(fun)
    /\ line >= 2 => out
    /\ line >= 3 => sda = 0
    /\ line = 4 => scl = 1 /\ ~eeprom.pull /\ Well(fun)

(* i2c_write: k bits are in the device; it has answered, or gives up.      *)
Shifted(k) == /\ eeprom.n = k /\ eeprom.byte = Prefix(Running.byte, k)
              /\ ~eeprom.pull /\ Device(fun)
Answered(n) == \/ /\ eeprom.pull /\ eeprom.n = n /\ eeprom.byte = Running.byte
                  /\ Device(fun) /\ Knows(eeprom.byte)
               \/ ~eeprom.pull /\ eeprom.state = "idle" /\ eeprom.n = 0 /\ eeprom.byte = 0
InWrite ==
    /\ line \in 1..9 /\ GotBy(fun) /\ turn \in 1..Bits
    /\ line <= 8 => success
    /\ line = 1 => Between(fun) /\ turn = 1
    /\ line \in 2..5 => out
    /\ line \in 2..4 => scl = 0 /\ Shifted(turn - 1)
    /\ line \in {4, 5} => sda = BitOf(Running.byte, turn)
    /\ line = 5 => scl = 1 /\ Shifted(turn)
    /\ line >= 6 => turn = Bits
    /\ line \in {6, 7} => scl = 0 /\ Answered(Bits)
    /\ line >= 7 => ~out
    /\ line >= 8 => scl = 1 /\ Answered(Bits + 1)
    /\ line = 9 => (success <=> eeprom.pull)

(* i2c_read: k bits of the cell are sent, m of them sampled.               *)
Sent(k, m) ==
    /\ eeprom.state = "send" /\ eeprom.n = k /\ eeprom.ptr = Cell(fun - 5)
    /\ Len(data) = fun - 5 /\ \A i \in 1..(fun - 6) : data[i] = cells[Cell(i)]
    /\ data[fun - 5] = Prefix(cells[eeprom.ptr], m)
InRead ==
    /\ line \in 1..11 /\ success /\ turn \in 1..Bits
    /\ line \in 1..2 => turn = 1
    /\ line \in 2..6 => ~out
    /\ line \in 1..3 => scl = 0 /\ Sent(turn - 1, turn - 1)
    /\ line = 4 => scl = 1 /\ Sent(turn, turn - 1)
    /\ line \in 1..4 => (eeprom.pull <=> Puts(eeprom.ptr, turn - 1))
    /\ line = 5 => scl = 1 /\ Sent(turn, turn)
    /\ line >= 6 => turn = Bits
    /\ line \in 6..9 => scl = 0 /\ Sent(Bits, Bits) /\ ~eeprom.pull
    /\ line \in 8..10 => out
    /\ line \in {9, 10} => sda = IF fun # transfer.len + 5 THEN 0 ELSE 1
    /\ line = 10 => /\ scl = 1 /\ Sent(Bits + 1, Bits) /\ ~eeprom.pull /\ eeprom.last = sda
    /\ line = 11 => Between(fun + 1)

Within == CASE Running.fn = "start" -> InStart
            [] Running.fn = "stop" -> InStop
            [] Running.fn = "write" -> InWrite
            [] Running.fn = "read" -> InRead

(* A call is on its way; it has returned.                                  *)
InCallI == /\ IsTransfer(transfer) /\ fun \in 1..LastFun /\ cells = Base
           /\ IF line = 0 THEN FunEntry(fun) ELSE Within
CallOver ==
    /\ line = 0 /\ BusRest
    /\ transfer.op # "none" =>
         /\ IsTransfer(transfer)
         /\ IF success /\ transfer.op \in Writes THEN Written(cells, Base, transfer.len)
            ELSE cells = Base
         /\ success /\ transfer.op \notin Writes =>
              Len(data) = transfer.len /\ \A i \in 1..transfer.len : data[i] = cells[Cell(i)]
I2cInv == I2cTyped /\ VerifySteps /\ IF fun = 0 THEN CallOver ELSE InCallI

(* What the prover does not know of powers: they are positive and each is  *)
(* twice the one before.                                                   *)
PowersAssumed == \A n \in 0..Bits : 2^n \in Nat \ {0} /\ 2^(n + 1) = 2 * 2^n

(* The bytes of the source have eight bits.                                *)
THEOREM EightBits == Bits = 8 => PowersAssumed
<1> DEFINE Pow(n) == 2^n
<1>1. /\ Pow(0) = 1 /\ Pow(1) = 2 /\ Pow(2) = 4 /\ Pow(3) = 8 /\ Pow(4) = 16
      /\ Pow(5) = 32 /\ Pow(6) = 64 /\ Pow(7) = 128 /\ Pow(8) = 256 /\ Pow(9) = 512
    OBVIOUS
<1>2. \A n \in 0..8 : Pow(n) \in Nat \ {0} /\ Pow(n + 1) = 2 * Pow(n)
  <2> HIDE DEF Pow
  <2> SUFFICES ASSUME NEW n \in 0..8 PROVE Pow(n) \in Nat \ {0} /\ Pow(n + 1) = 2 * Pow(n)
      OBVIOUS
  <2>1. \/ n = 0 \/ n = 1 \/ n = 2 \/ n = 3 \/ n = 4 \/ n = 5 \/ n = 6 \/ n = 7 \/ n = 8
      OBVIOUS
  <2> QED
      BY <1>1, <2>1
<1> QED
    BY <1>2 DEF PowersAssumed

(* A quotient and what is left of it.                                      *)
LEMMA Divided ==
    ASSUME NEW L \in Nat \ {0}, NEW a \in Int
    PROVE  \E q \in Int, r \in 0..(L - 1) : q = a \div L /\ r = a % L /\ a = q * L + r
<1>1. a \div L \in Int /\ a % L \in 0..(L - 1) /\ a = (a \div L) * L + (a % L)
    OBVIOUS
<1> QED
    BY <1>1

LEMMA Remainder ==
    ASSUME NEW L \in Nat \ {0}, NEW a \in Int, NEW q \in Int, NEW r \in 0..(L - 1), a = q * L + r
    PROVE  a \div L = q /\ a % L = r
<1>1. PICK p \in Int, t \in 0..(L - 1) : p = a \div L /\ t = a % L /\ a = p * L + t
    BY Divided
<1>2. ASSUME NEW d \in Int, d >= 1 PROVE d * L >= L
    BY <1>2
<1>3. (q - p) * L = t - r /\ (p - q) * L = r - t
    BY <1>1
<1>4. ~(q - p >= 1)
    BY <1>2, <1>3
<1>5. ~(p - q >= 1)
    BY <1>2, <1>3
<1>6. q = p /\ r = t
    BY <1>1, <1>4, <1>5
<1> QED
    BY <1>1, <1>6

(* The bits of a byte make up the byte.                                    *)
LEMMA PrefixStep ==
    ASSUME PowersAssumed, NEW b \in I2cByte
    PROVE  /\ b \in Nat /\ Prefix(b, 0) = 0 /\ Prefix(b, Bits) = b
           /\ \A i \in 0..Bits : Prefix(b, i) \in I2cByte
           /\ \A i \in 1..Bits : /\ BitOf(b, i) \in {0, 1}
                                 /\ Prefix(b, i) = 2 * Prefix(b, i - 1) + BitOf(b, i)
<1>1. PICK N \in Nat \ {0} : N = 2^Bits
    BY I2cAssumption DEF PowersAssumed
<1>2. b \in Nat /\ b < N /\ I2cByte = 0..(N - 1)
    BY <1>1 DEF I2cByte
<1>3. Prefix(b, 0) = 0
  <2>1. Bits - 0 = Bits
      BY I2cAssumption
  <2>2. b \div N = 0
      BY <1>2
  <2> QED
      BY <1>1, <2>1, <2>2 DEF Prefix
<1>4. Prefix(b, Bits) = b
  <2>1. Bits - Bits = 0 /\ 2^0 = 1
      BY I2cAssumption
  <2>2. b \div 1 = b
      BY <1>2
  <2> QED
      BY <2>1, <2>2 DEF Prefix
<1>5. ASSUME NEW i \in 0..Bits PROVE Prefix(b, i) \in I2cByte
  <2>1. PICK m \in Nat \ {0} : m = 2^(Bits - i)
    <3>1. Bits - i \in 0..Bits
        BY I2cAssumption
    <3> QED
        BY <3>1 DEF PowersAssumed
  <2>2. b \div m \in 0..b
    <3>0. b \in Int
        BY <1>2
    <3>1. PICK q \in Int, r \in 0..(m - 1) : q = b \div m /\ b = q * m + r
        BY <3>0, Divided
    <3>2. q >= 0
      <4>1. ASSUME q <= -1 PROVE q * m <= -m
          BY <4>1
      <4> QED
          BY <1>2, <3>1, <4>1
    <3>3. q * m >= q
        BY <3>2
    <3> QED
        BY <1>2, <3>1, <3>2, <3>3
  <2> QED
      BY <1>2, <2>1, <2>2 DEF Prefix
<1>6. ASSUME NEW i \in 1..Bits
      PROVE  BitOf(b, i) \in {0, 1} /\ Prefix(b, i) = 2 * Prefix(b, i - 1) + BitOf(b, i)
  <2>1. PICK k \in 0..Bits : k = Bits - i /\ Bits - (i - 1) = k + 1
      BY I2cAssumption
  <2>2. PICK m \in Nat \ {0} : m = 2^k /\ 2^(k + 1) = 2 * m
      BY <2>1 DEF PowersAssumed
  <2>3. PICK q \in Int, r \in 0..(m - 1) : q = b \div m /\ b = q * m + r
      BY <1>2, Divided
  <2>4. PICK s \in Int, t \in {0, 1} : s = q \div 2 /\ t = q % 2 /\ q = 2 * s + t
      BY <2>3
  <2>5. PICK d \in Nat \ {0} : d = 2 * m
      BY <2>2
  <2>6. b = s * d + (t * m + r)
    <3>1. s * d = 2 * (s * m)
        BY <2>5
    <3>2. q * m = 2 * (s * m) + t * m
        BY <2>4
    <3> QED
        BY <2>3, <3>1, <3>2
  <2>7. t * m + r \in 0..(d - 1)
      BY <2>4, <2>5, <2>3
  <2>8. b \div d = s
    <3>1. PICK j \in 0..(d - 1) : j = t * m + r
        BY <2>7
    <3>2. b \in Int /\ b = s * d + j
        BY <1>2, <2>6, <3>1
    <3> QED
        BY <3>2, Remainder
  <2>9. Prefix(b, i) = q /\ BitOf(b, i) = t
      BY <2>1, <2>2, <2>3, <2>4 DEF Prefix, BitOf
  <2>10. Prefix(b, i - 1) = s
      BY <2>1, <2>2, <2>5, <2>8 DEF Prefix
  <2> QED
      BY <2>4, <2>9, <2>10
<1> QED
    BY <1>2, <1>3, <1>4, <1>5, <1>6

(* The cells one after the other, in a ring.                               *)
LEMMA CellRing ==
    ASSUME PowersAssumed, transfer.at \in I2cByte
    PROVE  /\ Cell(1) = transfer.at
           /\ \A i \in Nat \ {0} : Cell(i) \in I2cByte /\ Bump(Cell(i)) = Cell(i + 1)
<1>1. PICK N \in Nat \ {0} : N = 2^Bits
    BY I2cAssumption DEF PowersAssumed
<1>2. PICK a \in Nat : a = transfer.at /\ a < N /\ I2cByte = 0..(N - 1)
    BY <1>1 DEF I2cByte
<1>3. ASSUME NEW i \in Nat \ {0}
      PROVE  Cell(i) \in I2cByte /\ Bump(Cell(i)) = Cell(i + 1)
  <2>1. PICK x \in Nat : x = a + i - 1 /\ a + (i + 1) - 1 = x + 1
      BY <1>2
  <2>2. PICK q \in Int, j \in 0..(N - 1) : q = x \div N /\ j = x % N /\ x = q * N + j
      BY <2>1, Divided
  <2>3. PICK p \in Int, h \in 0..(N - 1) : p = (j + 1) \div N /\ h = (j + 1) % N /\ j + 1 = p * N + h
    <3>1. PICK y \in Int : y = j + 1
        BY <2>2
    <3> QED
        BY <3>1, Divided
  <2>4. x + 1 = (q + p) * N + h
    <3>1. (q + p) * N = q * N + p * N
        OBVIOUS
    <3>2. PICK u \in Int, v \in Int : u = q * N /\ v = p * N
        OBVIOUS
    <3>3. x = u + j /\ j + 1 = v + h
        BY <2>2, <2>3, <3>2
    <3>4. x + 1 = u + v + h
        BY <3>3
    <3> QED
        BY <3>1, <3>2, <3>4
  <2>5. (x + 1) % N = h
    <3>1. PICK y \in Int, c \in Int : y = x + 1 /\ c = q + p
        BY <2>1, <2>2, <2>3
    <3> QED
        BY <2>3, <2>4, <3>1, Remainder
  <2>6. Cell(i) = j /\ Cell(i + 1) = h
      BY <1>1, <1>2, <2>1, <2>2, <2>5 DEF Cell
  <2>7. Bump(j) = h
      BY <1>1, <2>3 DEF Bump
  <2> QED
      BY <1>2, <2>2, <2>6, <2>7
<1>4. Cell(1) = transfer.at
  <2>1. a + 1 - 1 = a /\ a % N = a
      BY <1>2
  <2> QED
      BY <1>1, <1>2, <2>1 DEF Cell
<1> QED
    BY <1>3, <1>4

(* The address byte with the read bit.                                     *)
LEMMA ReadAddress ==
    ASSUME PowersAssumed, NEW d \in I2cByte
    PROVE  LET b == d - (d % 2) + 1 IN b \in I2cByte /\ b % 2 = 1
<1>1. PICK M \in Nat \ {0} : 2^Bits = 2 * M
  <2>1. PICK k \in 0..Bits : k + 1 = Bits
      BY I2cAssumption
  <2> QED
      BY <2>1 DEF PowersAssumed
<1>2. d \in Nat /\ d < 2 * M /\ I2cByte = 0..(2 * M - 1)
    BY <1>1 DEF I2cByte
<1>3. PICK q \in Int, r \in {0, 1} : r = d % 2 /\ d = 2 * q + r
    BY <1>2
<1>4. q \in Nat /\ q <= M - 1 /\ d - (d % 2) + 1 = 2 * q + 1
    BY <1>2, <1>3
<1>5. (2 * q + 1) % 2 = 1
    BY <1>4
<1> QED
    BY <1>2, <1>4, <1>5

(* A call and the functions it is made of.                                 *)
LEMMA CallSizes ==
    ASSUME IsTransfer(transfer)
    PROVE  /\ transfer.len \in Nat /\ transfer.len >= 1 /\ LastFun \in Nat /\ LastFun >= 5
           /\ transfer.op \in Writes => LastFun = transfer.len + 4
           /\ transfer.op \notin Writes => LastFun = transfer.len + 6
           /\ Len(ScriptOf(transfer)) = LastFun
<1>1. /\ transfer.len \in Nat /\ transfer.len >= 1 /\ LastFun \in Nat /\ LastFun >= 5
      /\ transfer.op \in Writes => LastFun = transfer.len + 4
      /\ transfer.op \notin Writes => LastFun = transfer.len + 6
    BY DEF IsTransfer, LastFun
<1>2. CASE transfer.op \in Writes
  <2>1. ScriptOf(transfer) = WriteScript(transfer)
      BY <1>2 DEF ScriptOf, Writes
  <2>2. Len(WriteScript(transfer)) = transfer.len + 4
      BY <1>1 DEF WriteScript
  <2> QED
      BY <1>1, <1>2, <2>1, <2>2
<1>3. CASE transfer.op \notin Writes
  <2>1. ScriptOf(transfer) = ReadScript(transfer)
      BY <1>3 DEF ScriptOf, Writes
  <2>2. Len(ReadScript(transfer)) = transfer.len + 6
      BY <1>1 DEF ReadScript
  <2> QED
      BY <1>1, <1>3, <2>1, <2>2
<1> QED
    BY <1>1, <1>2, <1>3

(* What function fun of the call is, by its number.                        *)
IsStart == /\ Running.fn = "start" /\ fun \in {1, 4} /\ (fun = 1 => ~Running.if)
           /\ fun = 4 => transfer.op \notin Writes /\ (~Running.if => transfer.op = "read")
IsStop == Running.fn = "stop" /\ fun = LastFun /\ ~Running.if
IsWrite ==
    /\ Running.fn = "write" /\ fun \in 2..(LastFun - 1) /\ Running.if /\ Running.byte \in I2cByte
    /\ fun = 2 => Running.byte = transfer.dev
    /\ fun = 3 => Running.byte = transfer.at
    /\ transfer.op \in Writes /\ fun >= 4 => Running.byte = transfer.bytes[fun - 3]
    /\ transfer.op \notin Writes => fun \in {2, 3, 5}
    /\ transfer.op \notin Writes /\ fun = 5 => Running.byte % 2 = 1
IsRead == /\ Running.fn = "read" /\ transfer.op \notin Writes /\ Running.if
          /\ fun \in 6..(LastFun - 1) /\ (Running.byte = 1 <=> fun # transfer.len + 5)

LEMMA ScriptAt ==
    ASSUME PowersAssumed, IsTransfer(transfer), fun \in 1..LastFun
    PROVE  IsStart \/ IsStop \/ IsWrite \/ IsRead
<1>1. /\ transfer.len \in Nat /\ transfer.len >= 1 /\ LastFun \in Nat /\ LastFun >= 5 /\ fun \in Nat
      /\ transfer.op \in Writes => LastFun = transfer.len + 4
      /\ transfer.op \notin Writes => LastFun = transfer.len + 6
    BY CallSizes
<1>2. transfer.dev \in I2cByte /\ transfer.at \in I2cByte
    BY I2cAssumption DEF IsTransfer
<1>3. CASE transfer.op \in Writes
  <2>1. fun \in 1..(transfer.len + 4)
      BY <1>1, <1>3
  <2>2. Running = CASE fun = 1 -> Start
                    [] fun = 2 -> W(transfer.dev)
                    [] fun = 3 -> W(transfer.at)
                    [] fun = transfer.len + 4 -> Stop
                    [] OTHER -> W(transfer.bytes[fun - 3])
      BY <1>3, <2>1 DEF Running, ScriptOf, WriteScript, Writes
  <2>3. CASE fun = 1
      BY <1>1, <2>2, <2>3 DEF IsStart, Start, F
  <2>4. CASE fun = LastFun
    <3>1. Running = Stop
        BY <1>1, <1>3, <2>2, <2>4
    <3> QED
        BY <2>4, <3>1 DEF IsStop, Stop, F
  <2>5. CASE fun \in 2..(LastFun - 1)
    <3>1. CASE fun = 2
      <4>1. Running = W(transfer.dev)
          BY <1>1, <2>2, <3>1
      <4> QED
          BY <1>2, <1>3, <2>5, <3>1, <4>1 DEF IsWrite, W, F
    <3>2. CASE fun = 3
      <4>1. Running = W(transfer.at)
          BY <1>1, <2>2, <3>2
      <4> QED
          BY <1>2, <1>3, <2>5, <3>2, <4>1 DEF IsWrite, W, F
    <3>3. CASE fun >= 4
      <4>1. Running = W(transfer.bytes[fun - 3]) /\ fun - 3 \in 1..transfer.len
          BY <1>1, <1>3, <2>2, <2>5, <3>3
      <4>2. transfer.bytes[fun - 3] \in I2cByte
          BY <1>3, <4>1 DEF IsTransfer
      <4> QED
          BY <1>1, <1>3, <2>5, <3>3, <4>1, <4>2 DEF IsWrite, W, F
    <3> QED
        BY <1>1, <2>5, <3>1, <3>2, <3>3
  <2> QED
      BY <1>1, <2>3, <2>4, <2>5
<1>4. CASE transfer.op \notin Writes
  <2>1. fun \in 1..(transfer.len + 6)
      BY <1>1, <1>4
  <2>2. Running = CASE fun = 1 -> Start
                    [] fun = 2 -> W(transfer.dev)
                    [] fun = 3 -> W(transfer.at)
                    [] fun = 4 -> (IF transfer.op = "read" THEN Start ELSE Restart)
                    [] fun = 5 -> W(transfer.dev - (transfer.dev % 2) + 1)
                    [] fun = transfer.len + 6 -> Stop
                    [] OTHER -> R(fun # transfer.len + 5)
      BY <1>4, <2>1 DEF Running, ScriptOf, ReadScript, Writes
  <2>3. CASE fun = 1
      BY <1>1, <2>2, <2>3 DEF IsStart, Start, F
  <2>4. CASE fun = 4
    <3>1. Running = IF transfer.op = "read" THEN Start ELSE Restart
        BY <1>1, <2>2, <2>4
    <3> QED
        BY <1>4, <2>4, <3>1 DEF IsStart, Start, Restart, F
  <2>5. CASE fun = LastFun
    <3>1. Running = Stop
        BY <1>1, <1>4, <2>2, <2>5
    <3> QED
        BY <2>5, <3>1 DEF IsStop, Stop, F
  <2>6. CASE fun = 2
    <3>1. Running = W(transfer.dev) /\ fun \in 2..(LastFun - 1)
        BY <1>1, <2>2, <2>6
    <3> QED
        BY <1>2, <1>4, <2>6, <3>1 DEF IsWrite, W, F
  <2>7. CASE fun = 3
    <3>1. Running = W(transfer.at) /\ fun \in 2..(LastFun - 1)
        BY <1>1, <2>2, <2>7
    <3> QED
        BY <1>2, <1>4, <2>7, <3>1 DEF IsWrite, W, F
  <2>8. CASE fun = 5
    <3>1. PICK b : b = transfer.dev - (transfer.dev % 2) + 1
        OBVIOUS
    <3>2. b \in I2cByte /\ b % 2 = 1
        BY <1>2, <3>1, ReadAddress
    <3>3. Running = W(b) /\ fun \in 2..(LastFun - 1)
        BY <1>1, <1>4, <2>2, <2>8, <3>1
    <3> QED
        BY <1>4, <2>8, <3>2, <3>3 DEF IsWrite, W, F
  <2>9. CASE fun \in 6..(LastFun - 1)
    <3>1. Running = R(fun # transfer.len + 5)
        BY <1>1, <1>4, <2>2, <2>9
    <3> QED
        BY <1>4, <2>9, <3>1 DEF IsRead, R, F
  <2> QED
      BY <1>1, <2>3, <2>4, <2>5, <2>6, <2>7, <2>8, <2>9
<1> QED
    BY <1>3, <1>4

(* One write of a port, by its kind.                                       *)
LEMMA PortStep ==
    ASSUME I2cTyped, Port, NEW o, o = OpsOf(Running, turn)[line]
    PROVE  /\ UNCHANGED <<transfer, i2cBefore, verify>>
           /\ o.port = "scl" =>
                /\ scl' = o.v /\ UNCHANGED <<sda, out, success, data, cells>>
                /\ scl = o.v => UNCHANGED eeprom
                /\ scl = 0 /\ o.v = 1 => Rise(Sda)
                /\ scl = 1 /\ o.v = 0 => Fall
           /\ o.port \in {"sda", "dir"} =>
                /\ UNCHANGED <<scl, success, data>>
                /\ sda' = IF o.port = "sda" THEN o.v ELSE sda
                /\ out' = IF o.port = "dir" THEN o.v = 1 ELSE out
                /\ scl = 0 \/ Wire(out', sda', eeprom) = Sda => UNCHANGED <<eeprom, cells>>
                /\ scl = 1 /\ Wire(out', sda', eeprom) # Sda => Turn(Wire(out', sda', eeprom))
           /\ o.port = "ack" =>
                UNCHANGED <<scl, sda, out, data, eeprom, cells>> /\ success' = (Sda = 0)
           /\ o.port = "sample" =>
                /\ UNCHANGED <<scl, sda, out, success, eeprom, cells>>
                /\ data' = [data EXCEPT ![Len(data)] = 2 * @ + Sda]
<1>1. /\ scl' = IF o.port = "scl" THEN o.v ELSE scl
      /\ sda' = IF o.port = "sda" THEN o.v ELSE sda
      /\ out' = IF o.port = "dir" THEN o.v = 1 ELSE out
      /\ success' = IF o.port = "ack" THEN Sda = 0 ELSE success
      /\ data' = IF o.port = "sample" THEN [data EXCEPT ![Len(data)] = 2 * @ + Sda] ELSE data
      /\ UNCHANGED <<transfer, i2cBefore, verify>>
    BY DEF Port
<1>2. PICK w : w = Wire(out', sda', eeprom)
    OBVIOUS
<1>3. (CASE scl = 0 /\ scl' = 1 -> Rise(Sda) /\ UNCHANGED cells
         [] scl = 1 /\ scl' = 0 -> Fall /\ UNCHANGED cells
         [] scl = 1 /\ scl' = 1 /\ w # Sda -> Turn(w)
         [] OTHER -> UNCHANGED <<eeprom, cells>>)
    BY <1>2 DEF Port
<1>4. scl \in {0, 1}
    BY DEF I2cTyped
<1>5. o.port = "scl" => w = Sda
    BY <1>1, <1>2 DEF Sda
<1>6. o.port \in {"ack", "sample"} => w = Sda
    BY <1>1, <1>2 DEF Sda
<1>7. scl = 0 /\ scl' = 1 => Rise(Sda) /\ UNCHANGED cells
    BY <1>3
<1>8. scl = 1 /\ scl' = 0 => Fall /\ UNCHANGED cells
    BY <1>3
<1>9. scl = 1 /\ scl' = 1 /\ w # Sda => Turn(w)
    BY <1>3
<1>10. scl' = scl /\ (scl = 0 \/ w = Sda) => UNCHANGED <<eeprom, cells>>
    BY <1>3, <1>4
<1>11. ASSUME o.port = "scl"
       PROVE  /\ scl' = o.v /\ UNCHANGED <<sda, out, success, data, cells>>
              /\ scl = o.v => UNCHANGED eeprom
              /\ scl = 0 /\ o.v = 1 => Rise(Sda)
              /\ scl = 1 /\ o.v = 0 => Fall
  <2>1. scl' = o.v /\ UNCHANGED <<sda, out, success, data>>
      BY <1>1, <1>11
  <2>2. w = Sda
      BY <1>5, <1>11
  <2>3. UNCHANGED cells
      BY <1>3, <1>4, <2>2
  <2> QED
      BY <1>7, <1>8, <1>10, <2>1, <2>2, <2>3
<1>12. ASSUME o.port \in {"sda", "dir"}
       PROVE  /\ UNCHANGED <<scl, success, data>>
              /\ scl = 0 \/ w = Sda => UNCHANGED <<eeprom, cells>>
              /\ scl = 1 /\ w # Sda => Turn(w)
    BY <1>1, <1>9, <1>10, <1>12
<1>13. o.port \in {"ack", "sample"} => UNCHANGED <<scl, sda, out, eeprom, cells>>
    BY <1>1, <1>6, <1>10
<1> QED
    BY <1>1, <1>2, <1>11, <1>12, <1>13

(* The lines of the functions, what each writes and what comes after it.   *)
NextOp == line' = line + 1 /\ UNCHANGED <<fun, turn>>
NextFun == line' = 0 /\ fun' = IF fun = LastFun THEN 0 ELSE fun + 1
AtLine(o) == OpsOf(Running, turn)[line] = o

LEMMA StartLines ==
    ASSUME IsTransfer(transfer), IsStart, line \in 1..5, Port
    PROVE  /\ line = 1 => AtLine(DirOut) /\ NextOp
           /\ line = 2 => AtLine(SdaIs(1)) /\ NextOp
           /\ line = 3 => AtLine(Scl(1)) /\ NextOp
           /\ line = 4 => AtLine(SdaIs(0)) /\ NextOp
           /\ line = 5 => AtLine(Scl(0)) /\ NextFun
<1>1. OpsOf(Running, turn) = StartOps /\ LoopLast(Running) = 0
    BY DEF OpsOf, LoopLast, IsStart
<1>2. Len(StartOps) = 5
    BY DEF StartOps
<1>3. IF line < 5 THEN line' = line + 1 /\ UNCHANGED <<fun, turn>> ELSE Proceed
    BY <1>1, <1>2 DEF Port, Onward
<1>4. line = 5 => NextFun
    BY <1>3, CallSizes DEF Proceed, NextFun
<1> QED
    BY <1>1, <1>3, <1>4 DEF StartOps, AtLine, NextOp

LEMMA StopLines ==
    ASSUME IsTransfer(transfer), IsStop, line \in 1..4, Port
    PROVE  /\ line = 1 => AtLine(DirOut) /\ NextOp
           /\ line = 2 => AtLine(SdaIs(0)) /\ NextOp
           /\ line = 3 => AtLine(Scl(1)) /\ NextOp
           /\ line = 4 => AtLine(SdaIs(1)) /\ NextFun
<1>1. OpsOf(Running, turn) = StopOps /\ LoopLast(Running) = 0
    BY DEF OpsOf, LoopLast, IsStop
<1>2. Len(StopOps) = 4
    BY DEF StopOps
<1>3. IF line < 4 THEN line' = line + 1 /\ UNCHANGED <<fun, turn>> ELSE Proceed
    BY <1>1, <1>2 DEF Port, Onward
<1>4. line = 4 => NextFun
    BY <1>3, CallSizes DEF Proceed, NextFun
<1> QED
    BY <1>1, <1>3, <1>4 DEF StopOps, AtLine, NextOp

(* Back to the first line of the loop, or out of it.                       *)
LoopLine(first) == IF turn < Bits THEN line' = first /\ turn' = turn + 1 /\ UNCHANGED fun
                   ELSE NextOp

LEMMA WriteLines ==
    ASSUME IsTransfer(transfer), IsWrite, line \in 1..9, Port
    PROVE  /\ line = 1 => AtLine(DirOut) /\ NextOp
           /\ line = 2 => AtLine(Scl(0)) /\ NextOp
           /\ line = 3 => AtLine(SdaIs(BitOf(Running.byte, turn))) /\ NextOp
           /\ line = 4 => AtLine(Scl(1)) /\ NextOp
           /\ line = 5 => AtLine(Scl(0)) /\ LoopLine(2)
           /\ line = 6 => AtLine(DirIn) /\ NextOp
           /\ line = 7 => AtLine(Scl(1)) /\ NextOp
           /\ line = 8 => AtLine(Ack) /\ NextOp
           /\ line = 9 => AtLine(Scl(0)) /\ NextFun
<1>1. /\ OpsOf(Running, turn) = WriteOps(Running.byte, turn)
      /\ LoopLast(Running) = 5 /\ LoopFirst(Running) = 2
    BY DEF OpsOf, LoopLast, LoopFirst, IsWrite
<1>2. Len(WriteOps(Running.byte, turn)) = 9
    BY DEF WriteOps
<1>3. IF line = 5 /\ turn < Bits THEN line' = 2 /\ turn' = turn + 1 /\ UNCHANGED fun
      ELSE IF line < 9 THEN line' = line + 1 /\ UNCHANGED <<fun, turn>> ELSE Proceed
    BY <1>1, <1>2 DEF Port, Onward
<1>4. line = 9 => NextFun
    BY <1>3, CallSizes DEF Proceed, NextFun
<1>5. line = 5 => LoopLine(2)
    BY <1>3 DEF LoopLine, NextOp
<1>6. line # 5 /\ line # 9 => NextOp
    BY <1>3 DEF NextOp
<1> QED
    BY <1>1, <1>4, <1>5, <1>6 DEF WriteOps, AtLine

LEMMA ReadLines ==
    ASSUME IsTransfer(transfer), IsRead, line \in 1..11, Port
    PROVE  /\ line = 1 => AtLine(DirIn) /\ NextOp
           /\ line = 2 => AtLine(Scl(0)) /\ NextOp
           /\ line = 3 => AtLine(Scl(1)) /\ NextOp
           /\ line = 4 => AtLine(Sample) /\ NextOp
           /\ line = 5 => AtLine(Scl(0)) /\ LoopLine(3)
           /\ line = 6 => AtLine(Scl(0)) /\ NextOp
           /\ line = 7 => AtLine(DirOut) /\ NextOp
           /\ line = 8 => /\ AtLine(SdaIs(IF fun # transfer.len + 5 THEN 0 ELSE 1))
                          /\ NextOp
           /\ line = 9 => AtLine(Scl(1)) /\ NextOp
           /\ line = 10 => AtLine(Scl(0)) /\ NextOp
           /\ line = 11 => AtLine(SdaIs(0)) /\ NextFun
<1>0. PICK ack \in BOOLEAN : ack = (Running.byte = 1)
    OBVIOUS
<1>1. /\ OpsOf(Running, turn) = ReadOps(ack)
      /\ LoopLast(Running) = 5 /\ LoopFirst(Running) = 3
    BY <1>0 DEF OpsOf, LoopLast, LoopFirst, IsRead
<1>2. Len(ReadOps(ack)) = 11
    BY DEF ReadOps
<1>3. IF line = 5 /\ turn < Bits THEN line' = 3 /\ turn' = turn + 1 /\ UNCHANGED fun
      ELSE IF line < 11 THEN line' = line + 1 /\ UNCHANGED <<fun, turn>> ELSE Proceed
    BY <1>1, <1>2 DEF Port, Onward
<1>4. line = 11 => NextFun
    BY <1>3, CallSizes DEF Proceed, NextFun
<1>5. line = 5 => LoopLine(3)
    BY <1>3 DEF LoopLine, NextOp
<1>6. line # 5 /\ line # 11 => NextOp
    BY <1>3 DEF NextOp
<1>7. (IF ack THEN 0 ELSE 1) = IF fun # transfer.len + 5 THEN 0 ELSE 1
    BY <1>0 DEF IsRead
<1>8. /\ line = 1 => AtLine(DirIn)
      /\ line = 2 => AtLine(Scl(0))
      /\ line = 3 => AtLine(Scl(1))
      /\ line = 4 => AtLine(Sample)
      /\ line = 5 => AtLine(Scl(0))
      /\ line = 6 => AtLine(Scl(0))
      /\ line = 7 => AtLine(DirOut)
      /\ line = 8 => AtLine(SdaIs(IF ack THEN 0 ELSE 1))
      /\ line = 9 => AtLine(Scl(1))
      /\ line = 10 => AtLine(Scl(0))
      /\ line = 11 => AtLine(SdaIs(0))
    BY <1>1 DEF ReadOps, AtLine
<1> QED
    BY <1>4, <1>5, <1>6, <1>7, <1>8

(* The same for each of the writes.                                        *)
LEMMA SclStep ==
    ASSUME I2cTyped, Port, NEW v \in {0, 1}, AtLine(Scl(v))
    PROVE  /\ scl' = v /\ UNCHANGED <<sda, out, success, data, cells>>
           /\ scl = v => UNCHANGED eeprom
           /\ scl = 0 /\ v = 1 => Rise(Sda)
           /\ scl = 1 /\ v = 0 => Fall
<1>1. PICK o : o = Scl(v)
    OBVIOUS
<1>2. o = OpsOf(Running, turn)[line] /\ o.port = "scl" /\ o.v = v
    BY <1>1 DEF AtLine, Scl
<1> QED
    BY <1>2, PortStep

LEMMA SdaStep ==
    ASSUME I2cTyped, Port, NEW v \in {0, 1}, AtLine(SdaIs(v))
    PROVE  /\ sda' = v /\ UNCHANGED <<scl, out, success, data>>
           /\ scl = 0 \/ Wire(out, v, eeprom) = Sda => UNCHANGED <<eeprom, cells>>
           /\ scl = 1 /\ Wire(out, v, eeprom) # Sda => Turn(Wire(out, v, eeprom))
<1>1. PICK o : o = SdaIs(v)
    OBVIOUS
<1>2. o = OpsOf(Running, turn)[line] /\ o.port = "sda" /\ o.v = v
    BY <1>1 DEF AtLine, SdaIs
<1>3. sda' = v /\ out' = out /\ UNCHANGED <<scl, success, data>>
    BY <1>2, PortStep
<1> QED
    BY <1>2, <1>3, PortStep

LEMMA DirStep ==
    ASSUME I2cTyped, Port, NEW d \in BOOLEAN, AtLine(IF d THEN DirOut ELSE DirIn)
    PROVE  /\ out' = d /\ UNCHANGED <<scl, sda, success, data>>
           /\ scl = 0 \/ Wire(d, sda, eeprom) = Sda => UNCHANGED <<eeprom, cells>>
<1>1. PICK o : o = IF d THEN DirOut ELSE DirIn
    OBVIOUS
<1>2. o = OpsOf(Running, turn)[line] /\ o.port = "dir" /\ (o.v = 1 <=> d)
    BY <1>1 DEF AtLine, DirOut, DirIn
<1>3. sda' = sda /\ out' = d /\ UNCHANGED <<scl, success, data>>
    BY <1>2, PortStep
<1> QED
    BY <1>2, <1>3, PortStep

LEMMA AckStep ==
    ASSUME I2cTyped, Port, AtLine(Ack)
    PROVE  UNCHANGED <<scl, sda, out, data, eeprom, cells>> /\ success' = (Sda = 0)
<1>1. PICK o : o = Ack
    OBVIOUS
<1>2. o = OpsOf(Running, turn)[line] /\ o.port = "ack"
    BY <1>1 DEF AtLine, Ack
<1> QED
    BY <1>2, PortStep

LEMMA SampleStep ==
    ASSUME I2cTyped, Port, AtLine(Sample)
    PROVE  /\ UNCHANGED <<scl, sda, out, success, eeprom, cells>>
           /\ data' = [data EXCEPT ![Len(data)] = 2 * @ + Sda]
<1>1. PICK o : o = Sample
    OBVIOUS
<1>2. o = OpsOf(Running, turn)[line] /\ o.port = "sample"
    BY <1>1 DEF AtLine, Sample
<1> QED
    BY <1>2, PortStep

(* A call, its past and the verification are not touched.                  *)
LEMMA PortKeeps == Port => UNCHANGED <<transfer, i2cBefore, verify>>
BY DEF Port

(* What a call has fixed stays while the call runs.                        *)
LEMMA Steady ==
    ASSUME UNCHANGED transfer
    PROVE  /\ \A i : Cell(i)' = Cell(i)
           /\ \A m, c, n : Written(m, c, n)' <=> Written(m, c, n)
           /\ LastFun' = LastFun /\ (UNCHANGED fun => Running' = Running)
           /\ \A k : ReadBy(k)' = ReadBy(k)
           /\ UNCHANGED cells => \A p, n : Puts(p, n)' <=> Puts(p, n)
           /\ UNCHANGED <<cells, eeprom>> => \A k : Device(k)' <=> Device(k)
           /\ UNCHANGED <<cells, data>> => \A k : GotBy(k)' <=> GotBy(k)
           /\ UNCHANGED <<i2cBefore, verify>> => Base' = Base
<1>1. \A i : Cell(i)' = Cell(i)
    BY DEF Cell
<1>2. \A m, c, n : Written(m, c, n)' <=> Written(m, c, n)
    BY DEF Written, Cell
<1>3. LastFun' = LastFun /\ \A k : ReadBy(k)' = ReadBy(k)
    BY DEF LastFun, ReadBy
<1>4. UNCHANGED fun => Running' = Running
    BY DEF Running
<1>5. UNCHANGED cells => \A p, n : Puts(p, n)' <=> Puts(p, n)
    BY DEF Puts
<1>6. ASSUME UNCHANGED <<cells, eeprom>>, NEW k PROVE Device(k)' <=> Device(k)
    BY <1>1, <1>2, <1>3, <1>6 DEF Device
<1>7. ASSUME UNCHANGED <<cells, data>>, NEW k PROVE GotBy(k)' <=> GotBy(k)
    BY <1>1, <1>3, <1>7 DEF GotBy
<1>8. UNCHANGED <<i2cBefore, verify>> => Base' = Base
    BY DEF Base
<1> QED
    BY <1>1, <1>2, <1>3, <1>4, <1>5, <1>6, <1>7, <1>8

(* Nothing happened to the device, the bytes and the success of the call.  *)
LEMMA SteadyBetween ==
    ASSUME UNCHANGED <<transfer, cells, eeprom, data, success, scl>>, NEW k
    PROVE  (Between(k)' <=> Between(k)) /\ (Well(k)' <=> Well(k))
<1>1. (Device(k)' <=> Device(k)) /\ (GotBy(k)' <=> GotBy(k))
    BY Steady
<1>2. Well(k)' <=> Well(k)
    BY <1>1 DEF Well
<1>3. Puts(eeprom.ptr, 0)' <=> Puts(eeprom.ptr, 0)
    BY DEF Puts
<1> QED
    BY <1>2, <1>3 DEF Between

(* The wire when the device leaves it alone, and when the master does.     *)
LEMMA Wires ==
    /\ Sda \in {0, 1}
    /\ out /\ sda = 0 => Sda = 0
    /\ out /\ ~eeprom.pull /\ sda \in {0, 1} => Sda = sda
    /\ ~out => Sda = IF eeprom.pull THEN 0 ELSE 1
    /\ \A o, s : Wire(o, s, eeprom) \in {0, 1}
    /\ ~eeprom.pull => Wire(TRUE, 1, eeprom) = 1 /\ Wire(FALSE, 1, eeprom) = 1
    /\ Wire(TRUE, 0, eeprom) = 0
BY DEF Sda, Wire

(* The device at an edge of the clock.                                     *)
LEMMA RiseMoves ==
    ASSUME I2cTyped, NEW b \in {0, 1}, Rise(b)
    PROVE  /\ eeprom' \in Eeproms
           /\ eeprom'.state = eeprom.state /\ eeprom'.pull = eeprom.pull
           /\ eeprom'.ptr = eeprom.ptr /\ eeprom'.new = eeprom.new
           /\ eeprom.state # "idle" /\ eeprom.n <= Bits =>
                /\ eeprom'.n = eeprom.n + 1 /\ eeprom'.last = b
                /\ eeprom'.byte = IF eeprom.n < Bits THEN 2 * eeprom.byte + b ELSE eeprom.byte
           /\ eeprom.state = "idle" => UNCHANGED eeprom
<1>1. eeprom \in Eeproms /\ Bits \in Nat
    BY I2cAssumption DEF I2cTyped
<1>2. CASE eeprom.state \in Listening \union {"send"} /\ eeprom.n <= Bits
  <2>1. PICK y \in Nat : y = IF eeprom.n < Bits THEN 2 * eeprom.byte + b ELSE eeprom.byte
      BY <1>1 DEF Eeproms
  <2>2. eeprom' = [eeprom EXCEPT !.n = @ + 1, !.last = b, !.byte = y]
      BY <1>1, <1>2, <2>1 DEF Rise, Eeproms
  <2>3. eeprom' = [state |-> eeprom.state, n |-> eeprom.n + 1, byte |-> y, last |-> b,
                   pull |-> eeprom.pull, ptr |-> eeprom.ptr, new |-> eeprom.new]
      BY <1>1, <2>2 DEF Eeproms
  <2>4. /\ eeprom.state \in Listening \union {"idle", "send"} /\ eeprom.pull \in BOOLEAN
        /\ eeprom.ptr \in I2cByte /\ eeprom.new \in [I2cByte -> I2cByte]
        /\ eeprom.n \in Nat
      BY <1>1 DEF Eeproms
  <2>5. PICK m \in 0..(Bits + 1) : m = eeprom.n + 1
      BY <1>1, <1>2, <2>4
  <2>6. eeprom' \in Eeproms
      BY <2>1, <2>3, <2>4, <2>5 DEF Eeproms
  <2>7. eeprom.state # "idle"
      BY <1>2 DEF Listening
  <2> QED
      BY <2>1, <2>3, <2>6, <2>7
<1>3. CASE ~(eeprom.state \in Listening \union {"send"} /\ eeprom.n <= Bits)
    BY <1>1, <1>3 DEF Rise, Eeproms
<1> QED
    BY <1>2, <1>3

LEMMA ResetTo ==
    ASSUME I2cTyped, NEW s \in Listening \union {"idle", "send"}
    PROVE  /\ I2cReset(s) \in Eeproms /\ I2cReset(s).state = s /\ I2cReset(s).n = 0
           /\ I2cReset(s).byte = 0 /\ ~I2cReset(s).pull /\ I2cReset(s).ptr = eeprom.ptr
           /\ I2cReset(s).new = eeprom.new
<1>1. eeprom \in Eeproms /\ Bits \in Nat
    BY I2cAssumption DEF I2cTyped
<1>2. I2cReset(s) = [state |-> s, n |-> 0, byte |-> 0, last |-> 0, pull |-> FALSE,
                     ptr |-> eeprom.ptr, new |-> eeprom.new]
  <2> DEFINE Fields == {"state", "n", "byte", "last", "pull", "ptr", "new"}
  <2>1. eeprom = [f \in Fields |-> eeprom[f]]
      BY <1>1 DEF Eeproms
  <2>2. I2cReset(s) = [f \in Fields |->
                         CASE f = "state" -> s [] f \in {"n", "byte", "last"} -> 0
                           [] f = "pull" -> FALSE [] OTHER -> eeprom[f]]
      BY <2>1 DEF I2cReset
  <2> QED
      BY <2>2
<1>3. eeprom.ptr \in I2cByte /\ eeprom.new \in [I2cByte -> I2cByte] /\ 0 \in 0..(Bits + 1)
    BY <1>1 DEF Eeproms
<1> QED
    BY <1>2, <1>3 DEF Eeproms

(* Nothing is moved on the wire while the clock is high.                   *)
Quiet == scl = 1 /\ scl' = 1 => Sda' = Sda

(* i2c_start.                                                              *)
LEMMA StartSteps ==
    ASSUME I2cTyped, IsTransfer(transfer), IsStart, InStart, Port
    PROVE  /\ I2cTyped' /\ UNCHANGED <<cells, transfer, i2cBefore, verify>>
           /\ IF line < 5 THEN NextOp /\ InStart' ELSE NextFun /\ Between(fun)'
           /\ Quiet \/ Sda' = 0
<1>1. UNCHANGED <<transfer, i2cBefore, verify>> /\ fun < LastFun /\ line \in 1..5
      /\ fun \in {1, 4} /\ Bits \in Nat /\ Bits > 1
    BY PortKeeps, CallSizes, I2cAssumption DEF IsStart, InStart
<1>2. /\ scl \in {0, 1} /\ sda \in {0, 1} /\ out \in BOOLEAN /\ success \in BOOLEAN
      /\ data \in Seq(I2cByte) /\ cells \in [I2cByte -> I2cByte]
      /\ i2cBefore \in [I2cByte -> I2cByte] /\ eeprom \in Eeproms
    BY DEF I2cTyped
<1>3. ASSUME FunEntry(fun)
      PROVE  ~eeprom.pull /\ (success => data = <<>>) /\ (success /\ fun = 4 => eeprom.ptr = Cell(1))
             /\ (scl = 0 => eeprom.n = 0) /\ (fun = 1 => scl = 1 /\ sda = 1) /\ (fun = 4 => scl = 0)
  <2>1. CASE fun = 1
      BY <1>2, <1>3, <2>1 DEF FunEntry, BusRest
  <2>2. CASE fun = 4
    <3>1. Between(4)
        BY <1>3, <2>2 DEF FunEntry
    <3>2. transfer.op \notin Writes
        BY <2>2 DEF IsStart
    <3>3. CASE success
      <4>1. Device(4) /\ GotBy(4) /\ LastFun # 4
          BY <1>1, <2>2, <3>1, <3>3 DEF Between, Well
      <4>2. eeprom.state = "store" /\ eeprom.ptr = Cell(1) /\ Len(data) = 0
          BY <3>2, <4>1 DEF Device, GotBy, ReadBy
      <4>3. data = <<>>
          BY <1>2, <4>2
      <4> QED
          BY <2>2, <3>1, <4>2, <4>3 DEF Between
    <3>4. CASE ~success
        BY <2>2, <3>1, <3>4 DEF Between, Well
    <3> QED
        BY <3>3, <3>4
  <2> QED
      BY <1>1, <2>1, <2>2
<1>4. CASE line = 1
  <2>1. AtLine(DirOut) /\ NextOp /\ FunEntry(fun)
      BY <1>1, <1>4, StartLines DEF InStart
  <2>2. UNCHANGED <<scl, sda, success, data>> /\ out' = TRUE
        /\ (scl = 0 \/ Wire(TRUE, sda, eeprom) = Sda => UNCHANGED <<eeprom, cells>>)
      BY <2>1, DirStep
  <2>3. UNCHANGED <<eeprom, cells>>
    <3>1. fun = 1 => Wire(TRUE, sda, eeprom) = 1 /\ Sda = 1
        BY <1>3, <2>1 DEF Sda, Wire
    <3> QED
        BY <1>1, <1>3, <2>1, <2>2, <3>1
  <2>4. FunEntry(fun)'
    <3>1. Between(fun)' <=> Between(fun)
        BY <1>1, <2>1, <2>2, <2>3, SteadyBetween DEF NextOp
    <3> QED
        BY <2>1, <2>2, <2>3, <3>1 DEF FunEntry, BusRest, NextOp
  <2>5. I2cTyped'
      BY <1>1, <1>2, <2>2, <2>3 DEF I2cTyped
  <2>6. InStart'
      BY <1>1, <1>4, <2>1, <2>2, <2>4 DEF InStart, NextOp
  <2>7. Quiet
    <3>1. scl = 1 => Wire(TRUE, sda, eeprom) = 1 /\ Sda = 1
        BY <1>1, <1>3, <2>1 DEF Sda, Wire
    <3> QED
        BY <2>2, <2>3, <3>1 DEF Quiet, Sda
  <2> QED
      BY <1>1, <1>4, <2>1, <2>3, <2>5, <2>6, <2>7
<1>5. CASE line = 2
  <2>1. AtLine(SdaIs(1)) /\ NextOp /\ FunEntry(fun) /\ out
      BY <1>1, <1>5, StartLines DEF InStart
  <2>2. UNCHANGED <<scl, out, success, data>> /\ sda' = 1
        /\ (scl = 0 \/ Wire(out, 1, eeprom) = Sda => UNCHANGED <<eeprom, cells>>)
      BY <2>1, SdaStep
  <2>3. scl = 1 => Wire(out, 1, eeprom) = Sda
      BY <1>1, <1>3, <2>1 DEF Sda, Wire
  <2>4. UNCHANGED <<eeprom, cells>>
      BY <1>2, <2>2, <2>3
  <2>5. FunEntry(fun)'
    <3>1. Between(fun)' <=> Between(fun)
        BY <1>1, <2>1, <2>2, <2>4, SteadyBetween DEF NextOp
    <3> QED
        BY <2>1, <2>2, <2>4, <3>1 DEF FunEntry, BusRest, NextOp
  <2>6. I2cTyped'
      BY <1>1, <1>2, <2>2, <2>4 DEF I2cTyped
  <2>7. InStart'
      BY <1>1, <1>5, <2>1, <2>2, <2>5 DEF InStart, NextOp
  <2>8. Quiet
      BY <2>2, <2>3, <2>4 DEF Quiet, Sda
  <2> QED
      BY <1>1, <1>5, <2>1, <2>4, <2>6, <2>7, <2>8
<1>6. CASE line = 3
  <2>1. AtLine(Scl(1)) /\ NextOp /\ FunEntry(fun) /\ out /\ sda = 1
      BY <1>1, <1>6, StartLines DEF InStart
  <2>2. scl' = 1 /\ UNCHANGED <<sda, out, success, data, cells>>
        /\ (scl = 1 => UNCHANGED eeprom) /\ (scl = 0 => Rise(Sda))
      BY <2>1, SclStep
  <2>3. eeprom' \in Eeproms /\ ~eeprom'.pull /\ eeprom'.ptr = eeprom.ptr
    <3>1. CASE scl = 1
        BY <1>2, <1>3, <2>1, <2>2, <3>1
    <3>2. CASE scl = 0
      <4>1. Sda \in {0, 1} /\ Rise(Sda)
          BY <2>2, <3>2, Wires
      <4> QED
          BY <1>2, <1>3, <2>1, <4>1, RiseMoves
    <3> QED
        BY <1>2, <3>1, <3>2
  <2>4. I2cTyped'
      BY <1>1, <1>2, <2>2, <2>3 DEF I2cTyped
  <2>5. InStart'
    <3>1. Cell(1)' = Cell(1)
        BY <1>1, Steady
    <3> QED
        BY <1>1, <1>3, <1>6, <2>1, <2>2, <2>3, <3>1 DEF InStart, NextOp
  <2>6. Quiet
      BY <2>2 DEF Quiet, Sda, Wire
  <2> QED
      BY <1>1, <1>6, <2>1, <2>2, <2>4, <2>5, <2>6
<1>7. CASE line = 4
  <2>1. AtLine(SdaIs(0)) /\ NextOp /\ out /\ sda = 1 /\ scl = 1 /\ ~eeprom.pull
        /\ (success => data = <<>>) /\ (success /\ fun = 4 => eeprom.ptr = Cell(1))
      BY <1>1, <1>7, StartLines DEF InStart
  <2>2. Sda = 1 /\ Wire(out, 0, eeprom) = 0
      BY <2>1 DEF Sda, Wire
  <2>3. UNCHANGED <<scl, out, success, data>> /\ sda' = 0
        /\ (Wire(out, 0, eeprom) # Sda => Turn(Wire(out, 0, eeprom)))
      BY <2>1, SdaStep
  <2>4. eeprom' = I2cReset("device") /\ UNCHANGED cells
      BY <2>2, <2>3 DEF Turn
  <2>5. /\ eeprom' \in Eeproms /\ eeprom'.state = "device" /\ eeprom'.n = 0 /\ eeprom'.byte = 0
        /\ ~eeprom'.pull /\ eeprom'.ptr = eeprom.ptr
      BY <2>4, ResetTo DEF Listening
  <2>6. I2cTyped'
      BY <1>1, <1>2, <2>3, <2>4, <2>5 DEF I2cTyped
  <2>7. InStart'
    <3>1. Cell(1)' = Cell(1)
        BY <1>1, Steady
    <3> QED
        BY <1>1, <1>7, <2>1, <2>3, <2>5, <3>1 DEF InStart, NextOp
  <2>8. Sda' = 0
      BY <2>1, <2>3 DEF Sda, Wire
  <2> QED
      BY <1>1, <1>7, <2>1, <2>4, <2>6, <2>7, <2>8
<1>8. CASE line = 5
  <2>1. AtLine(Scl(0)) /\ NextFun /\ scl = 1 /\ ~eeprom.pull
        /\ (success => data = <<>>) /\ (success /\ fun = 4 => eeprom.ptr = Cell(1))
        /\ eeprom.state = "device" /\ eeprom.n = 0 /\ eeprom.byte = 0
      BY <1>1, <1>8, StartLines DEF InStart
  <2>2. scl' = 0 /\ UNCHANGED <<sda, out, success, data, cells>> /\ Fall
      BY <2>1, SclStep
  <2>3. UNCHANGED eeprom
      BY <1>1, <2>1, <2>2 DEF Fall, Listening
  <2>4. I2cTyped'
      BY <1>1, <1>2, <2>2, <2>3 DEF I2cTyped
  <2>5. fun' = fun + 1 /\ LastFun' = LastFun /\ (\A i : Cell(i)' = Cell(i)) /\ transfer' = transfer
      BY <1>1, <2>1, Steady DEF NextFun
  <2>6. Well(fun)'
    <3>1. CASE success
      <4>1. GotBy(fun)'
          BY <1>1, <2>1, <2>2, <2>5, <3>1 DEF GotBy, ReadBy
      <4>2. Device(fun)'
        <5>1. CASE fun = 1
            BY <2>1, <2>3, <2>5, <5>1 DEF Device
        <5>2. CASE fun = 4
          <6>1. transfer.op \notin Writes /\ fun' = 5 /\ 5 < LastFun
              BY <2>5, <5>2, CallSizes DEF IsStart
          <6> QED
              BY <2>1, <2>3, <2>5, <3>1, <5>2, <6>1 DEF Device
        <5> QED
            BY <1>1, <5>1, <5>2
      <4> QED
          BY <2>2, <3>1, <4>1, <4>2 DEF Well
    <3>2. CASE ~success
        BY <2>1, <2>2, <2>3, <3>2 DEF Well
    <3> QED
        BY <3>1, <3>2
  <2>7. Between(fun)'
      BY <2>1, <2>2, <2>3, <2>6 DEF Between
  <2>8. Quiet
      BY <2>2 DEF Quiet
  <2> QED
      BY <1>1, <1>8, <2>1, <2>2, <2>4, <2>7, <2>8
<1> QED
    BY <1>1, <1>4, <1>5, <1>6, <1>7, <1>8

(* i2c_stop: at its last edge the device stores the page.                  *)
LEMMA StopSteps ==
    ASSUME I2cTyped, IsTransfer(transfer), IsStop, InStop, cells = Base, Port
    PROVE  /\ I2cTyped' /\ UNCHANGED <<transfer, i2cBefore, verify>>
           /\ IF line < 4 THEN NextOp /\ InStop' /\ UNCHANGED cells ELSE fun' = 0 /\ CallOver'
           /\ Quiet \/ Sda' = 1
<1>1. UNCHANGED <<transfer, i2cBefore, verify>> /\ fun = LastFun /\ line \in 1..4
      /\ LastFun \in Nat /\ LastFun >= 5 /\ Bits \in Nat /\ Bits > 1
    BY PortKeeps, CallSizes, I2cAssumption DEF IsStop, InStop
<1>2. /\ scl \in {0, 1} /\ sda \in {0, 1} /\ out \in BOOLEAN /\ success \in BOOLEAN
      /\ data \in Seq(I2cByte) /\ cells \in [I2cByte -> I2cByte]
      /\ i2cBefore \in [I2cByte -> I2cByte] /\ eeprom \in Eeproms
    BY DEF I2cTyped
<1>3. ASSUME Well(fun)
      PROVE  /\ eeprom.state \in {"idle", "device", "store"}
             /\ success /\ transfer.op \in Writes =>
                  eeprom.state = "store" /\ Written(eeprom.new, cells, transfer.len)
             /\ ~success \/ transfer.op \notin Writes => eeprom.state # "store"
             /\ success /\ transfer.op \notin Writes =>
                  Len(data) = transfer.len /\ \A i \in 1..transfer.len : data[i] = cells[Cell(i)]
  <2>1. CASE ~success
      BY <1>3, <2>1 DEF Well
  <2>2. CASE success
    <3>1. Device(fun) /\ GotBy(fun)
        BY <1>3, <2>2 DEF Well
    <3>2. CASE transfer.op \in Writes
      <4>1. fun - 4 = transfer.len /\ fun >= 4
          BY <1>1, <3>2, CallSizes
      <4>2. eeprom.state = "store" /\ Written(eeprom.new, cells, fun - 4)
          BY <3>1, <3>2, <4>1 DEF Device
      <4> QED
          BY <2>2, <3>2, <4>1, <4>2
    <3>3. CASE transfer.op \notin Writes
      <4>1. fun - 6 = transfer.len /\ fun >= 7
          BY <1>1, <3>3, CallSizes
      <4>2. eeprom.state = "idle"
          BY <1>1, <3>1, <3>3, <4>1 DEF Device
      <4>3. ReadBy(fun) = transfer.len
          BY <1>1, <3>3, <4>1, CallSizes DEF ReadBy
      <4> QED
          BY <3>1, <3>3, <4>2, <4>3 DEF GotBy
    <3> QED
        BY <3>2, <3>3
  <2> QED
      BY <1>2, <2>1, <2>2
<1>4. CASE line = 1
  <2>1. AtLine(DirOut) /\ NextOp /\ Between(fun)
      BY <1>1, <1>4, StopLines DEF InStop
  <2>2. scl = 0 /\ UNCHANGED <<scl, sda, success, data, eeprom, cells>> /\ out' = TRUE
      BY <2>1, DirStep DEF Between
  <2>3. I2cTyped' /\ Quiet
      BY <1>1, <1>2, <2>2 DEF I2cTyped, Quiet
  <2>4. Between(fun)'
      BY <1>1, <2>1, <2>2, SteadyBetween DEF NextOp
  <2>5. LastFun' = LastFun
      BY <1>1, Steady
  <2>6. InStop'
      BY <1>1, <1>4, <2>1, <2>2, <2>4, <2>5 DEF InStop, NextOp
  <2> QED
      BY <1>1, <1>4, <2>1, <2>2, <2>3, <2>6
<1>5. CASE line = 2
  <2>1. AtLine(SdaIs(0)) /\ NextOp /\ Between(fun) /\ out
      BY <1>1, <1>5, StopLines DEF InStop
  <2>2. scl = 0 /\ UNCHANGED <<scl, out, success, data, eeprom, cells>> /\ sda' = 0
      BY <2>1, SdaStep DEF Between
  <2>3. I2cTyped' /\ Quiet
      BY <1>1, <1>2, <2>2 DEF I2cTyped, Quiet
  <2>4. Between(fun)'
      BY <1>1, <2>1, <2>2, SteadyBetween DEF NextOp
  <2>5. LastFun' = LastFun
      BY <1>1, Steady
  <2>6. InStop'
      BY <1>1, <1>5, <2>1, <2>2, <2>4, <2>5 DEF InStop, NextOp
  <2> QED
      BY <1>1, <1>5, <2>1, <2>2, <2>3, <2>6
<1>6. CASE line = 3
  <2>1. AtLine(Scl(1)) /\ NextOp /\ Between(fun) /\ out /\ sda = 0
      BY <1>1, <1>6, StopLines DEF InStop
  <2>2. scl = 0 /\ scl' = 1 /\ UNCHANGED <<sda, out, success, data, cells>> /\ Rise(Sda)
      BY <2>1, SclStep DEF Between
  <2>3. eeprom' \in Eeproms /\ eeprom'.state = eeprom.state /\ eeprom'.pull = eeprom.pull
        /\ eeprom'.ptr = eeprom.ptr /\ eeprom'.new = eeprom.new
    <3>1. Sda \in {0, 1}
        BY Wires
    <3> QED
        BY <2>2, <3>1, RiseMoves
  <2>4. Well(fun) /\ ~eeprom.pull
    <3>1. Well(fun)
        BY <2>1 DEF Between
    <3> QED
        BY <1>3, <2>1, <3>1 DEF Between
  <2>5. I2cTyped' /\ Quiet
      BY <1>1, <1>2, <2>2, <2>3 DEF I2cTyped, Quiet
  <2>6. Well(fun)'
    <3>1. /\ \A i : Cell(i)' = Cell(i)
          /\ \A m, c, n : Written(m, c, n)' <=> Written(m, c, n)
          /\ LastFun' = LastFun /\ (GotBy(fun)' <=> GotBy(fun)) /\ fun' = fun
        BY <1>1, <2>1, <2>2, Steady DEF NextOp
    <3>2. Device(fun)' <=> Device(fun)
        BY <1>1, <2>2, <2>3, <3>1 DEF Device
    <3> QED
        BY <2>2, <2>3, <2>4, <3>1, <3>2 DEF Well
  <2>7. LastFun' = LastFun
      BY <1>1, Steady
  <2>8. InStop'
      BY <1>1, <1>6, <2>1, <2>2, <2>3, <2>4, <2>6, <2>7 DEF InStop, NextOp
  <2> QED
      BY <1>1, <1>6, <2>1, <2>2, <2>5, <2>8
<1>7. CASE line = 4
  <2>1. AtLine(SdaIs(1)) /\ NextFun /\ out /\ sda = 0 /\ scl = 1 /\ ~eeprom.pull /\ Well(fun)
      BY <1>1, <1>7, StopLines DEF InStop
  <2>2. Sda = 0 /\ Wire(out, 1, eeprom) = 1
      BY <2>1 DEF Sda, Wire
  <2>3. UNCHANGED <<scl, out, success, data>> /\ sda' = 1 /\ Turn(1)
    <3>0. Wire(out, 1, eeprom) # Sda
        BY <2>2
    <3>1. scl = 1 /\ Wire(out, 1, eeprom) # Sda
        BY <2>1, <3>0
    <3>2. AtLine(SdaIs(1))
        BY <2>1
    <3>3. UNCHANGED <<scl, out, success, data>> /\ sda' = 1 /\ Turn(Wire(out, 1, eeprom))
        BY <3>1, <3>2, SdaStep
    <3> QED
        BY <2>2, <3>3
  <2>4. cells' = (IF eeprom.state = "store" THEN eeprom.new ELSE cells)
        /\ eeprom' = [I2cReset("idle") EXCEPT !.new = cells']
      BY <2>3 DEF Turn
  <2>5. cells' \in [I2cByte -> I2cByte]
      BY <1>2, <2>4 DEF Eeproms
  <2>6. eeprom' \in Eeproms /\ eeprom'.state = "idle" /\ ~eeprom'.pull
    <3>1. /\ I2cReset("idle") \in Eeproms /\ I2cReset("idle").state = "idle"
          /\ ~I2cReset("idle").pull
        BY ResetTo
    <3> QED
        BY <2>4, <2>5, <3>1 DEF Eeproms
  <2>7. I2cTyped'
      BY <1>1, <1>2, <2>3, <2>5, <2>6 DEF I2cTyped
  <2>8. fun' = 0 /\ line' = 0 /\ Base' = Base
        /\ (\A i : Cell(i)' = Cell(i)) /\ (\A m, c, n : Written(m, c, n)' <=> Written(m, c, n))
      BY <1>1, <2>1, Steady DEF NextFun
  <2>9. IF success /\ transfer.op \in Writes THEN Written(cells', Base, transfer.len) ELSE cells' = Base
      BY <1>3, <2>1, <2>4
  <2>10. (IF success /\ transfer.op \in Writes
          THEN Written(cells, Base, transfer.len) ELSE cells = Base)'
      BY <1>1, <2>3, <2>8, <2>9
  <2>11. success /\ transfer.op \notin Writes =>
           Len(data) = transfer.len /\ \A i \in 1..transfer.len : data'[i] = cells'[Cell(i)']
      BY <1>3, <2>1, <2>3, <2>8, <2>9
  <2>12. IsTransfer(transfer)'
      BY <1>1 DEF IsTransfer
  <2>13. BusRest'
      BY <2>1, <2>3, <2>6 DEF BusRest
  <2>14. CallOver'
      BY <1>1, <2>3, <2>8, <2>10, <2>11, <2>12, <2>13 DEF CallOver
  <2>15. Sda' = 1
      BY <2>1, <2>3, <2>6 DEF Sda, Wire
  <2> QED
      BY <1>1, <1>7, <2>7, <2>8, <2>14, <2>15
<1> QED
    BY <1>1, <1>4, <1>5, <1>6, <1>7

(* The place of the device in the call, while a byte is shifted.           *)
LEMMA SteadyDevice ==
    ASSUME UNCHANGED <<transfer, cells>>, NEW k, eeprom'.state = eeprom.state,
           eeprom'.ptr = eeprom.ptr, eeprom'.new = eeprom.new
    PROVE  Device(k)' <=> Device(k)
<1>1. /\ \A i : Cell(i)' = Cell(i)
      /\ \A m, c, n : Written(m, c, n)' <=> Written(m, c, n)
      /\ LastFun' = LastFun
    BY Steady
<1> QED
    BY <1>1 DEF Device

LEMMA WriteState ==
    ASSUME IsTransfer(transfer), IsWrite, Device(fun)
    PROVE  /\ eeprom.state \in Listening /\ fun \in Nat /\ fun < LastFun
           /\ fun = 2 => eeprom.state = "device"
           /\ fun = 3 => eeprom.state = "pointer"
           /\ fun >= 4 /\ transfer.op \in Writes =>
                /\ eeprom.state = "store" /\ eeprom.ptr = Cell(fun - 3)
                /\ Written(eeprom.new, cells, fun - 4)
           /\ fun >= 4 /\ transfer.op \notin Writes =>
                fun = 5 /\ eeprom.state = "device" /\ eeprom.ptr = Cell(1)
<1>1. LastFun \in Nat /\ LastFun >= 5 /\ fun \in 2..(LastFun - 1)
    BY CallSizes DEF IsWrite
<1>2. CASE fun = 2
    BY <1>1, <1>2 DEF Device, Listening
<1>3. CASE fun = 3
    BY <1>1, <1>3 DEF Device, Listening
<1>4. CASE fun >= 4 /\ transfer.op \in Writes
    BY <1>1, <1>4 DEF Device, Listening
<1>5. CASE fun >= 4 /\ transfer.op \notin Writes
  <2>1. fun = 5
      BY <1>5 DEF IsWrite
  <2> QED
      BY <1>1, <1>5, <2>1 DEF Device, Listening
<1> QED
    BY <1>1, <1>2, <1>3, <1>4, <1>5

(* The first address byte the device knows is its own, without the read    *)
(* bit.                                                                    *)
LEMMA OwnAddress ==
    ASSUME PowersAssumed, IsTransfer(transfer), transfer.dev - (transfer.dev % 2) = DeviceAddr
    PROVE  transfer.dev % 2 = 0
<1>1. PICK N \in Nat \ {0} : I2cByte = 0..(N - 1)
  <2>1. Bits \in 0..Bits
      BY I2cAssumption
  <2>2. PICK N \in Nat \ {0} : N = 2^Bits
      BY <2>1 DEF PowersAssumed
  <2> QED
      BY <2>2 DEF I2cByte
<1>2. transfer.dev \in Nat /\ DeviceAddr \in Nat /\ DeviceAddr % 2 = 0
  <2>1. DeviceAddr \in I2cByte /\ DeviceAddr % 2 = 0 /\ transfer.dev \in I2cByte
      BY I2cAssumption DEF IsTransfer
  <2> QED
      BY <1>1, <2>1
<1>3. CASE transfer.dev = DeviceAddr
    BY <1>2, <1>3
<1>4. CASE transfer.dev \in Foreign
  <2>1. transfer.dev # DeviceAddr /\ transfer.dev # DeviceAddr + 1
      BY <1>4, I2cAssumption
  <2>2. transfer.dev % 2 \in {0, 1}
      BY <1>2
  <2> QED
      BY <1>2, <2>1, <2>2
<1> QED
    BY <1>3, <1>4 DEF IsTransfer

(* One more byte of a page.                                                *)
LEMMA WrittenMore ==
    ASSUME PowersAssumed, transfer.at \in I2cByte, NEW n \in Nat,
           NEW mem \in [I2cByte -> I2cByte], NEW before, Written(mem, before, n)
    PROVE  Written([mem EXCEPT ![Cell(n + 1)] = transfer.bytes[n + 1]], before, n + 1)
<1>1. \A i \in 1..(n + 1) : Cell(i) \in I2cByte
    BY CellRing
<1>2. PICK m : m = [mem EXCEPT ![Cell(n + 1)] = transfer.bytes[n + 1]]
    OBVIOUS
<1>3. /\ m[Cell(n + 1)] = transfer.bytes[n + 1]
      /\ \A a \in I2cByte : a # Cell(n + 1) => m[a] = mem[a]
    BY <1>1, <1>2
<1>4. ASSUME NEW i \in 1..(n + 1), \A j \in (i + 1)..(n + 1) : Cell(j) # Cell(i)
      PROVE  m[Cell(i)] = transfer.bytes[i]
  <2>1. CASE i = n + 1
      BY <1>3, <2>1
  <2>2. CASE i \in 1..n
    <3>1. Cell(n + 1) # Cell(i) /\ \A j \in (i + 1)..n : Cell(j) # Cell(i)
        BY <1>4, <2>2
    <3>2. mem[Cell(i)] = transfer.bytes[i]
        BY <2>2, <3>1 DEF Written
    <3> QED
        BY <1>1, <1>3, <3>1, <3>2
  <2> QED
      BY <2>1, <2>2
<1>5. ASSUME NEW a \in I2cByte, \A i \in 1..(n + 1) : Cell(i) # a
      PROVE  m[a] = before[a]
  <2>1. a # Cell(n + 1) /\ \A i \in 1..n : Cell(i) # a
      BY <1>5
  <2>2. mem[a] = before[a]
      BY <2>1 DEF Written
  <2> QED
      BY <1>3, <2>1, <2>2
<1> QED
    BY <1>2, <1>4, <1>5 DEF Written

(* The byte is taken: what the device expects next.                        *)
LEMMA ByteTaken ==
    ASSUME PowersAssumed, I2cTyped, IsTransfer(transfer), IsWrite, Device(fun), Knows(Running.byte),
           eeprom' = AfterByte(Running.byte), UNCHANGED <<transfer, cells>>, fun' = fun + 1
    PROVE  /\ eeprom' \in Eeproms /\ eeprom'.n = 0 /\ eeprom'.byte = 0 /\ Device(fun)'
           /\ eeprom'.pull <=> eeprom'.state = "send" /\ Puts(eeprom'.ptr, 0)
<1>1. PICK b \in I2cByte : b = Running.byte
    BY DEF IsWrite
<1>2. /\ eeprom.state \in Listening /\ fun \in Nat /\ fun < LastFun /\ eeprom' = AfterByte(b)
      /\ eeprom \in Eeproms /\ LastFun \in Nat /\ fun >= 2 /\ cells \in [I2cByte -> I2cByte]
    BY <1>1, WriteState, CallSizes DEF I2cTyped, IsWrite
<1>3. /\ LastFun' = LastFun /\ \A i : Cell(i)' = Cell(i)
      /\ \A m, c, n : Written(m, c, n)' <=> Written(m, c, n)
    BY Steady
<1>4. CASE fun = 2
  <2>1. eeprom.state = "device" /\ b = transfer.dev
      BY <1>1, <1>4, WriteState DEF IsWrite
  <2>2. b % 2 = 0
      BY <1>1, <2>1, OwnAddress DEF Knows
  <2>3. eeprom' = I2cReset("pointer")
      BY <1>2, <2>1, <2>2 DEF AfterByte
  <2>4. /\ eeprom' \in Eeproms /\ eeprom'.state = "pointer" /\ eeprom'.n = 0 /\ eeprom'.byte = 0
        /\ ~eeprom'.pull
      BY <2>3, ResetTo DEF Listening
  <2>5. Device(fun)'
      BY <1>2, <1>4, <2>4 DEF Device
  <2> QED
      BY <2>4, <2>5
<1>5. CASE fun = 3
  <2>1. eeprom.state = "pointer" /\ b = transfer.at
      BY <1>1, <1>5, WriteState DEF IsWrite
  <2>2. eeprom' = [I2cReset("store") EXCEPT !.ptr = b, !.new = cells]
      BY <1>2, <2>1 DEF AfterByte
  <2>3. /\ eeprom' \in Eeproms /\ eeprom'.state = "store" /\ eeprom'.n = 0 /\ eeprom'.byte = 0
        /\ ~eeprom'.pull /\ eeprom'.ptr = b /\ eeprom'.new = cells
    <3>1. /\ I2cReset("store") \in Eeproms /\ I2cReset("store").state = "store"
          /\ I2cReset("store").n = 0 /\ I2cReset("store").byte = 0 /\ ~I2cReset("store").pull
        BY ResetTo DEF Listening
    <3> QED
        BY <1>2, <2>2, <3>1 DEF Eeproms
  <2>4. b = Cell(1)
      BY <2>1, CellRing
  <2>5. Written(cells, cells, 0)
      BY DEF Written
  <2>6. Device(fun)'
    <3>1. fun' = 4 /\ fun' - 3 = 1 /\ fun' - 4 = 0 /\ (transfer.op \notin Writes => LastFun' >= 7)
        BY <1>3, <1>5, CallSizes
    <3> QED
        BY <1>3, <2>3, <2>4, <2>5, <3>1 DEF Device
  <2> QED
      BY <2>3, <2>6
<1>6. CASE fun >= 4 /\ transfer.op \in Writes
  <2>1. PICK n \in Nat : n = fun - 4 /\ n + 1 = fun - 3 /\ n + 2 = fun - 2
      BY <1>2, <1>6
  <2>2. /\ eeprom.state = "store" /\ eeprom.ptr = Cell(n + 1) /\ Written(eeprom.new, cells, n)
        /\ b = transfer.bytes[n + 1]
      BY <1>1, <1>6, <2>1, WriteState DEF IsWrite
  <2>3. eeprom' = [I2cReset("store") EXCEPT !.ptr = Bump(@), !.new[eeprom.ptr] = b]
      BY <1>2, <2>2 DEF AfterByte
  <2>4. /\ I2cReset("store") \in Eeproms /\ I2cReset("store").state = "store"
        /\ I2cReset("store").n = 0 /\ I2cReset("store").byte = 0 /\ ~I2cReset("store").pull
        /\ I2cReset("store").ptr = eeprom.ptr /\ I2cReset("store").new = eeprom.new
      BY ResetTo DEF Listening
  <2>5. transfer.at \in I2cByte /\ n + 1 \in Nat \ {0} /\ (n + 1) + 1 = n + 2
      BY DEF IsTransfer
  <2>6. Bump(eeprom.ptr) = Cell(n + 2) /\ Cell(n + 2) \in I2cByte
      BY <2>2, <2>5, CellRing
  <2>7. PICK m : m = [eeprom.new EXCEPT ![eeprom.ptr] = b]
      OBVIOUS
  <2>8. m \in [I2cByte -> I2cByte] /\ eeprom.new \in [I2cByte -> I2cByte]
      BY <1>2, <2>7 DEF Eeproms
  <2>9. PICK p \in I2cByte : p = Cell(n + 2) /\ p = Bump(eeprom.ptr)
      BY <2>6
  <2>10. eeprom' = [I2cReset("store") EXCEPT !.ptr = p, !.new = m]
      BY <2>3, <2>4, <2>7, <2>9 DEF Eeproms
  <2>11. /\ eeprom' \in Eeproms /\ eeprom'.state = "store" /\ eeprom'.n = 0 /\ eeprom'.byte = 0
         /\ ~eeprom'.pull /\ eeprom'.ptr = p /\ eeprom'.new = m
      BY <2>4, <2>8, <2>10 DEF Eeproms
  <2>12. Written(m, cells, n + 1)
    <3>1. m = [eeprom.new EXCEPT ![Cell(n + 1)] = transfer.bytes[n + 1]]
        BY <2>2, <2>7
    <3> QED
        BY <2>2, <2>5, <2>8, <3>1, WrittenMore
  <2>13. Device(fun)'
    <3>1. fun' - 3 = n + 2 /\ fun' - 4 = n + 1 /\ fun' >= 4 /\ fun' \notin {2, 3}
        BY <2>1, <1>2
    <3>2. Cell(fun - 3)' = p
        BY <1>3, <2>9, <3>1
    <3>3. Written(eeprom.new, cells, fun - 4)'
        BY <1>3, <2>11, <2>12, <3>1
    <3> QED
        BY <1>6, <2>11, <3>1, <3>2, <3>3 DEF Device
  <2> QED
      BY <2>11, <2>13
<1>7. CASE fun >= 4 /\ transfer.op \notin Writes
  <2>1. fun = 5 /\ eeprom.state = "device" /\ eeprom.ptr = Cell(1) /\ b % 2 = 1
      BY <1>1, <1>7, WriteState DEF IsWrite
  <2>2. eeprom' = [I2cReset("send") EXCEPT !.pull = Puts(eeprom.ptr, 0)]
      BY <1>2, <2>1 DEF AfterByte
  <2>3. /\ I2cReset("send") \in Eeproms /\ I2cReset("send").state = "send"
        /\ I2cReset("send").n = 0 /\ I2cReset("send").byte = 0
        /\ I2cReset("send").ptr = eeprom.ptr
      BY ResetTo
  <2>4. PICK x \in BOOLEAN : x <=> Puts(eeprom.ptr, 0)
      OBVIOUS
  <2>5. Puts(eeprom.ptr, 0) \in BOOLEAN
      BY DEF Puts
  <2>6. /\ eeprom' \in Eeproms /\ eeprom'.state = "send" /\ eeprom'.n = 0 /\ eeprom'.byte = 0
        /\ eeprom'.pull = Puts(eeprom.ptr, 0) /\ eeprom'.ptr = eeprom.ptr
      BY <2>2, <2>3, <2>5 DEF Eeproms
  <2>7. Device(fun)'
    <3>1. fun' = 6 /\ fun' - 5 = 1 /\ LastFun' >= 7
        BY <1>3, <1>7, <2>1, CallSizes
    <3> QED
        BY <1>3, <1>7, <2>1, <2>6, <3>1 DEF Device
  <2> QED
      BY <2>6, <2>7
<1> QED
    BY <1>2, <1>4, <1>5, <1>6, <1>7

(* i2c_write: its bits are shifted in one by one, then the device answers. *)
LEMMA WriteSteps ==
    ASSUME PowersAssumed, I2cTyped, IsTransfer(transfer), IsWrite, InWrite, Port
    PROVE  /\ I2cTyped' /\ UNCHANGED <<cells, transfer, i2cBefore, verify>>
           /\ IF line < 9 THEN UNCHANGED fun /\ line' # 0 /\ InWrite' ELSE NextFun /\ Between(fun)'
           /\ Quiet
<1>1. /\ UNCHANGED <<transfer, i2cBefore, verify>> /\ line \in 1..9 /\ turn \in 1..Bits
      /\ fun \in Nat /\ fun < LastFun /\ Bits \in Nat /\ Bits > 1 /\ Running.byte \in I2cByte
    BY PortKeeps, CallSizes, I2cAssumption DEF IsWrite, InWrite
<1>2. /\ scl \in {0, 1} /\ sda \in {0, 1} /\ out \in BOOLEAN /\ success \in BOOLEAN
      /\ data \in Seq(I2cByte) /\ cells \in [I2cByte -> I2cByte]
      /\ i2cBefore \in [I2cByte -> I2cByte] /\ eeprom \in Eeproms
    BY DEF I2cTyped
<1>3. PICK b \in I2cByte : b = Running.byte
    BY <1>1
<1>4. /\ b \in Nat /\ Prefix(b, 0) = 0 /\ Prefix(b, Bits) = b
      /\ \A i \in 1..Bits : /\ BitOf(b, i) \in {0, 1}
                            /\ Prefix(b, i) = 2 * Prefix(b, i - 1) + BitOf(b, i)
    BY PrefixStep
<1>5. ASSUME UNCHANGED <<fun, cells, data>> PROVE GotBy(fun)' <=> GotBy(fun)
    BY <1>1, <1>5, Steady
<1>6. UNCHANGED fun => Running' = Running
    BY <1>1, Steady
<1>7. ASSUME UNCHANGED <<fun, cells>>, eeprom'.state = eeprom.state,
             eeprom'.ptr = eeprom.ptr, eeprom'.new = eeprom.new, Device(fun)
      PROVE  Device(fun)'
    BY <1>1, <1>7, SteadyDevice
<1>8. CASE line = 1
  <2>1. AtLine(DirOut) /\ NextOp /\ Between(fun) /\ success /\ turn = 1 /\ GotBy(fun)
      BY <1>1, <1>8, WriteLines DEF InWrite
  <2>2. scl = 0 /\ UNCHANGED <<scl, sda, success, data, eeprom, cells>> /\ out' = TRUE
      BY <2>1, DirStep DEF Between
  <2>3. I2cTyped' /\ Quiet
      BY <1>1, <1>2, <2>2 DEF I2cTyped, Quiet
  <2>4. Device(fun) /\ ~eeprom.pull /\ eeprom.n = 0 /\ eeprom.byte = 0
    <3>1. Device(fun)
        BY <2>1 DEF Between, Well
    <3>2. eeprom.state # "send"
        BY <3>1, WriteState DEF Listening
    <3> QED
        BY <2>1, <3>1, <3>2 DEF Between
  <2>5. Shifted(turn - 1)'
    <3>1. turn' - 1 = 0 /\ Running'.byte = b /\ Device(fun)'
        BY <1>3, <1>6, <1>7, <2>1, <2>2, <2>4 DEF NextOp
    <3> QED
        BY <1>4, <2>2, <2>4, <3>1 DEF Shifted
  <2>6. InWrite'
      BY <1>1, <1>5, <1>8, <2>1, <2>2, <2>5 DEF InWrite, NextOp
  <2> QED
      BY <1>1, <1>8, <2>1, <2>2, <2>3, <2>6 DEF NextOp
<1>9. CASE line = 2
  <2>1. AtLine(Scl(0)) /\ NextOp /\ success /\ GotBy(fun) /\ out /\ scl = 0 /\ Shifted(turn - 1)
      BY <1>1, <1>9, WriteLines DEF InWrite
  <2>2. UNCHANGED <<scl, sda, out, success, data, eeprom, cells>>
      BY <2>1, SclStep
  <2>3. I2cTyped' /\ Quiet
      BY <1>1, <1>2, <2>1, <2>2 DEF I2cTyped, Quiet
  <2>4. Shifted(turn - 1)'
      BY <1>6, <1>7, <2>1, <2>2 DEF Shifted, NextOp
  <2>5. InWrite'
      BY <1>1, <1>5, <1>9, <2>1, <2>2, <2>4 DEF InWrite, NextOp
  <2> QED
      BY <1>1, <1>9, <2>1, <2>2, <2>3, <2>5 DEF NextOp
<1>10. CASE line = 3
  <2>1. /\ AtLine(SdaIs(BitOf(b, turn))) /\ NextOp /\ success /\ GotBy(fun) /\ out /\ scl = 0
        /\ Shifted(turn - 1) /\ BitOf(b, turn) \in {0, 1}
      BY <1>1, <1>3, <1>4, <1>10, WriteLines DEF InWrite
  <2>2. UNCHANGED <<scl, out, success, data, eeprom, cells>> /\ sda' = BitOf(b, turn)
      BY <2>1, SdaStep
  <2>3. I2cTyped' /\ Quiet
      BY <1>1, <1>2, <2>1, <2>2 DEF I2cTyped, Quiet
  <2>4. Shifted(turn - 1)'
      BY <1>6, <1>7, <2>1, <2>2 DEF Shifted, NextOp
  <2>5. sda' = BitOf(Running.byte, turn)'
    <3>1. Running'.byte = b /\ turn' = turn
        BY <1>3, <1>6, <2>1 DEF NextOp
    <3> QED
        BY <2>2, <3>1 DEF BitOf
  <2>6. InWrite'
      BY <1>1, <1>5, <1>10, <2>1, <2>2, <2>4, <2>5 DEF InWrite, NextOp
  <2> QED
      BY <1>1, <1>10, <2>1, <2>2, <2>3, <2>6 DEF NextOp
<1>11. CASE line = 4
  <2>1. /\ AtLine(Scl(1)) /\ NextOp /\ success /\ GotBy(fun) /\ out /\ scl = 0
        /\ Shifted(turn - 1) /\ sda = BitOf(b, turn)
      BY <1>1, <1>3, <1>11, WriteLines DEF InWrite
  <2>2. scl' = 1 /\ UNCHANGED <<sda, out, success, data, cells>> /\ Rise(Sda)
      BY <2>1, SclStep
  <2>3. /\ eeprom.n = turn - 1 /\ eeprom.byte = Prefix(b, turn - 1) /\ ~eeprom.pull /\ Device(fun)
      BY <1>3, <2>1 DEF Shifted
  <2>4. Sda = BitOf(b, turn) /\ Sda \in {0, 1}
      BY <1>2, <2>1, <2>3, Wires
  <2>5. /\ eeprom' \in Eeproms /\ eeprom'.state = eeprom.state /\ ~eeprom'.pull
        /\ eeprom'.ptr = eeprom.ptr /\ eeprom'.new = eeprom.new
        /\ eeprom'.n = turn /\ eeprom'.byte = Prefix(b, turn)
    <3>1. eeprom.state # "idle"
        BY <2>3, WriteState DEF Listening
    <3>2. /\ eeprom' \in Eeproms /\ eeprom'.state = eeprom.state /\ eeprom'.pull = eeprom.pull
          /\ eeprom'.ptr = eeprom.ptr /\ eeprom'.new = eeprom.new
          /\ eeprom.n <= Bits =>
               /\ eeprom'.n = eeprom.n + 1
               /\ eeprom'.byte = IF eeprom.n < Bits THEN 2 * eeprom.byte + Sda ELSE eeprom.byte
        BY <2>2, <2>4, <3>1, RiseMoves
    <3>3. eeprom'.n = turn /\ eeprom'.byte = 2 * Prefix(b, turn - 1) + BitOf(b, turn)
        BY <1>1, <2>3, <2>4, <3>2
    <3> QED
        BY <1>1, <1>4, <2>3, <3>2, <3>3
  <2>6. I2cTyped' /\ Quiet
      BY <1>1, <1>2, <2>1, <2>2, <2>5 DEF I2cTyped, Quiet
  <2>7. Shifted(turn)' /\ sda' = BitOf(Running.byte, turn)'
    <3>1. Running'.byte = b /\ turn' = turn /\ fun' = fun
        BY <1>3, <1>6, <2>1 DEF NextOp
    <3>2. Device(fun)'
        BY <1>7, <2>2, <2>3, <2>5, <3>1
    <3> QED
        BY <2>1, <2>2, <2>5, <3>1, <3>2 DEF Shifted
  <2>8. InWrite'
      BY <1>1, <1>5, <1>11, <2>1, <2>2, <2>7 DEF InWrite, NextOp
  <2> QED
      BY <1>1, <1>11, <2>1, <2>2, <2>6, <2>8 DEF NextOp
<1>12. CASE line = 5
  <2>1. /\ AtLine(Scl(0)) /\ LoopLine(2) /\ success /\ GotBy(fun) /\ out /\ scl = 1 /\ Shifted(turn)
      BY <1>1, <1>12, WriteLines DEF InWrite
  <2>2. scl' = 0 /\ UNCHANGED <<sda, out, success, data, cells>> /\ Fall
      BY <2>1, SclStep
  <2>3. eeprom.n = turn /\ eeprom.byte = Prefix(b, turn) /\ ~eeprom.pull /\ Device(fun)
      BY <1>3, <2>1 DEF Shifted
  <2>4. eeprom.state \in Listening
      BY <2>3, WriteState
  <2>5. UNCHANGED fun
      BY <2>1 DEF LoopLine, NextOp
  <2>6. CASE turn < Bits
    <3>1. UNCHANGED eeprom
        BY <1>1, <2>2, <2>3, <2>4, <2>6 DEF Fall, Listening
    <3>2. I2cTyped' /\ Quiet
        BY <1>1, <1>2, <2>2, <3>1 DEF I2cTyped, Quiet
    <3>3. line' = 2 /\ turn' = turn + 1 /\ turn' - 1 = turn
        BY <1>1, <2>1, <2>6 DEF LoopLine
    <3>4. Shifted(turn - 1)'
        BY <1>3, <1>6, <1>7, <2>2, <2>3, <2>5, <3>1, <3>3 DEF Shifted
    <3>5. InWrite'
        BY <1>1, <1>5, <2>1, <2>2, <2>5, <2>6, <3>3, <3>4 DEF InWrite
    <3> QED
        BY <1>1, <1>12, <2>2, <2>5, <3>2, <3>3, <3>5
  <2>7. CASE turn = Bits
    <3>1. eeprom.n = Bits /\ eeprom.byte = b
        BY <1>4, <2>3, <2>7
    <3>2. \/ Knows(eeprom.byte) /\ eeprom' = [eeprom EXCEPT !.pull = TRUE]
          \/ eeprom' = I2cReset("idle")
        BY <1>1, <2>2, <2>4, <3>1 DEF Fall, Listening
    <3>3. line' = 6 /\ turn' = Bits /\ Running'.byte = b
        BY <1>1, <1>3, <1>6, <1>12, <2>1, <2>5, <2>7 DEF LoopLine, NextOp
    <3>4. eeprom' \in Eeproms /\ Answered(Bits)'
      <4>1. CASE Knows(eeprom.byte) /\ eeprom' = [eeprom EXCEPT !.pull = TRUE]
        <5>1. /\ eeprom' \in Eeproms /\ eeprom'.state = eeprom.state /\ eeprom'.n = Bits
              /\ eeprom'.byte = b /\ eeprom'.pull /\ eeprom'.ptr = eeprom.ptr
              /\ eeprom'.new = eeprom.new
            BY <1>2, <3>1, <4>1 DEF Eeproms
        <5>2. Device(fun)'
            BY <1>7, <2>2, <2>3, <2>5, <5>1
        <5>3. Knows(eeprom.byte)'
            BY <3>1, <4>1, <5>1 DEF Knows
        <5> QED
            BY <3>3, <5>1, <5>2, <5>3 DEF Answered
      <4>2. CASE eeprom' = I2cReset("idle")
        <5>1. /\ eeprom' \in Eeproms /\ eeprom'.state = "idle" /\ eeprom'.n = 0 /\ eeprom'.byte = 0
              /\ ~eeprom'.pull
            BY <4>2, ResetTo
        <5> QED
            BY <5>1 DEF Answered
      <4> QED
          BY <3>2, <4>1, <4>2
    <3>5. I2cTyped' /\ Quiet
        BY <1>1, <1>2, <2>2, <3>4 DEF I2cTyped, Quiet
    <3>6. InWrite'
        BY <1>1, <1>5, <2>1, <2>2, <2>5, <3>3, <3>4 DEF InWrite
    <3> QED
        BY <1>1, <1>12, <2>2, <2>5, <3>3, <3>5, <3>6
  <2> QED
      BY <1>1, <2>6, <2>7
<1>13. CASE line = 6
  <2>1. AtLine(DirIn) /\ NextOp /\ success /\ GotBy(fun) /\ scl = 0 /\ Answered(Bits) /\ turn = Bits
      BY <1>1, <1>13, WriteLines DEF InWrite
  <2>2. UNCHANGED <<scl, sda, success, data, eeprom, cells>> /\ out' = FALSE /\ out' \in BOOLEAN
      BY <2>1, DirStep
  <2>3. I2cTyped' /\ Quiet
      BY <1>1, <1>2, <2>1, <2>2 DEF I2cTyped, Quiet
  <2>4. Answered(Bits)'
      BY <1>6, <1>7, <2>1, <2>2 DEF Answered, NextOp, Knows
  <2>5. InWrite'
      BY <1>1, <1>5, <1>13, <2>1, <2>2, <2>4 DEF InWrite, NextOp
  <2> QED
      BY <1>1, <1>13, <2>1, <2>2, <2>3, <2>5 DEF NextOp
<1>14. CASE line = 7
  <2>1. /\ AtLine(Scl(1)) /\ NextOp /\ success /\ GotBy(fun) /\ scl = 0 /\ Answered(Bits)
        /\ turn = Bits /\ ~out
      BY <1>1, <1>14, WriteLines DEF InWrite
  <2>2. scl' = 1 /\ UNCHANGED <<sda, out, success, data, cells>> /\ Rise(Sda)
      BY <2>1, SclStep
  <2>3. Sda \in {0, 1}
      BY Wires
  <2>4. eeprom' \in Eeproms /\ Answered(Bits + 1)'
    <3>1. /\ eeprom' \in Eeproms /\ eeprom'.state = eeprom.state /\ eeprom'.pull = eeprom.pull
          /\ eeprom'.ptr = eeprom.ptr /\ eeprom'.new = eeprom.new
          /\ eeprom.state # "idle" /\ eeprom.n <= Bits =>
               /\ eeprom'.n = eeprom.n + 1
               /\ eeprom'.byte = IF eeprom.n < Bits THEN 2 * eeprom.byte + Sda ELSE eeprom.byte
          /\ eeprom.state = "idle" => UNCHANGED eeprom
        BY <2>2, <2>3, RiseMoves
    <3>2. CASE /\ eeprom.pull /\ eeprom.n = Bits /\ eeprom.byte = Running.byte
               /\ Device(fun) /\ Knows(eeprom.byte)
      <4>1. eeprom.state # "idle"
          BY <3>2, WriteState DEF Listening
      <4>2. eeprom'.n = Bits + 1 /\ eeprom'.byte = eeprom.byte /\ eeprom'.pull
          BY <1>1, <3>1, <3>2, <4>1
      <4>3. Device(fun)' /\ Running' = Running
          BY <1>6, <1>7, <2>1, <2>2, <3>1, <3>2 DEF NextOp
      <4>4. Knows(eeprom.byte)'
          BY <3>1, <3>2, <4>2 DEF Knows
      <4> QED
          BY <3>1, <3>2, <4>2, <4>3, <4>4 DEF Answered
    <3>3. CASE ~eeprom.pull /\ eeprom.state = "idle" /\ eeprom.n = 0 /\ eeprom.byte = 0
        BY <3>1, <3>3 DEF Answered
    <3> QED
        BY <2>1, <3>2, <3>3 DEF Answered
  <2>5. I2cTyped' /\ Quiet
      BY <1>1, <1>2, <2>1, <2>2, <2>4 DEF I2cTyped, Quiet
  <2>6. InWrite'
      BY <1>1, <1>5, <1>14, <2>1, <2>2, <2>4 DEF InWrite, NextOp
  <2> QED
      BY <1>1, <1>14, <2>1, <2>2, <2>5, <2>6 DEF NextOp
<1>15. CASE line = 8
  <2>1. /\ AtLine(Ack) /\ NextOp /\ GotBy(fun) /\ scl = 1 /\ Answered(Bits + 1)
        /\ turn = Bits /\ ~out
      BY <1>1, <1>15, WriteLines DEF InWrite
  <2>2. UNCHANGED <<scl, sda, out, data, eeprom, cells>> /\ success' = (Sda = 0)
      BY <2>1, AckStep
  <2>3. Sda = 0 <=> eeprom.pull
      BY <2>1, Wires
  <2>4. I2cTyped'
      BY <1>1, <1>2, <2>2 DEF I2cTyped
  <2>5. Quiet
      BY <2>2 DEF Quiet, Sda, Wire
  <2>6. Answered(Bits + 1)'
      BY <1>6, <1>7, <2>1, <2>2 DEF Answered, NextOp, Knows
  <2>7. success' <=> eeprom'.pull
      BY <2>2, <2>3
  <2>8. InWrite'
      BY <1>1, <1>5, <1>15, <2>1, <2>2, <2>6, <2>7 DEF InWrite, NextOp
  <2> QED
      BY <1>1, <1>15, <2>1, <2>2, <2>4, <2>5, <2>8 DEF NextOp
<1>16. CASE line = 9
  <2>1. /\ AtLine(Scl(0)) /\ NextFun /\ GotBy(fun) /\ scl = 1 /\ Answered(Bits + 1)
        /\ (success <=> eeprom.pull)
      BY <1>1, <1>16, WriteLines DEF InWrite
  <2>2. scl' = 0 /\ UNCHANGED <<sda, out, success, data, cells>> /\ Fall
      BY <2>1, SclStep
  <2>3. fun' = fun + 1
      BY <1>1, <2>1 DEF NextFun
  <2>4. eeprom' \in Eeproms /\ Between(fun)'
    <3>1. CASE /\ eeprom.pull /\ eeprom.n = Bits + 1 /\ eeprom.byte = Running.byte
               /\ Device(fun) /\ Knows(eeprom.byte)
      <4>1. eeprom.state \in Listening
          BY <3>1, WriteState
      <4>2. eeprom' = AfterByte(Running.byte) /\ Knows(Running.byte)
          BY <1>1, <2>2, <3>1, <4>1 DEF Fall, Listening
      <4>3. /\ eeprom' \in Eeproms /\ eeprom'.n = 0 /\ eeprom'.byte = 0 /\ Device(fun)'
            /\ eeprom'.pull <=> eeprom'.state = "send" /\ Puts(eeprom'.ptr, 0)
          BY <1>1, <2>2, <2>3, <3>1, <4>2, ByteTaken
      <4>4. Puts(eeprom.ptr, 0)' <=> Puts(eeprom'.ptr, 0)
          BY <2>2 DEF Puts
      <4>5. GotBy(fun)'
        <5>1. ReadBy(fun) = 0 /\ ReadBy(fun)' = 0
            BY <1>1, <2>3 DEF ReadBy, IsWrite
        <5> QED
            BY <2>1, <2>2, <5>1 DEF GotBy
      <4>6. Well(fun)'
          BY <2>1, <2>2, <3>1, <4>3, <4>5 DEF Well
      <4> QED
          BY <2>2, <4>3, <4>4, <4>6 DEF Between
    <3>2. CASE ~eeprom.pull /\ eeprom.state = "idle" /\ eeprom.n = 0 /\ eeprom.byte = 0
      <4>1. UNCHANGED eeprom
          BY <2>2, <3>2 DEF Fall, Listening
      <4> QED
          BY <1>2, <2>1, <2>2, <3>2, <4>1 DEF Between, Well
    <3> QED
        BY <2>1, <3>1, <3>2 DEF Answered
  <2>5. I2cTyped' /\ Quiet
      BY <1>1, <1>2, <2>1, <2>2, <2>4 DEF I2cTyped, Quiet
  <2> QED
      BY <1>1, <1>16, <2>1, <2>2, <2>4, <2>5
<1> QED
    BY <1>1, <1>8, <1>9, <1>10, <1>11, <1>12, <1>13, <1>14, <1>15, <1>16

(* i2c_read: the bits of a cell, sent one by one, and the acknowledge.     *)
LEMMA ReadSteps ==
    ASSUME PowersAssumed, I2cTyped, IsTransfer(transfer), IsRead, InRead, Port
    PROVE  /\ I2cTyped' /\ UNCHANGED <<cells, transfer, i2cBefore, verify>>
           /\ IF line < 11 THEN UNCHANGED fun /\ line' # 0 /\ InRead' ELSE NextFun /\ Between(fun)'
           /\ Quiet
<1>1. /\ UNCHANGED <<transfer, i2cBefore, verify>> /\ line \in 1..11 /\ turn \in 1..Bits
      /\ fun \in Nat /\ fun >= 6 /\ fun < LastFun /\ Bits \in Nat /\ Bits > 1 /\ success
      /\ transfer.len \in Nat /\ LastFun = transfer.len + 6 /\ transfer.op \notin Writes
      /\ transfer.at \in I2cByte
  <2>1. UNCHANGED <<transfer, i2cBefore, verify>>
      BY PortKeeps
  <2>2. Bits \in Nat /\ Bits > 1
      BY I2cAssumption
  <2>3. line \in 1..11 /\ turn \in 1..Bits /\ success
      BY DEF InRead
  <2>4. transfer.at \in I2cByte
      BY DEF IsTransfer
  <2>5. transfer.op \notin Writes /\ fun \in 6..(LastFun - 1)
      BY DEF IsRead
  <2>6. transfer.len \in Nat /\ LastFun \in Nat /\ LastFun = transfer.len + 6
      BY <2>5, CallSizes
  <2>7. fun \in Nat /\ fun >= 6 /\ fun < LastFun
      BY <2>5, <2>6
  <2> QED
      BY <2>1, <2>2, <2>3, <2>4, <2>5, <2>6, <2>7
<1>2. /\ scl \in {0, 1} /\ sda \in {0, 1} /\ out \in BOOLEAN /\ success \in BOOLEAN
      /\ data \in Seq(I2cByte) /\ cells \in [I2cByte -> I2cByte]
      /\ i2cBefore \in [I2cByte -> I2cByte] /\ eeprom \in Eeproms
    BY DEF I2cTyped
<1>3. PICK p \in I2cByte, c \in I2cByte : p = eeprom.ptr /\ c = cells[eeprom.ptr]
    BY <1>2 DEF Eeproms
<1>4. /\ c \in Nat /\ Prefix(c, 0) = 0 /\ Prefix(c, Bits) = c
      /\ \A i \in 0..Bits : Prefix(c, i) \in I2cByte
      /\ \A i \in 1..Bits : /\ BitOf(c, i) \in {0, 1}
                            /\ Prefix(c, i) = 2 * Prefix(c, i - 1) + BitOf(c, i)
    BY PrefixStep
<1>5. PICK q \in Nat : q = fun - 5 /\ q >= 1 /\ fun - 6 = q - 1
    BY <1>1
<1>6. UNCHANGED cells => \A n : Puts(p, n)' <=> Puts(p, n)
    BY <1>1, Steady
<1>7. /\ \A i : Cell(i)' = Cell(i)
      /\ LastFun' = LastFun
    BY <1>1, Steady
<1>8. ASSUME UNCHANGED <<fun, cells, data>>, eeprom'.state = eeprom.state, eeprom'.ptr = eeprom.ptr,
             NEW k, NEW m, NEW h, Sent(k, m), eeprom'.n = h
      PROVE  Sent(h, m)'
  <2>1. Prefix(cells[eeprom.ptr], m)' = Prefix(cells[eeprom.ptr], m)
      BY <1>8 DEF Prefix
  <2>2. \A i \in 1..(fun - 6) : data'[i] = cells'[Cell(i)']
      BY <1>7, <1>8 DEF Sent
  <2>3. Cell(fun - 5)' = Cell(fun - 5)
      BY <1>7, <1>8
  <2> QED
      BY <1>8, <2>1, <2>2, <2>3 DEF Sent
<1>9. CASE line = 1
  <2>1. /\ AtLine(DirIn) /\ NextOp /\ turn = 1 /\ scl = 0 /\ Sent(turn - 1, turn - 1)
        /\ (eeprom.pull <=> Puts(eeprom.ptr, turn - 1))
      BY <1>1, <1>9, ReadLines DEF InRead
  <2>2. UNCHANGED <<scl, sda, success, data, eeprom, cells>> /\ out' = FALSE /\ out' \in BOOLEAN
      BY <2>1, DirStep
  <2>3. I2cTyped' /\ Quiet
      BY <1>1, <1>2, <2>1, <2>2 DEF I2cTyped, Quiet
  <2>4. Sent(turn - 1, turn - 1)'
    <3>1. eeprom'.n = turn - 1 /\ turn' = turn /\ fun' = fun
        BY <2>1, <2>2 DEF Sent, NextOp
    <3> QED
        BY <1>8, <2>1, <2>2, <3>1
  <2>5. (eeprom.pull <=> Puts(eeprom.ptr, turn - 1))'
      BY <1>3, <1>6, <2>1, <2>2 DEF NextOp
  <2>6. InRead'
      BY <1>1, <1>9, <2>1, <2>2, <2>4, <2>5 DEF InRead, NextOp
  <2> QED
      BY <1>1, <1>9, <2>1, <2>2, <2>3, <2>6 DEF NextOp
<1>10. CASE line = 2
  <2>1. /\ AtLine(Scl(0)) /\ NextOp /\ turn = 1 /\ scl = 0 /\ Sent(turn - 1, turn - 1)
        /\ (eeprom.pull <=> Puts(eeprom.ptr, turn - 1)) /\ ~out
      BY <1>1, <1>10, ReadLines DEF InRead
  <2>2. UNCHANGED <<scl, sda, out, success, data, eeprom, cells>>
      BY <2>1, SclStep
  <2>3. I2cTyped' /\ Quiet
      BY <1>1, <1>2, <2>1, <2>2 DEF I2cTyped, Quiet
  <2>4. Sent(turn - 1, turn - 1)'
    <3>1. eeprom'.n = turn - 1 /\ turn' = turn /\ fun' = fun
        BY <2>1, <2>2 DEF Sent, NextOp
    <3> QED
        BY <1>8, <2>1, <2>2, <3>1
  <2>5. (eeprom.pull <=> Puts(eeprom.ptr, turn - 1))'
      BY <1>3, <1>6, <2>1, <2>2 DEF NextOp
  <2>6. InRead'
      BY <1>1, <1>10, <2>1, <2>2, <2>4, <2>5 DEF InRead, NextOp
  <2> QED
      BY <1>1, <1>10, <2>1, <2>2, <2>3, <2>6 DEF NextOp
<1>11. CASE line = 3
  <2>1. /\ AtLine(Scl(1)) /\ NextOp /\ scl = 0 /\ Sent(turn - 1, turn - 1)
        /\ (eeprom.pull <=> Puts(eeprom.ptr, turn - 1)) /\ ~out
      BY <1>1, <1>11, ReadLines DEF InRead
  <2>2. scl' = 1 /\ UNCHANGED <<sda, out, success, data, cells>> /\ Rise(Sda)
      BY <2>1, SclStep
  <2>3. Sda \in {0, 1} /\ eeprom.state = "send" /\ eeprom.n = turn - 1 /\ eeprom.n <= Bits
      BY <1>1, <2>1, Wires DEF Sent
  <2>4. /\ eeprom' \in Eeproms /\ eeprom'.state = eeprom.state /\ eeprom'.pull = eeprom.pull
        /\ eeprom'.ptr = eeprom.ptr /\ eeprom'.new = eeprom.new /\ eeprom'.n = eeprom.n + 1
      BY <2>2, <2>3, RiseMoves
  <2>5. I2cTyped' /\ Quiet
      BY <1>1, <1>2, <2>1, <2>2, <2>4 DEF I2cTyped, Quiet
  <2>6. Sent(turn, turn - 1)'
    <3>1. eeprom'.n = turn /\ turn' = turn /\ fun' = fun
        BY <1>1, <2>1, <2>3, <2>4 DEF NextOp
    <3> QED
        BY <1>8, <2>1, <2>2, <2>4, <3>1
  <2>7. (eeprom.pull <=> Puts(eeprom.ptr, turn - 1))'
      BY <1>3, <1>6, <2>1, <2>2, <2>4 DEF NextOp
  <2>8. InRead'
      BY <1>1, <1>11, <2>1, <2>2, <2>6, <2>7 DEF InRead, NextOp
  <2> QED
      BY <1>1, <1>11, <2>1, <2>2, <2>5, <2>8 DEF NextOp
<1>12. CASE line = 4
  <2>1. /\ AtLine(Sample) /\ NextOp /\ scl = 1 /\ Sent(turn, turn - 1)
        /\ (eeprom.pull <=> Puts(eeprom.ptr, turn - 1)) /\ ~out
      BY <1>1, <1>12, ReadLines DEF InRead
  <2>2. /\ UNCHANGED <<scl, sda, out, success, eeprom, cells>>
        /\ data' = [data EXCEPT ![Len(data)] = 2 * @ + Sda]
      BY <2>1, SampleStep
  <2>3. Sda = BitOf(c, turn)
    <3>1. turn - 1 < Bits /\ (turn - 1) + 1 = turn
        BY <1>1
    <3>2. eeprom.pull <=> BitOf(c, turn) = 0
        BY <1>3, <2>1, <3>1 DEF Puts
    <3> QED
        BY <1>1, <1>4, <2>1, <3>2, Wires
  <2>4. Len(data) = q /\ data[q] = Prefix(c, turn - 1) /\ eeprom.n = turn
        /\ (\A i \in 1..(q - 1) : data[i] = cells[Cell(i)]) /\ eeprom.ptr = Cell(q)
        /\ eeprom.state = "send"
      BY <1>3, <1>5, <2>1 DEF Sent
  <2>5. PICK d \in I2cByte : d = Prefix(c, turn) /\ d = 2 * data[q] + Sda
    <3>1. Prefix(c, turn) \in I2cByte
        BY <1>1, <1>4
    <3> QED
        BY <1>1, <1>4, <2>3, <2>4, <3>1
  <2>6. data' = [data EXCEPT ![q] = d]
      BY <2>2, <2>4, <2>5
  <2>7. /\ data' \in Seq(I2cByte) /\ Len(data') = q /\ data'[q] = d
        /\ \A i \in 1..(q - 1) : data'[i] = data[i]
    <3>1. q \in 1..Len(data)
        BY <1>5, <2>4
    <3> QED
        BY <1>2, <2>4, <2>6, <3>1
  <2>8. I2cTyped'
      BY <1>1, <1>2, <2>2, <2>7 DEF I2cTyped
  <2>9. Quiet
      BY <2>2 DEF Quiet, Sda
  <2>10. Sent(turn, turn)'
    <3>1. turn' = turn /\ fun' = fun
        BY <2>1 DEF NextOp
    <3>2. Prefix(cells[eeprom.ptr], turn)' = d
      <4>1. cells'[eeprom'.ptr] = c
          BY <1>3, <2>2
      <4> QED
          BY <2>5, <3>1, <4>1 DEF Prefix
    <3>3. \A i \in 1..(q - 1) : data'[i] = cells'[Cell(i)']
        BY <1>7, <2>2, <2>4, <2>7
    <3>4. Cell(fun - 5)' = Cell(q) /\ fun' - 5 = q /\ fun' - 6 = q - 1
        BY <1>5, <1>7, <3>1
    <3> QED
        BY <2>2, <2>4, <2>7, <3>1, <3>2, <3>3, <3>4 DEF Sent
  <2>11. InRead'
      BY <1>1, <1>12, <2>1, <2>2, <2>10 DEF InRead, NextOp
  <2> QED
      BY <1>1, <1>12, <2>1, <2>2, <2>8, <2>9, <2>11 DEF NextOp
<1>13. CASE line = 5
  <2>1. AtLine(Scl(0)) /\ LoopLine(3) /\ scl = 1 /\ Sent(turn, turn) /\ ~out
      BY <1>1, <1>13, ReadLines DEF InRead
  <2>2. scl' = 0 /\ UNCHANGED <<sda, out, success, data, cells>> /\ Fall
      BY <2>1, SclStep
  <2>3. eeprom.state = "send" /\ eeprom.n = turn /\ eeprom.n <= Bits
      BY <1>1, <2>1 DEF Sent
  <2>4. eeprom' = [eeprom EXCEPT !.pull = Puts(p, turn)]
    <3>1. eeprom.state \notin Listening /\ ~(eeprom.n > Bits)
        BY <1>1, <2>3 DEF Listening
    <3>2. eeprom' = [eeprom EXCEPT !.pull = Puts(eeprom.ptr, eeprom.n)]
        BY <2>2, <2>3, <3>1 DEF Fall
    <3> QED
        BY <1>3, <2>3, <3>2
  <2>5. Puts(p, turn) \in BOOLEAN /\ (turn = Bits => ~Puts(p, turn))
      BY <1>1 DEF Puts
  <2>6. /\ eeprom' \in Eeproms /\ eeprom'.state = eeprom.state /\ eeprom'.ptr = eeprom.ptr
        /\ eeprom'.n = turn /\ eeprom'.pull = Puts(p, turn)
      BY <1>2, <2>3, <2>4, <2>5 DEF Eeproms
  <2>7. I2cTyped' /\ Quiet
      BY <1>1, <1>2, <2>1, <2>2, <2>6 DEF I2cTyped, Quiet
  <2>8. UNCHANGED fun
      BY <2>1 DEF LoopLine, NextOp
  <2>9. CASE turn < Bits
    <3>1. line' = 3 /\ turn' = turn + 1 /\ turn' - 1 = turn
        BY <1>1, <2>1, <2>9 DEF LoopLine
    <3>2. Sent(turn - 1, turn - 1)'
      <4>1. \A k : k = turn => Sent(k, k)'
          BY <1>8, <2>1, <2>2, <2>6, <2>8
      <4> QED
          BY <3>1, <4>1
    <3>3. (eeprom.pull <=> Puts(eeprom.ptr, turn - 1))'
        BY <1>3, <1>6, <2>2, <2>6, <3>1
    <3>4. InRead'
        BY <1>1, <2>1, <2>2, <2>9, <3>1, <3>2, <3>3 DEF InRead
    <3> QED
        BY <1>1, <1>13, <2>2, <2>7, <2>8, <3>1, <3>4
  <2>10. CASE turn = Bits
    <3>1. line' = 6 /\ turn' = Bits
        BY <1>1, <1>13, <2>1, <2>10 DEF LoopLine, NextOp
    <3>2. Sent(Bits, Bits)'
        BY <1>8, <2>1, <2>2, <2>6, <2>8, <2>10
    <3>3. InRead'
        BY <1>1, <2>1, <2>2, <2>5, <2>6, <2>10, <3>1, <3>2 DEF InRead
    <3> QED
        BY <1>1, <1>13, <2>2, <2>7, <2>8, <3>1, <3>3
  <2> QED
      BY <1>1, <2>9, <2>10
<1>14. CASE line = 6
  <2>1. /\ AtLine(Scl(0)) /\ NextOp /\ scl = 0 /\ Sent(Bits, Bits) /\ ~eeprom.pull /\ ~out
        /\ turn = Bits
      BY <1>1, <1>14, ReadLines DEF InRead
  <2>2. UNCHANGED <<scl, sda, out, success, data, eeprom, cells>>
      BY <2>1, SclStep
  <2>3. I2cTyped' /\ Quiet
      BY <1>1, <1>2, <2>1, <2>2 DEF I2cTyped, Quiet
  <2>4. Sent(Bits, Bits)'
    <3>1. eeprom'.n = Bits /\ fun' = fun
        BY <2>1, <2>2 DEF Sent, NextOp
    <3> QED
        BY <1>8, <2>1, <2>2, <3>1
  <2>5. InRead'
      BY <1>1, <1>14, <2>1, <2>2, <2>4 DEF InRead, NextOp
  <2> QED
      BY <1>1, <1>14, <2>1, <2>2, <2>3, <2>5 DEF NextOp
<1>15. CASE line = 7
  <2>1. /\ AtLine(DirOut) /\ NextOp /\ scl = 0 /\ Sent(Bits, Bits) /\ ~eeprom.pull /\ turn = Bits
      BY <1>1, <1>15, ReadLines DEF InRead
  <2>2. UNCHANGED <<scl, sda, success, data, eeprom, cells>> /\ out' = TRUE
      BY <2>1, DirStep
  <2>3. I2cTyped' /\ Quiet
      BY <1>1, <1>2, <2>1, <2>2 DEF I2cTyped, Quiet
  <2>4. Sent(Bits, Bits)'
    <3>1. eeprom'.n = Bits /\ fun' = fun
        BY <2>1, <2>2 DEF Sent, NextOp
    <3> QED
        BY <1>8, <2>1, <2>2, <3>1
  <2>5. InRead'
      BY <1>1, <1>15, <2>1, <2>2, <2>4 DEF InRead, NextOp
  <2> QED
      BY <1>1, <1>15, <2>1, <2>2, <2>3, <2>5 DEF NextOp
<1>16. PICK x \in {0, 1} : x = IF fun # transfer.len + 5 THEN 0 ELSE 1
    OBVIOUS
<1>17. CASE line = 8
  <2>1. /\ AtLine(SdaIs(x)) /\ NextOp /\ scl = 0 /\ Sent(Bits, Bits) /\ ~eeprom.pull
        /\ turn = Bits /\ out
      BY <1>1, <1>16, <1>17, ReadLines DEF InRead
  <2>2. UNCHANGED <<scl, out, success, data, eeprom, cells>> /\ sda' = x
      BY <2>1, SdaStep
  <2>3. I2cTyped' /\ Quiet
      BY <1>1, <1>2, <2>1, <2>2 DEF I2cTyped, Quiet
  <2>4. Sent(Bits, Bits)'
    <3>1. eeprom'.n = Bits /\ fun' = fun
        BY <2>1, <2>2 DEF Sent, NextOp
    <3> QED
        BY <1>8, <2>1, <2>2, <3>1
  <2>5. InRead'
      BY <1>1, <1>16, <1>17, <2>1, <2>2, <2>4 DEF InRead, NextOp
  <2> QED
      BY <1>1, <1>17, <2>1, <2>2, <2>3, <2>5 DEF NextOp
<1>18. CASE line = 9
  <2>1. /\ AtLine(Scl(1)) /\ NextOp /\ scl = 0 /\ Sent(Bits, Bits) /\ ~eeprom.pull
        /\ turn = Bits /\ out /\ sda = x
      BY <1>1, <1>16, <1>18, ReadLines DEF InRead
  <2>2. scl' = 1 /\ UNCHANGED <<sda, out, success, data, cells>> /\ Rise(Sda)
      BY <2>1, SclStep
  <2>3. /\ Sda = x /\ eeprom.state = "send" /\ eeprom.n = Bits /\ eeprom.n <= Bits
        /\ Sda \in {0, 1}
      BY <1>1, <1>2, <2>1, Wires DEF Sent
  <2>4. /\ eeprom' \in Eeproms /\ eeprom'.state = eeprom.state /\ eeprom'.pull = eeprom.pull
        /\ eeprom'.ptr = eeprom.ptr /\ eeprom'.n = Bits + 1 /\ eeprom'.last = x
      BY <2>2, <2>3, RiseMoves
  <2>5. I2cTyped' /\ Quiet
      BY <1>1, <1>2, <2>1, <2>2, <2>4 DEF I2cTyped, Quiet
  <2>6. Sent(Bits + 1, Bits)'
    <3>1. fun' = fun
        BY <2>1 DEF NextOp
    <3> QED
        BY <1>8, <2>1, <2>2, <2>4, <3>1
  <2>7. InRead'
      BY <1>1, <1>16, <1>18, <2>1, <2>2, <2>4, <2>6 DEF InRead, NextOp
  <2> QED
      BY <1>1, <1>18, <2>1, <2>2, <2>5, <2>7 DEF NextOp
<1>19. CASE line = 10
  <2>1. /\ AtLine(Scl(0)) /\ NextOp /\ scl = 1 /\ Sent(Bits + 1, Bits) /\ ~eeprom.pull
        /\ turn = Bits /\ eeprom.last = x /\ sda = x
      BY <1>1, <1>16, <1>19, ReadLines DEF InRead
  <2>2. scl' = 0 /\ UNCHANGED <<sda, out, success, data, cells>> /\ Fall
      BY <2>1, SclStep
  <2>3. /\ eeprom.state = "send" /\ eeprom.n = Bits + 1 /\ eeprom.n > Bits /\ p = Cell(q)
        /\ Len(data) = q /\ (\A i \in 1..(q - 1) : data[i] = cells[Cell(i)]) /\ data[q] = c
      BY <1>1, <1>3, <1>4, <1>5, <2>1 DEF Sent
  <2>4. eeprom' = IF x = 1 THEN I2cReset("idle")
                  ELSE [I2cReset("send") EXCEPT !.ptr = Bump(@), !.pull = Puts(Bump(eeprom.ptr), 0)]
      BY <1>1, <2>1, <2>2, <2>3 DEF Fall, Listening
  <2>5. GotBy(fun + 1)'
    <3>1. \A i \in 1..q : data'[i] = cells'[Cell(i)']
      <4> SUFFICES ASSUME NEW i \in 1..q PROVE data'[i] = cells'[Cell(i)']
          OBVIOUS
      <4>1. CASE i = q
        <5>1. data'[i] = c /\ cells'[Cell(i)'] = cells[p]
            BY <1>7, <2>2, <2>3, <4>1
        <5> QED
            BY <1>3, <5>1
      <4>2. CASE i \in 1..(q - 1)
          BY <1>7, <2>2, <2>3, <4>2
      <4> QED
          BY <1>5, <4>1, <4>2
    <3>2. ReadBy(fun + 1)' = q
        BY <1>1, <1>5, <2>1 DEF ReadBy, NextOp
    <3> QED
        BY <2>2, <2>3, <3>1, <3>2 DEF GotBy
  <2>6. CASE x = 1
    <3>1. fun + 1 = LastFun
        BY <1>1, <1>16, <2>6
    <3>2. /\ eeprom' \in Eeproms /\ eeprom'.state = "idle" /\ eeprom'.n = 0 /\ eeprom'.byte = 0
          /\ ~eeprom'.pull
        BY <2>4, <2>6, ResetTo
    <3>3. I2cTyped' /\ Quiet
        BY <1>1, <1>2, <2>1, <2>2, <3>2 DEF I2cTyped, Quiet
    <3>4. Device(fun + 1)'
      <4>1. fun' + 1 = LastFun' /\ fun' + 1 >= 7 /\ fun' \in Nat /\ LastFun' \in Nat
          BY <1>1, <1>7, <2>1, <3>1 DEF NextOp
      <4>2. PICK k \in Nat : k = fun' + 1 /\ k = LastFun' /\ k >= 7
          BY <4>1
      <4>3. transfer'.op \notin Writes /\ eeprom'.state = "idle"
          BY <1>1, <3>2
      <4>4. Device(k)'
          BY <4>2, <4>3 DEF Device
      <4> QED
          BY <4>2, <4>4
    <3>5. Between(fun + 1)'
        BY <1>1, <2>2, <2>5, <3>2, <3>4 DEF Between, Well
    <3>6. InRead'
        BY <1>1, <1>19, <2>1, <2>2, <3>5 DEF InRead, NextOp
    <3> QED
        BY <1>1, <1>19, <2>1, <2>2, <3>3, <3>6 DEF NextOp
  <2>7. CASE x = 0
    <3>1. fun + 1 < LastFun /\ (fun + 1) - 5 = q + 1 /\ q \in Nat \ {0}
        BY <1>1, <1>5, <1>16, <2>7
    <3>2. PICK r \in I2cByte : r = Bump(p) /\ r = Cell(q + 1)
      <4>1. Cell(q + 1) \in I2cByte
          BY <1>1, <1>5, CellRing
      <4> QED
          BY <1>1, <2>3, <3>1, <4>1, CellRing
    <3>3. PICK y \in BOOLEAN : y = Puts(r, 0)
        BY DEF Puts
    <3>4. /\ I2cReset("send") \in Eeproms /\ I2cReset("send").state = "send"
          /\ I2cReset("send").n = 0 /\ I2cReset("send").byte = 0
          /\ I2cReset("send").ptr = eeprom.ptr
        BY ResetTo
    <3>5. eeprom' = [I2cReset("send") EXCEPT !.ptr = r, !.pull = y]
      <4>1. eeprom' = [I2cReset("send") EXCEPT !.ptr = Bump(@), !.pull = Puts(Bump(eeprom.ptr), 0)]
          BY <2>4, <2>7
      <4>2. Bump(I2cReset("send").ptr) = r /\ Puts(Bump(eeprom.ptr), 0) = y
          BY <1>3, <3>2, <3>3, <3>4
      <4> QED
          BY <3>4, <4>1, <4>2 DEF Eeproms
    <3>6. /\ eeprom' \in Eeproms /\ eeprom'.state = "send" /\ eeprom'.n = 0 /\ eeprom'.byte = 0
          /\ eeprom'.ptr = r /\ eeprom'.pull = y
        BY <3>4, <3>5 DEF Eeproms
    <3>7. I2cTyped' /\ Quiet
        BY <1>1, <1>2, <2>1, <2>2, <3>6 DEF I2cTyped, Quiet
    <3>8. Device(fun + 1)'
      <4>1. /\ fun' + 1 < LastFun' /\ fun' + 1 >= 7 /\ Cell((fun + 1) - 5)' = r
            /\ fun' \in Nat /\ LastFun' \in Nat
          BY <1>1, <1>7, <2>1, <3>1, <3>2 DEF NextOp
      <4> QED
          BY <1>1, <3>6, <4>1 DEF Device
    <3>9. (Puts(eeprom.ptr, 0) <=> y)'
        BY <2>2, <3>3, <3>6 DEF Puts
    <3>10. Between(fun + 1)'
        BY <1>1, <2>2, <2>5, <3>6, <3>8, <3>9 DEF Between, Well
    <3>11. InRead'
        BY <1>1, <1>19, <2>1, <2>2, <3>10 DEF InRead, NextOp
    <3> QED
        BY <1>1, <1>19, <2>1, <2>2, <3>7, <3>11 DEF NextOp
  <2> QED
      BY <2>6, <2>7
<1>20. CASE line = 11
  <2>1. AtLine(SdaIs(0)) /\ NextFun /\ Between(fun + 1)
      BY <1>1, <1>20, ReadLines DEF InRead
  <2>2. scl = 0 /\ UNCHANGED <<scl, out, success, data, eeprom, cells>> /\ sda' = 0
      BY <2>1, SdaStep DEF Between
  <2>3. I2cTyped' /\ Quiet
      BY <1>1, <1>2, <2>2 DEF I2cTyped, Quiet
  <2>4. Between(fun)'
    <3>1. PICK k : k = fun + 1 /\ fun' = k
        BY <1>1, <2>1 DEF NextFun
    <3>2. Between(k)'
        BY <1>1, <2>1, <2>2, <3>1, SteadyBetween
    <3> QED
        BY <3>1, <3>2
  <2> QED
      BY <1>1, <1>20, <2>1, <2>2, <2>3, <2>4
<1> QED
    BY <1>1, <1>9, <1>10, <1>11, <1>12, <1>13, <1>14, <1>15, <1>17, <1>18, <1>19, <1>20

(* The next function of a call is entered, or passed over after a refusal. *)
LEMMA FunctionSteps ==
    ASSUME PowersAssumed, I2cTyped, InCallI, Function
    PROVE  /\ I2cTyped' /\ InCallI' /\ fun' # 0
           /\ UNCHANGED <<scl, sda, out, eeprom, transfer, cells, i2cBefore, verify>>
<1>1. /\ UNCHANGED <<scl, sda, out, success, transfer, eeprom, cells, i2cBefore, verify>>
      /\ line = 0 /\ fun \in 1..LastFun /\ cells = Base /\ FunEntry(fun) /\ IsTransfer(transfer)
      /\ LastFun \in Nat /\ LastFun >= 5 /\ Bits \in Nat /\ Bits > 1
    BY CallSizes, I2cAssumption DEF Function, InCallI
<1>2. /\ scl \in {0, 1} /\ sda \in {0, 1} /\ out \in BOOLEAN /\ success \in BOOLEAN
      /\ data \in Seq(I2cByte) /\ cells \in [I2cByte -> I2cByte]
      /\ i2cBefore \in [I2cByte -> I2cByte] /\ eeprom \in Eeproms
    BY DEF I2cTyped
<1>3. IsTransfer(transfer)' /\ Base' = Base /\ LastFun' = LastFun
    BY <1>1, Steady DEF IsTransfer
<1>4. CASE Running.if /\ ~success
  <2>1. Proceed /\ UNCHANGED data
      BY <1>1, <1>4 DEF Function
  <2>2. fun # 1
      BY <1>1, <1>4 DEF FunEntry
  <2>3. fun # LastFun
      BY <1>1, <1>4, <2>2, ScriptAt DEF IsStart, IsStop, IsWrite, IsRead
  <2>4. fun' = fun + 1 /\ line' = 0 /\ fun' \in 2..LastFun
      BY <1>1, <2>1, <2>3, CallSizes DEF Proceed
  <2>5. I2cTyped'
      BY <1>1, <1>2, <2>1 DEF I2cTyped
  <2>6. Between(fun) /\ eeprom.state \in {"idle", "device"}
      BY <1>1, <1>4, <2>2 DEF FunEntry, Between, Well
  <2>7. Between(fun)'
      BY <1>1, <1>4, <2>6 DEF Between, Well
  <2>8. InCallI'
      BY <1>1, <1>3, <2>4, <2>7 DEF InCallI, FunEntry
  <2> QED
      BY <1>1, <2>4, <2>5, <2>8
<1>5. CASE ~(Running.if /\ ~success)
  <2>1. line' = 1 /\ turn' = 1 /\ UNCHANGED fun
        /\ data' = IF Running.fn = "read" /\ success THEN Append(data, 0) ELSE data
      BY <1>1, <1>5 DEF Function
  <2>2. Running' = Running
      BY <1>1, <2>1, Steady
  <2>3. 0 \in I2cByte
    <3>1. 2^Bits \in Nat \ {0}
        BY <1>1 DEF PowersAssumed
    <3> QED
        BY <3>1 DEF I2cByte
  <2>4. I2cTyped'
      BY <1>1, <1>2, <2>1, <2>3 DEF I2cTyped
  <2>5. UNCHANGED data => (Between(fun)' <=> Between(fun)) /\ (GotBy(fun)' <=> GotBy(fun))
      BY <1>1, <2>1, SteadyBetween, Steady
  <2>6. UNCHANGED data => FunEntry(fun)'
      BY <1>1, <2>1, <2>5 DEF FunEntry, BusRest
  <2>7. Within'
    <3>1. CASE IsStart
      <4>1. UNCHANGED data /\ Running'.fn = "start" /\ fun' \in {1, 4}
          BY <2>1, <2>2, <3>1 DEF IsStart
      <4>2. InStart'
          BY <2>1, <2>6, <4>1 DEF InStart
      <4> QED
          BY <4>1, <4>2 DEF Within
    <3>2. CASE IsStop
      <4>1. UNCHANGED data /\ Running'.fn = "stop" /\ fun' = LastFun' /\ fun' # 1
          BY <1>1, <1>3, <2>1, <2>2, <3>2 DEF IsStop
      <4>2. InStop'
          BY <2>1, <2>6, <4>1 DEF InStop, FunEntry
      <4> QED
          BY <4>1, <4>2 DEF Within
    <3>3. CASE IsWrite
      <4>1. UNCHANGED data /\ Running'.fn = "write" /\ success /\ fun # 1
          BY <1>1, <1>5, <2>1, <2>2, <3>3 DEF IsWrite
      <4>2. Between(fun) /\ GotBy(fun)
          BY <1>1, <4>1 DEF FunEntry, Between, Well
      <4>3. InWrite'
          BY <1>1, <2>1, <2>5, <4>1, <4>2 DEF InWrite
      <4> QED
          BY <4>1, <4>3 DEF Within
    <3>4. CASE IsRead
      <4>1. /\ Running'.fn = "read" /\ success /\ fun # 1 /\ data' = Append(data, 0)
            /\ transfer.op \notin Writes /\ fun \in 6..(LastFun - 1)
          BY <1>1, <1>5, <2>1, <2>2, <3>4 DEF IsRead
      <4>2. /\ Between(fun) /\ GotBy(fun) /\ Device(fun)
          BY <1>1, <4>1 DEF FunEntry, Between, Well
      <4>3. PICK q \in Nat : q = fun - 6 /\ q + 1 = fun - 5
          BY <1>1, <4>1
      <4>4. Len(data) = q /\ \A i \in 1..q : data[i] = cells[Cell(i)]
          BY <4>1, <4>2, <4>3 DEF GotBy, ReadBy
      <4>5. eeprom.state = "send" /\ eeprom.ptr = Cell(q + 1)
          BY <1>1, <4>1, <4>2, <4>3 DEF Device
      <4>6. Len(data') = q + 1 /\ data'[q + 1] = 0 /\ \A i \in 1..q : data'[i] = data[i]
          BY <1>2, <4>1, <4>4
      <4>7. Prefix(cells[eeprom.ptr], turn - 1)' = 0
        <5>1. PICK c \in I2cByte : c = cells[eeprom.ptr]
            BY <1>2 DEF Eeproms
        <5>2. Prefix(c, 0) = 0
            BY PrefixStep
        <5> QED
            BY <1>1, <2>1, <5>1, <5>2 DEF Prefix
      <4>8. Sent(turn - 1, turn - 1)'
        <5>1. /\ turn' - 1 = 0 /\ fun' - 5 = q + 1 /\ fun' - 6 = q /\ eeprom'.n = 0
              /\ (\A i : Cell(i)' = Cell(i))
            BY <1>1, <2>1, <4>2, <4>3, Steady DEF Between
        <5>2. \A i \in 1..q : data'[i] = cells'[Cell(i)']
            BY <1>1, <4>4, <4>6, <5>1
        <5>3. Cell(fun - 5)' = Cell(q + 1)
            BY <5>1
        <5> QED
            BY <1>1, <4>5, <4>6, <4>7, <5>1, <5>2, <5>3 DEF Sent
      <4>9. (eeprom.pull <=> Puts(eeprom.ptr, turn - 1))'
        <5>1. eeprom.pull <=> Puts(eeprom.ptr, 0)
            BY <4>2, <4>5 DEF Between
        <5>2. turn' - 1 = 0
            BY <2>1
        <5> QED
            BY <1>1, <5>1, <5>2 DEF Puts
      <4>10. InRead'
          BY <1>1, <2>1, <4>1, <4>2, <4>8, <4>9 DEF InRead, Between
      <4> QED
          BY <4>1, <4>10 DEF Within
    <3> QED
        BY <1>1, <3>1, <3>2, <3>3, <3>4, ScriptAt
  <2>8. InCallI'
      BY <1>1, <1>3, <2>1, <2>7 DEF InCallI
  <2> QED
      BY <1>1, <2>1, <2>4, <2>8
<1> QED
    BY <1>4, <1>5

(* A port write of a call.                                                 *)
LEMMA PortSteps ==
    ASSUME PowersAssumed, I2cTyped, InCallI, Port
    PROVE  /\ I2cTyped' /\ UNCHANGED <<transfer, i2cBefore, verify>>
           /\ IF fun' = 0 THEN CallOver' ELSE InCallI'
           /\ Quiet \/ (line # 0 /\ Running.fn = IF Sda' = 0 THEN "start" ELSE "stop")
<1>1. /\ UNCHANGED <<transfer, i2cBefore, verify>> /\ line # 0 /\ fun \in 1..LastFun
      /\ cells = Base /\ Within /\ IsTransfer(transfer) /\ LastFun \in Nat /\ LastFun >= 5
    BY PortKeeps, CallSizes DEF Port, InCallI
<1>2. IsTransfer(transfer)' /\ Base' = Base /\ LastFun' = LastFun
    BY <1>1, Steady DEF IsTransfer
<1>3. UNCHANGED fun => Running' = Running
    BY <1>1, Steady
<1>4. ASSUME UNCHANGED <<cells, fun>>, line' # 0, Within' PROVE fun' # 0 /\ InCallI'
    BY <1>1, <1>2, <1>4 DEF InCallI
<1>5. ASSUME UNCHANGED cells, NextFun, fun # LastFun, Between(fun)' PROVE fun' # 0 /\ InCallI'
  <2>1. line' = 0 /\ fun' = fun + 1 /\ fun' \in 2..LastFun
      BY <1>1, <1>5 DEF NextFun
  <2> QED
      BY <1>1, <1>2, <1>5, <2>1 DEF InCallI, FunEntry
<1>6. CASE IsStart
  <2>1. InStart /\ line \in 1..5 /\ fun # LastFun /\ Running.fn = "start"
      BY <1>1, <1>6 DEF Within, IsStart, InStart
  <2>2. /\ I2cTyped' /\ UNCHANGED cells
        /\ IF line < 5 THEN NextOp /\ InStart' ELSE NextFun /\ Between(fun)'
        /\ Quiet \/ Sda' = 0
      BY <1>1, <1>6, <2>1, StartSteps
  <2>3. CASE line < 5
    <3>1. UNCHANGED fun /\ line' # 0 /\ InStart'
        BY <2>1, <2>2, <2>3 DEF NextOp
    <3>2. Within'
        BY <1>3, <2>1, <3>1 DEF Within
    <3> QED
        BY <1>1, <1>4, <2>1, <2>2, <3>1, <3>2
  <2>4. CASE ~(line < 5)
      BY <1>1, <1>5, <2>1, <2>2, <2>4
  <2> QED
      BY <2>3, <2>4
<1>7. CASE IsStop
  <2>1. InStop /\ line \in 1..4 /\ Running.fn = "stop"
      BY <1>1, <1>7 DEF Within, IsStop, InStop
  <2>2. /\ I2cTyped'
        /\ IF line < 4 THEN NextOp /\ InStop' /\ UNCHANGED cells ELSE fun' = 0 /\ CallOver'
        /\ Quiet \/ Sda' = 1
      BY <1>1, <1>7, <2>1, StopSteps
  <2>3. CASE line < 4
    <3>1. UNCHANGED <<fun, cells>> /\ line' # 0 /\ InStop'
        BY <2>1, <2>2, <2>3 DEF NextOp
    <3>2. Within'
        BY <1>3, <2>1, <3>1 DEF Within
    <3> QED
        BY <1>1, <1>4, <2>1, <2>2, <3>1, <3>2
  <2>4. CASE ~(line < 4)
      BY <1>1, <2>1, <2>2, <2>4
  <2> QED
      BY <2>3, <2>4
<1>8. CASE IsWrite
  <2>1. InWrite /\ line \in 1..9 /\ Running.fn = "write" /\ fun # LastFun
      BY <1>1, <1>8 DEF Within, IsWrite, InWrite
  <2>2. /\ I2cTyped' /\ UNCHANGED cells
        /\ IF line < 9 THEN UNCHANGED fun /\ line' # 0 /\ InWrite' ELSE NextFun /\ Between(fun)'
        /\ Quiet
      BY <1>1, <1>8, <2>1, WriteSteps
  <2>3. CASE line < 9
    <3>1. Within'
        BY <1>3, <2>1, <2>2, <2>3 DEF Within
    <3> QED
        BY <1>1, <1>4, <2>2, <2>3, <3>1
  <2>4. CASE ~(line < 9)
      BY <1>1, <1>5, <2>1, <2>2, <2>4
  <2> QED
      BY <2>3, <2>4
<1>9. CASE IsRead
  <2>1. InRead /\ line \in 1..11 /\ Running.fn = "read" /\ fun # LastFun
      BY <1>1, <1>9 DEF Within, IsRead, InRead
  <2>2. /\ I2cTyped' /\ UNCHANGED cells
        /\ IF line < 11 THEN UNCHANGED fun /\ line' # 0 /\ InRead' ELSE NextFun /\ Between(fun)'
        /\ Quiet
      BY <1>1, <1>9, <2>1, ReadSteps
  <2>3. CASE line < 11
    <3>1. Within'
        BY <1>3, <2>1, <2>2, <2>3 DEF Within
    <3> QED
        BY <1>1, <1>4, <2>2, <2>3, <3>1
  <2>4. CASE ~(line < 11)
      BY <1>1, <1>5, <2>1, <2>2, <2>4
  <2> QED
      BY <2>3, <2>4
<1> QED
    BY <1>1, <1>6, <1>7, <1>8, <1>9, ScriptAt

(* A call begins: the contents at its beginning are the present ones.      *)
LEMMA BeginSteps ==
    ASSUME I2cTyped, CallOver, NEW c, Begun(c), IsTransfer(c), cells' = Base',
           i2cBefore' \in [I2cByte -> I2cByte]
    PROVE  I2cTyped' /\ fun' # 0 /\ InCallI' /\ UNCHANGED <<scl, sda, out, eeprom>>
<1>1. /\ transfer' = c /\ fun' = 1 /\ success' = TRUE /\ data' = <<>>
      /\ UNCHANGED <<scl, sda, out, line, turn, eeprom, cells>> /\ line = 0 /\ BusRest
    BY DEF Begun, CallOver
<1>2. I2cTyped'
    BY <1>1 DEF I2cTyped
<1>3. IsTransfer(transfer)' /\ LastFun' \in Nat /\ LastFun' >= 5
    BY <1>1 DEF IsTransfer, LastFun
<1>4. FunEntry(fun)'
    BY <1>1 DEF FunEntry, BusRest
<1> QED
    BY <1>1, <1>2, <1>3, <1>4 DEF InCallI

LEMMA ZeroByte == PowersAssumed => 0 \in I2cByte
<1> SUFFICES ASSUME PowersAssumed PROVE 0 \in I2cByte
    OBVIOUS
<1>1. 2^Bits \in Nat \ {0}
    BY I2cAssumption DEF PowersAssumed
<1> QED
    BY <1>1 DEF I2cByte

LEMMA RequestSteps ==
    ASSUME I2cTyped, VerifySteps, fun = 0, CallOver, I2cRequest
    PROVE  I2cTyped' /\ VerifySteps' /\ fun' # 0 /\ InCallI' /\ UNCHANGED <<scl, sda, out, eeprom>>
<1>1. verify.step = 0 /\ i2cBefore' = cells /\ UNCHANGED verify
    BY DEF I2cRequest
<1>2. VerifySteps'
    BY <1>1 DEF VerifySteps
<1>3. PICK c : Begun(c) /\ IsTransfer(c)
  <2>1. PICK d \in Foreign \union {DeviceAddr}, a \in I2cByte, n \in I2cLens, b \in Data, b2 \in Data :
          \/ Begun([op |-> "write", dev |-> d, at |-> a, bytes |-> <<b>>, len |-> 1])
          \/ Begun([op |-> "mwrite", dev |-> d, at |-> a, len |-> n,
                    bytes |-> [i \in 1..n |-> IF i = 1 THEN b ELSE b2]])
          \/ Begun([op |-> "read", dev |-> d, at |-> a, bytes |-> <<>>, len |-> 1])
          \/ Begun([op |-> "mread", dev |-> d, at |-> a, bytes |-> <<>>, len |-> n])
      BY DEF I2cRequest
  <2>2. n \in Nat /\ n >= 1 /\ b \in I2cByte /\ b2 \in I2cByte
      BY I2cAssumption
  <2>3. IsTransfer([op |-> "write", dev |-> d, at |-> a, bytes |-> <<b>>, len |-> 1])
      BY <2>2 DEF IsTransfer, Writes
  <2>4. IsTransfer([op |-> "mwrite", dev |-> d, at |-> a, len |-> n,
                    bytes |-> [i \in 1..n |-> IF i = 1 THEN b ELSE b2]])
      BY <2>2 DEF IsTransfer, Writes
  <2>5. IsTransfer([op |-> "read", dev |-> d, at |-> a, bytes |-> <<>>, len |-> 1])
      BY <2>2 DEF IsTransfer, Writes
  <2>6. IsTransfer([op |-> "mread", dev |-> d, at |-> a, bytes |-> <<>>, len |-> n])
      BY <2>2 DEF IsTransfer, Writes
  <2> QED
      BY <2>1, <2>3, <2>4, <2>5, <2>6
<1>4. cells' = Base' /\ i2cBefore' \in [I2cByte -> I2cByte]
    BY <1>1, <1>3 DEF Base, Begun, I2cTyped
<1> QED
    BY <1>2, <1>3, <1>4, BeginSteps

(* One byte written is one cell changed.                                   *)
LEMMA WrittenOne ==
    ASSUME PowersAssumed, IsTransfer(transfer), NEW mem \in [I2cByte -> I2cByte],
           NEW before \in [I2cByte -> I2cByte], Written(mem, before, 1)
    PROVE  mem = [before EXCEPT ![transfer.at] = transfer.bytes[1]]
<1>1. transfer.at \in I2cByte /\ Cell(1) = transfer.at
    BY CellRing DEF IsTransfer
<1>2. mem[Cell(1)] = transfer.bytes[1]
    BY DEF Written
<1>3. \A a \in I2cByte : a # transfer.at => mem[a] = before[a]
  <2> SUFFICES ASSUME NEW a \in I2cByte, a # transfer.at PROVE mem[a] = before[a]
      OBVIOUS
  <2>1. \A i \in 1..1 : Cell(i) # a
      BY <1>1
  <2> QED
      BY <2>1 DEF Written
<1> QED
    BY <1>1, <1>2, <1>3

(* i2c_data_verify: each of its calls begins with the contents its steps   *)
(* so far have left, and after the last these are those it found.          *)
LEMMA VerifyInv ==
    ASSUME PowersAssumed, I2cTyped, VerifySteps, fun = 0, CallOver, I2cVerify
    PROVE  /\ I2cTyped' /\ VerifySteps' /\ UNCHANGED <<scl, sda, out, eeprom>>
           /\ IF fun' = 0 THEN CallOver' ELSE InCallI'
           /\ verify.step # 0 /\ verify'.step = 0 /\ success' => cells = i2cBefore
<1>1. /\ cells \in [I2cByte -> I2cByte] /\ i2cBefore \in [I2cByte -> I2cByte] /\ 0 \in I2cByte
      /\ verify \in [step : 0..5, test : I2cByte, org : I2cByte] /\ Data \subseteq I2cByte
      /\ data \in Seq(I2cByte)
    BY ZeroByte, I2cAssumption DEF I2cTyped, VerifySteps, Steps
<1> DEFINE Call(a, write, b) == [op |-> IF write THEN "write" ELSE "read", dev |-> DeviceAddr, at |-> a,
                                 bytes |-> IF write THEN <<b>> ELSE <<>>, len |-> 1]
<1> HIDE DEF Call
<1>2. ASSUME NEW a \in I2cByte, NEW w \in BOOLEAN, NEW b \in I2cByte
      PROVE  /\ IsTransfer(Call(a, w, b)) /\ (VerifyCall(a, w, b) => Begun(Call(a, w, b)))
             /\ Call(a, w, b).dev = DeviceAddr /\ Call(a, w, b).at = a
             /\ Call(a, w, b).op = IF w THEN "write" ELSE "read"
             /\ (w => Call(a, w, b).bytes[1] = b)
  <2>1. VerifyCall(a, w, b) => Begun(Call(a, w, b))
      BY DEF VerifyCall, Call
  <2>2. CASE w
    <3>1. PICK c : c = [op |-> "write", dev |-> DeviceAddr, at |-> a, bytes |-> <<b>>, len |-> 1]
        OBVIOUS
    <3>2. c = Call(a, w, b)
        BY <2>2, <3>1 DEF Call
    <3>3. /\ c.op = "write" /\ c.dev = DeviceAddr /\ c.at = a /\ c.bytes = <<b>> /\ c.len = 1
          /\ c.bytes[1] = b
        BY <3>1
    <3>4. IsTransfer(c)
        BY <3>3 DEF IsTransfer, Writes
    <3> QED
        BY <2>1, <2>2, <3>2, <3>3, <3>4
  <2>3. CASE ~w
    <3>1. PICK c : c = [op |-> "read", dev |-> DeviceAddr, at |-> a, bytes |-> <<>>, len |-> 1]
        OBVIOUS
    <3>2. c = Call(a, w, b)
        BY <2>3, <3>1 DEF Call
    <3>3. c.op = "read" /\ c.dev = DeviceAddr /\ c.at = a /\ c.len = 1
        BY <3>1
    <3>4. IsTransfer(c)
        BY <3>3 DEF IsTransfer, Writes
    <3> QED
        BY <2>1, <2>3, <3>2, <3>3, <3>4
  <2> QED
      BY <2>2, <2>3
<1>3. ASSUME verify.step = 0, i2cBefore' = cells,
             NEW a \in I2cByte, NEW t \in Data \ {0},
             verify' = [step |-> 1, test |-> t, org |-> 0], VerifyCall(a, FALSE, 0)
      PROVE  I2cTyped' /\ VerifySteps' /\ UNCHANGED <<scl, sda, out, eeprom>> /\ fun' # 0 /\ InCallI'
  <2>1. PICK c : IsTransfer(c) /\ Begun(c) /\ c.dev = DeviceAddr /\ c.op = "read"
    <3>1. PICK c : c = [op |-> "read", dev |-> DeviceAddr, at |-> a, bytes |-> <<>>, len |-> 1]
        OBVIOUS
    <3>2. Begun(c)
        BY <1>3, <3>1 DEF VerifyCall
    <3>3. c.op = "read" /\ c.dev = DeviceAddr /\ c.at = a /\ c.len = 1
        BY <3>1
    <3>4. IsTransfer(c)
        BY <1>3, <3>3 DEF IsTransfer, Writes
    <3> QED
        BY <3>2, <3>3, <3>4
  <2>2. transfer' = c /\ UNCHANGED cells
      BY <2>1 DEF Begun
  <2>3. cells' = Base' /\ i2cBefore' \in [I2cByte -> I2cByte]
      BY <1>1, <1>3, <2>2 DEF Base
  <2>4. VerifySteps'
    <3>1. t \in I2cByte
        BY <1>1
    <3>2. verify' \in [step : 0..5, test : I2cByte, org : I2cByte] /\ verify'.step = 1
        BY <1>1, <1>3, <3>1
    <3>3. IsTransfer(transfer)'
        BY <2>1, <2>2 DEF IsTransfer
    <3>4. transfer'.dev = DeviceAddr /\ transfer'.op = "read"
      <4>1. c.dev = DeviceAddr /\ c.op = "read"
          BY <2>1
      <4> QED
          BY <2>2, <4>1
    <3>5. verify'.step \notin {2, 4} /\ ~(verify'.step >= 2)
        BY <3>2
    <3> QED
        BY <3>2, <3>3, <3>4, <3>5 DEF VerifySteps, Steps
  <2> QED
      BY <2>1, <2>3, <2>4, BeginSteps
<1>4. ASSUME verify.step \in 1..4, VerifyPassed, UNCHANGED i2cBefore,
             NEW org, org = (IF verify.step = 1 THEN data[1] ELSE verify.org),
             verify' = [verify EXCEPT !.step = @ + 1, !.org = org],
             VerifyCall(transfer.at, verify.step \in {1, 3},
                        IF verify.step = 1 THEN verify.test ELSE org)
      PROVE  I2cTyped' /\ VerifySteps' /\ UNCHANGED <<scl, sda, out, eeprom>> /\ fun' # 0 /\ InCallI'
  <2>1. /\ success /\ IsTransfer(transfer) /\ transfer.dev = DeviceAddr
        /\ transfer.op = IF verify.step \in {2, 4} THEN "write" ELSE "read"
        /\ verify.step >= 2 => verify.org = i2cBefore[transfer.at]
        /\ verify.step = 2 => transfer.bytes[1] = verify.test
        /\ verify.step = 4 => transfer.bytes[1] = verify.org
      BY <1>1, <1>4 DEF VerifySteps, VerifyPassed
  <2>2. PICK a \in I2cByte : a = transfer.at /\ a = Cell(1)
      BY <2>1, CellRing DEF IsTransfer
  <2>3. transfer.op # "none" /\ transfer.len = 1
      BY <2>1 DEF IsTransfer
  <2>4. /\ verify.step \in {2, 4} => Written(cells, Base, 1)
        /\ verify.step \in {1, 3} => cells = Base /\ Len(data) = 1 /\ data[1] = cells[a]
      BY <1>4, <2>1, <2>2, <2>3 DEF CallOver, Writes
  <2>5. Base \in [I2cByte -> I2cByte] /\ (verify.step \in {1, 2} => Base = i2cBefore)
        /\ (verify.step \in {3, 4} => Base = [i2cBefore EXCEPT ![a] = verify.test])
      BY <1>1, <1>4, <2>2 DEF Base
  <2>6. verify.step \in {2, 4} => cells = [Base EXCEPT ![a] = transfer.bytes[1]]
      BY <1>1, <2>1, <2>2, <2>4, <2>5, WrittenOne
  <2>7. org \in I2cByte /\ org = i2cBefore[a]
    <3>1. CASE verify.step = 1
        BY <1>1, <1>4, <2>2, <2>4, <2>5, <3>1
    <3>2. CASE verify.step # 1
        BY <1>1, <1>4, <2>1, <2>2, <3>2
    <3> QED
        BY <3>1, <3>2
  <2>8. PICK w \in BOOLEAN, b \in I2cByte :
          /\ w = (verify.step \in {1, 3}) /\ b = IF verify.step = 1 THEN verify.test ELSE org
      BY <1>1, <2>7
  <2>9. PICK c : /\ c = Call(a, w, b) /\ Begun(c) /\ IsTransfer(c) /\ c.dev = DeviceAddr /\ c.at = a
                 /\ c.op = (IF w THEN "write" ELSE "read") /\ (w => c.bytes[1] = b)
    <3>1. Begun(Call(a, w, b))
      <4>1. Call(a, w, b) = [op |-> IF verify.step \in {1, 3} THEN "write" ELSE "read",
                             dev |-> DeviceAddr, at |-> transfer.at,
                             bytes |-> IF verify.step \in {1, 3}
                                       THEN <<IF verify.step = 1 THEN verify.test ELSE org>> ELSE <<>>,
                             len |-> 1]
          BY <2>2, <2>8 DEF Call
      <4> QED
          BY <1>4, <4>1 DEF VerifyCall
    <3> QED
        BY <1>2, <3>1
  <2>10. transfer' = c /\ UNCHANGED cells
      BY <2>9 DEF Begun
  <2>11. /\ verify' \in [step : 0..5, test : I2cByte, org : I2cByte] /\ verify'.step = verify.step + 1
         /\ verify'.test = verify.test /\ verify'.org = org
    <3>1. verify \in [step : 0..5, test : I2cByte, org : I2cByte]
        BY <1>1
    <3>2. PICK s \in 1..5 : s = verify.step + 1
        BY <1>4
    <3>3. verify' = [step |-> s, test |-> verify.test, org |-> org]
        BY <1>4, <3>1, <3>2
    <3> QED
        BY <2>7, <3>1, <3>2, <3>3
  <2>12. VerifySteps'
    <3>1. IsTransfer(transfer)'
        BY <2>9, <2>10 DEF IsTransfer
    <3>2. verify'.step = 2 => transfer'.bytes[1] = verify'.test
      <4> SUFFICES ASSUME verify'.step = 2 PROVE transfer'.bytes[1] = verify'.test
          OBVIOUS
      <4>1. verify.step = 1
          BY <1>4, <2>11
      <4>2. w /\ b = verify.test
          BY <2>8, <4>1
      <4> QED
          BY <2>9, <2>10, <2>11, <4>2
    <3>3. verify'.step = 4 => transfer'.bytes[1] = verify'.org
      <4> SUFFICES ASSUME verify'.step = 4 PROVE transfer'.bytes[1] = verify'.org
          OBVIOUS
      <4>1. verify.step = 3
          BY <1>4, <2>11
      <4>2. w
          BY <2>8, <4>1
      <4>3. b = org
          BY <2>8, <4>1
      <4> QED
          BY <2>9, <2>10, <2>11, <4>2, <4>3
    <3>4. transfer'.op = IF verify'.step \in {2, 4} THEN "write" ELSE "read"
      <4>1. w <=> verify.step \in {1, 3}
          BY <2>8
      <4>2. verify'.step \in {2, 4} <=> verify.step \in {1, 3}
          BY <1>4, <2>11
      <4> QED
          BY <2>9, <2>10, <4>1, <4>2
    <3>5. transfer'.dev = DeviceAddr /\ verify'.org = i2cBefore'[transfer'.at]
        BY <1>4, <2>7, <2>9, <2>10, <2>11
    <3> QED
        BY <2>11, <3>1, <3>2, <3>3, <3>4, <3>5 DEF VerifySteps, Steps
  <2>13. cells' = Base'
    <3>1. Base' = IF verify.step \in {2, 3} THEN [i2cBefore EXCEPT ![a] = verify.test] ELSE i2cBefore
      <4>1. Base' = IF verify'.step \in {3, 4} THEN [i2cBefore' EXCEPT ![transfer'.at] = verify'.test]
                                             ELSE i2cBefore'
          BY DEF Base
      <4>2. verify'.step \in {3, 4} <=> verify.step \in {2, 3}
          BY <1>4, <2>11
      <4>3. transfer'.at = a /\ verify'.test = verify.test /\ i2cBefore' = i2cBefore
          BY <1>4, <2>9, <2>10, <2>11
      <4> QED
          BY <4>1, <4>2, <4>3
    <3>2. CASE verify.step = 1
        BY <2>4, <2>5, <2>10, <3>1, <3>2
    <3>3. CASE verify.step = 2
        BY <2>1, <2>5, <2>6, <2>10, <3>1, <3>3
    <3>4. CASE verify.step = 3
        BY <2>4, <2>5, <2>10, <3>1, <3>4
    <3>5. CASE verify.step = 4
      <4>1. cells = [[i2cBefore EXCEPT ![a] = verify.test] EXCEPT ![a] = i2cBefore[a]]
        <5>1. transfer.bytes[1] = i2cBefore[a]
            BY <2>1, <2>2, <3>5
        <5>2. Base = [i2cBefore EXCEPT ![a] = verify.test]
            BY <2>5, <3>5
        <5>3. cells = [Base EXCEPT ![a] = transfer.bytes[1]]
            BY <2>6, <3>5
        <5> QED
            BY <5>1, <5>2, <5>3
      <4>2. cells = i2cBefore
          BY <1>1, <4>1
      <4> QED
          BY <2>10, <3>1, <3>5, <4>2
    <3> QED
        BY <1>4, <3>2, <3>3, <3>4, <3>5
  <2> QED
      BY <1>1, <1>4, <2>9, <2>12, <2>13, BeginSteps
<1>5. ASSUME verify.step \in 1..5, verify.step = 5 \/ ~VerifyPassed,
             verify' = NoVerify, transfer' = NoCall, success' = VerifyPassed,
             UNCHANGED <<scl, sda, out, fun, line, turn, data, eeprom, cells, i2cBefore>>
      PROVE  /\ I2cTyped' /\ VerifySteps' /\ UNCHANGED <<scl, sda, out, eeprom>>
             /\ fun' = 0 /\ CallOver'
             /\ success' => cells = i2cBefore
  <2>1. VerifyPassed \in BOOLEAN
      BY DEF VerifyPassed, I2cTyped
  <2>2. I2cTyped'
      BY <1>5, <2>1 DEF I2cTyped
  <2>3. VerifySteps'
      BY <1>1, <1>5 DEF VerifySteps, NoVerify, Steps
  <2>4. CallOver'
      BY <1>5 DEF CallOver, BusRest, NoCall
  <2>5. ASSUME success' PROVE cells = i2cBefore
    <3>1. verify.step = 5 /\ success
        BY <1>5, <2>5 DEF VerifyPassed
    <3>2. transfer.op = "read" /\ Base = i2cBefore
        BY <3>1 DEF VerifySteps, Base
    <3> QED
        BY <3>2 DEF CallOver, Writes
  <2> QED
      BY <1>5, <2>2, <2>3, <2>4, <2>5
<1>6. CASE /\ verify.step = 0 /\ i2cBefore' = cells
           /\ \E a \in I2cByte, t \in Data \ {0} :
                verify' = [step |-> 1, test |-> t, org |-> 0] /\ VerifyCall(a, FALSE, 0)
    BY <1>3, <1>6
<1>7. CASE /\ verify.step \in 1..4 /\ VerifyPassed /\ UNCHANGED i2cBefore
           /\ LET org == IF verify.step = 1 THEN data[1] ELSE verify.org
              IN /\ verify' = [verify EXCEPT !.step = @ + 1, !.org = org]
                 /\ VerifyCall(transfer.at, verify.step \in {1, 3},
                               IF verify.step = 1 THEN verify.test ELSE org)
  <2>1. PICK org : org = IF verify.step = 1 THEN data[1] ELSE verify.org
      OBVIOUS
  <2>2. /\ verify' = [verify EXCEPT !.step = @ + 1, !.org = org]
        /\ VerifyCall(transfer.at, verify.step \in {1, 3},
                      IF verify.step = 1 THEN verify.test ELSE org)
      BY <1>7, <2>1
  <2>3. verify'.step # 0
      BY <1>1, <1>7, <2>2
  <2>4. I2cTyped' /\ VerifySteps' /\ UNCHANGED <<scl, sda, out, eeprom>> /\ fun' # 0 /\ InCallI'
      BY <1>4, <1>7, <2>1, <2>2
  <2> QED
      BY <2>3, <2>4
<1>8. CASE /\ verify.step \in 1..5 /\ (verify.step = 5 \/ ~VerifyPassed)
           /\ verify' = NoVerify /\ transfer' = NoCall /\ success' = VerifyPassed
           /\ UNCHANGED <<scl, sda, out, fun, line, turn, data, eeprom, cells, i2cBefore>>
    BY <1>5, <1>8
<1>9. Steps = 5 /\ Steps - 1 = 4
    BY DEF Steps
<1> QED
    BY <1>6, <1>7, <1>8, <1>9 DEF I2cVerify

LEMMA I2cInitInv == PowersAssumed /\ I2cInit => I2cInv
<1> SUFFICES ASSUME PowersAssumed, I2cInit PROVE I2cInv
    OBVIOUS
<1>1. 0 \in I2cByte /\ cells \in [I2cByte -> I2cByte] /\ Bits \in Nat
    BY ZeroByte, I2cAssumption DEF I2cInit
<1>2. eeprom \in Eeproms
    BY <1>1 DEF I2cInit, Eeproms
<1>3. I2cTyped
    BY <1>1, <1>2 DEF I2cInit, I2cTyped
<1>4. VerifySteps
    BY <1>1 DEF I2cInit, VerifySteps, NoVerify, Steps
<1>5. CallOver
    BY DEF I2cInit, CallOver, BusRest, NoCall
<1> QED
    BY <1>3, <1>4, <1>5 DEF I2cInit, I2cInv

(* The steps of SdaStable and of VerifyRestores.                           *)
Conditions == scl = 1 /\ scl' = 1 /\ Sda' # Sda =>
                line # 0 /\ Running.fn = IF Sda' = 0 THEN "start" ELSE "stop"
Restores == verify.step # 0 /\ verify'.step = 0 /\ success' => cells = i2cBefore

LEMMA I2cInvStep ==
    PowersAssumed /\ I2cInv /\ [I2cNext]_i2cVars => I2cInv' /\ Conditions /\ Restores
<1> SUFFICES ASSUME PowersAssumed, I2cInv, [I2cNext]_i2cVars PROVE I2cInv' /\ Conditions /\ Restores
    OBVIOUS
<1>1. I2cTyped /\ VerifySteps /\ IF fun = 0 THEN CallOver ELSE InCallI
    BY DEF I2cInv
<1>2. UNCHANGED <<sda, out, eeprom>> => Conditions
    BY DEF Conditions, Sda
<1>3. UNCHANGED <<transfer, i2cBefore, verify>> => VerifySteps' /\ Restores
    BY <1>1 DEF VerifySteps, IsTransfer, Restores
<1>4. CASE I2cRequest
  <2>1. fun = 0 /\ UNCHANGED verify
      BY <1>4 DEF I2cRequest, Ready
  <2>2. I2cTyped' /\ VerifySteps' /\ fun' # 0 /\ InCallI' /\ UNCHANGED <<scl, sda, out, eeprom>>
      BY <1>1, <1>4, <2>1, RequestSteps
  <2>3. Restores
      BY <2>1 DEF Restores
  <2> QED
      BY <1>2, <2>2, <2>3 DEF I2cInv
<1>5. CASE I2cVerify
  <2>1. fun = 0
      BY <1>5 DEF I2cVerify, Ready
  <2>2. /\ I2cTyped' /\ VerifySteps' /\ UNCHANGED <<scl, sda, out, eeprom>>
        /\ IF fun' = 0 THEN CallOver' ELSE InCallI'
        /\ verify.step # 0 /\ verify'.step = 0 /\ success' => cells = i2cBefore
      BY <1>1, <1>5, <2>1, VerifyInv
  <2> QED
      BY <1>2, <2>2 DEF I2cInv, Restores
<1>6. CASE Function
  <2>1. InCallI
      BY <1>1, <1>6 DEF Function
  <2>2. /\ I2cTyped' /\ InCallI' /\ fun' # 0
        /\ UNCHANGED <<scl, sda, out, eeprom, transfer, cells, i2cBefore, verify>>
      BY <1>1, <1>6, <2>1, FunctionSteps
  <2> QED
      BY <1>2, <1>3, <2>2 DEF I2cInv
<1>7. CASE Port
  <2>1. InCallI
      BY <1>1, <1>7 DEF Port, CallOver
  <2>2. /\ I2cTyped' /\ UNCHANGED <<transfer, i2cBefore, verify>>
        /\ IF fun' = 0 THEN CallOver' ELSE InCallI'
        /\ Quiet \/ (line # 0 /\ Running.fn = IF Sda' = 0 THEN "start" ELSE "stop")
      BY <1>1, <1>7, <2>1, PortSteps
  <2>3. Conditions
      BY <2>2 DEF Conditions, Quiet
  <2> QED
      BY <1>3, <2>2, <2>3 DEF I2cInv
<1>8. CASE UNCHANGED i2cVars
  <2>1. UNCHANGED <<scl, sda, out, fun, line, turn, success, data, transfer, eeprom, cells,
                    i2cBefore, verify>>
      BY <1>8 DEF i2cVars, master
  <2>2. Conditions /\ VerifySteps' /\ Restores
      BY <1>2, <1>3, <2>1
  <2>3. I2cTyped'
      BY <1>1, <2>1 DEF I2cTyped
  <2>4. CASE fun = 0
    <3>1. /\ Base' = Base /\ \A i : Cell(i)' = Cell(i)
          /\ \A m, c, n : Written(m, c, n)' <=> Written(m, c, n)
        BY <2>1, Steady
    <3>2. CallOver
        BY <1>1, <2>4
    <3>3. IsTransfer(transfer)' <=> IsTransfer(transfer)
        BY <2>1 DEF IsTransfer
    <3>4. CallOver'
        BY <2>1, <3>1, <3>2, <3>3 DEF CallOver, BusRest
    <3> QED
        BY <2>1, <2>2, <2>3, <2>4, <3>4 DEF I2cInv
  <2>5. CASE fun # 0
    <3>1. InCallI' <=> InCallI
        BY <2>1 DEF InCallI, IsTransfer, LastFun, Base, FunEntry, BusRest, Between, Well, Device, GotBy,
                    ReadBy, Written, Cell, Puts, BitOf, Within, InStart, InStop, InWrite, InRead,
                    Running, ScriptOf, Shifted, Answered, Sent, Knows, Prefix, WriteScript, ReadScript
    <3> QED
        BY <1>1, <2>1, <2>2, <2>3, <2>5, <3>1 DEF I2cInv
  <2> QED
      BY <2>4, <2>5
<1> QED
    BY <1>4, <1>5, <1>6, <1>7, <1>8 DEF I2cNext

(* What the invariant says of the bus and of a call that has returned.     *)
LEMMA I2cInvBus ==
    PowersAssumed /\ I2cInv => NoContention /\ BusReleased /\ TransferTrue /\ I2cTypeOK
<1> SUFFICES ASSUME PowersAssumed, I2cInv
             PROVE  NoContention /\ BusReleased /\ TransferTrue /\ I2cTypeOK
    OBVIOUS
<1>1. I2cTyped /\ VerifySteps /\ IF fun = 0 THEN CallOver ELSE InCallI
    BY DEF I2cInv
<1>2. I2cTypeOK
  <2>1. /\ {scl, sda} \subseteq {0, 1} /\ out \in BOOLEAN /\ success \in BOOLEAN
        /\ cells \in [I2cByte -> I2cByte] /\ data \in Seq(I2cByte) /\ eeprom \in Eeproms
      BY <1>1 DEF I2cTyped
  <2>2. \A i \in DOMAIN data : data[i] \in I2cByte
      BY <2>1
  <2>3. eeprom.ptr \in I2cByte /\ eeprom.state \in Listening \union {"idle", "send"}
        /\ eeprom.n <= Bits + 1
      BY <2>1, I2cAssumption DEF Eeproms
  <2>4. verify.step \in 0..5
      BY <1>1 DEF VerifySteps, Steps
  <2> QED
      BY <2>1, <2>2, <2>3, <2>4 DEF I2cTypeOK
<1>3. CASE fun = 0
  <2>1. CallOver
      BY <1>1, <1>3
  <2>2. BusReleased
      BY <2>1 DEF CallOver, BusRest, BusReleased, Sda, Wire
  <2>3. NoContention
      BY <2>1 DEF CallOver, BusRest, NoContention
  <2>4. TransferTrue
    <3> SUFFICES ASSUME transfer.op # "none", verify.step = 0
                 PROVE  /\ transfer.op \in {"write", "mwrite"} /\ success =>
                             Written(cells, i2cBefore, transfer.len)
                        /\ transfer.op \in {"read", "mread"} =>
                             /\ cells = i2cBefore
                             /\ success => data = [i \in 1..transfer.len |-> cells[Cell(i)]]
                        /\ transfer.op = "write" /\ ~success => cells = i2cBefore
        BY DEF TransferTrue
    <3>1. Base = i2cBefore
        BY DEF Base
    <3>2. /\ IsTransfer(transfer)
          /\ IF success /\ transfer.op \in Writes THEN Written(cells, i2cBefore, transfer.len)
             ELSE cells = i2cBefore
          /\ success /\ transfer.op \notin Writes =>
               Len(data) = transfer.len /\ \A i \in 1..transfer.len : data[i] = cells[Cell(i)]
        BY <2>1, <3>1 DEF CallOver
    <3>3. ASSUME transfer.op \in {"read", "mread"}, success
          PROVE  data = [i \in 1..transfer.len |-> cells[Cell(i)]]
      <4>1. Len(data) = transfer.len /\ \A i \in 1..transfer.len : data[i] = cells[Cell(i)]
          BY <3>2, <3>3 DEF Writes
      <4>2. data \in Seq(I2cByte)
          BY <1>1 DEF I2cTyped
      <4> QED
          BY <4>1, <4>2
    <3> QED
        BY <3>2, <3>3 DEF Writes
  <2> QED
      BY <1>2, <2>2, <2>3, <2>4
<1>4. CASE fun # 0
  <2>1. BusReleased /\ TransferTrue
      BY <1>4 DEF BusReleased, TransferTrue, Ready
  <2>2. ASSUME FunEntry(fun) PROVE NoContention
      BY <2>2 DEF FunEntry, BusRest, Between, NoContention
  <2>3. CASE line = 0
      BY <1>1, <1>2, <1>4, <2>1, <2>2, <2>3 DEF InCallI
  <2>4. CASE line # 0
    <3>1. Within /\ IsTransfer(transfer)
        BY <1>1, <1>4, <2>4 DEF InCallI
    <3>2. ASSUME InStart PROVE NoContention
        BY <2>2, <3>2 DEF InStart, NoContention
    <3>3. ASSUME InStop PROVE NoContention
        BY <3>3 DEF InStop, NoContention, Between
    <3>4. ASSUME InWrite PROVE NoContention
      <4>1. scl = 1 => ~eeprom.pull \/ ~out
          BY <3>4 DEF InWrite, Between, Shifted
      <4> QED
          BY <4>1 DEF NoContention
    <3>5. ASSUME InRead PROVE NoContention
      <4>1. scl = 1 => ~eeprom.pull \/ ~out
          BY <3>5 DEF InRead, Between
      <4> QED
          BY <4>1 DEF NoContention
    <3>6. InStart \/ InStop \/ InWrite \/ InRead
      <4>1. fun \in 1..LastFun
          BY <1>1, <1>4 DEF InCallI
      <4>2. Running.fn \in {"start", "stop", "write", "read"}
          BY <3>1, <4>1, ScriptAt DEF IsStart, IsStop, IsWrite, IsRead
      <4> QED
          BY <3>1, <4>2 DEF Within
    <3> QED
        BY <1>2, <2>1, <3>2, <3>3, <3>4, <3>5, <3>6
  <2> QED
      BY <2>3, <2>4
<1> QED
    BY <1>3, <1>4

(* The bus protocol is kept in every transfer, also a refused one, and the *)
(* bus is left free: the properties of the model.                          *)
THEOREM BusKeptAlways == PowersAssumed /\ I2cSpec => BusKept
<1> SUFFICES ASSUME PowersAssumed PROVE I2cSpec => BusKept
    OBVIOUS
<1>1. I2cInit => I2cInv
    BY I2cInitInv
<1>2. I2cInv /\ [I2cNext]_i2cVars => I2cInv'
    BY I2cInvStep
<1>3. I2cInv /\ [I2cNext]_i2cVars =>
        [scl = 1 /\ scl' = 1 /\ Sda' # Sda =>
           /\ line # 0 /\ Running.fn = IF Sda' = 0 THEN "start" ELSE "stop"]_i2cVars
    BY I2cInvStep DEF Conditions
<1>4. I2cInv => NoContention /\ BusReleased
    BY I2cInvBus
<1> QED
    BY <1>1, <1>2, <1>3, <1>4, PTL DEF I2cSpec, SdaStable, BusKept

(* A transfer that reports success did what was asked, one that fails      *)
(* nothing else, and a verification that passes has put back what it found.*)
THEOREM TransfersTrueAlways == PowersAssumed /\ I2cSpec => TransfersTrue
<1> SUFFICES ASSUME PowersAssumed PROVE I2cSpec => TransfersTrue
    OBVIOUS
<1>1. I2cInit => I2cInv
    BY I2cInitInv
<1>2. I2cInv /\ [I2cNext]_i2cVars => I2cInv'
    BY I2cInvStep
<1>3. I2cInv /\ [I2cNext]_i2cVars =>
        [verify.step # 0 /\ verify'.step = 0 /\ success' => cells = i2cBefore]_i2cVars
    BY I2cInvStep DEF Restores
<1>4. I2cInv => TransferTrue
    BY I2cInvBus
<1> QED
    BY <1>1, <1>2, <1>3, <1>4, PTL DEF I2cSpec, VerifyRestores, TransfersTrue

(* The same for the bytes of the source, with nothing assumed.             *)
THEOREM EightBitBus == Bits = 8 /\ I2cSpec => BusKept /\ TransfersTrue /\ []I2cTypeOK
<1> SUFFICES ASSUME Bits = 8 PROVE I2cSpec => BusKept /\ TransfersTrue /\ []I2cTypeOK
    OBVIOUS
<1>1. PowersAssumed
    BY EightBits
<1>2. I2cSpec => BusKept /\ TransfersTrue
    BY <1>1, BusKeptAlways, TransfersTrueAlways
<1>3. I2cInit => I2cInv
    BY <1>1, I2cInitInv
<1>4. I2cInv /\ [I2cNext]_i2cVars => I2cInv'
    BY <1>1, I2cInvStep
<1>5. I2cInv => I2cTypeOK
    BY <1>1, I2cInvBus
<1> QED
    BY <1>2, <1>3, <1>4, <1>5, PTL DEF I2cSpec
===============================================================================
