---------------------------- MODULE EpcsFlash_proofs ----------------------------
(***************************************************************************)
(* Proofs about the flash driver and its device, for every geometry,       *)
(* device, contents, call and point of a reset.                            *)
(*                                                                         *)
(* The argument.  ModesInv counts the commands a function has left from    *)
(* its end: that gives the mode the device is in (OnScript), so that no    *)
(* command goes to a device that does not take it.  FlashInv then looks at *)
(* the flash as it will be: with the commands that are left carried out,   *)
(* what it holds (Outcome) is what it must hold at this place of the       *)
(* driver (Stage), and no sector outside the call has changed, at any      *)
(* moment (Untouched).                                                     *)
(***************************************************************************)
EXTENDS EpcsFlash, SequenceTheorems, TLAPS
-----------------------------------------------------------------------------
(* The mode of the device.                                                 *)

(* The commands of a function, each place with those it may have.          *)
LongWrite == <<{"wren"}, {"en4b"}, {"wren"}, {"se", "pp"}, {"rdsr"}, {"wren"}, {"dis4b"}>>
LongRead == <<{"wren"}, {"en4b"}, {"rdsr"}, {"read"}, {"wren"}, {"dis4b"}>>
ShortWrite == <<{"wren"}, {"se", "pp"}, {"rdsr"}>>
ShortRead == <<{"rdsr"}, {"read"}>>

(* What is left of a function, counted from its end.                       *)
Follows(q, s) ==
    Len(q) <= Len(s) /\ \A i \in 1..Len(q) : q[i].cmd \in s[Len(s) - Len(q) + i]

(* The mode of the device with n commands left of a function.              *)
InLongWrite(n) == (n # 3 => ~chip.wip) /\ (n \in {6, 4, 1} => chip.wel) /\ (n \in 2..5 => chip.four)
InLongRead(n) == ~chip.wip /\ (n \in {5, 1} => chip.wel) /\ (n \in 2..4 => chip.four)
InShortWrite(n) == (n # 1 => ~chip.wip) /\ (n = 2 => chip.wel)
InShortRead(n) == ~chip.wip

(* The commands left and the mode of the device belong together, wherever  *)
(* in the function the driver is.                                          *)
OnScript ==
    \/ chip.long /\ Follows(cmds, LongWrite) /\ InLongWrite(Len(cmds))
    \/ chip.long /\ Follows(cmds, LongRead) /\ InLongRead(Len(cmds))
    \/ ~chip.long /\ Follows(cmds, ShortWrite) /\ InShortWrite(Len(cmds))
    \/ ~chip.long /\ Follows(cmds, ShortRead) /\ InShortRead(Len(cmds))

ChipTyped == chip \in [mem : [Addr -> FlashByte], wip : BOOLEAN, wel : BOOLEAN, four : BOOLEAN,
                       long : BOOLEAN, byId : BOOLEAN]
IsCommands(q) == \E S : q \in Seq(S)

(* Only a driver that found its device has commands to send it; between    *)
(* two functions the device is ready, and in three byte mode unless a      *)
(* reset has left it in the other.                                         *)
ModesRest ==
    /\ ChipTyped /\ resets \in Nat /\ found \in BOOLEAN
    /\ chip.four => chip.long
    /\ phase \in {"idle", "compare", "pages", "blocks", "last", "res", "rdid"}
    /\ found => phase \notin {"res", "rdid"}
    /\ ~found => cmds = <<>> /\ phase \in {"res", "rdid", "idle"} /\ verified # "running"
    /\ phase \in {"idle", "blocks"} => cmds = <<>>
    /\ cmds = <<>> => (found => ~chip.wip) /\ (resets = 0 => ~chip.four)

ModesInv == ModesRest /\ IsCommands(cmds) /\ (cmds # <<>> => OnScript)

(* The beginning of a function: its first n commands.                      *)
Spells(S, q, f, n) == q \in Seq(S) /\ Len(q) = n /\ \A i \in 1..n : q[i].cmd \in f[i]

(* A command that stands alone, of the kind that may be at place m.        *)
Alone(S, q, f, m) == q \in Seq(S) /\ Len(q) = 1 /\ q[1].cmd \in f[m]

(* One command more.                                                       *)
LEMMA OneMore ==
    ASSUME NEW S, NEW q, NEW p, NEW f, NEW n \in Nat, NEW m, m = n + 1,
           Spells(S, q, f, n), Alone(S, p, f, m)
    PROVE  Spells(S, q \o p, f, m)
<1>1. /\ q \in Seq(S) /\ Len(q) = n /\ \A i \in 1..n : q[i].cmd \in f[i]
      /\ p \in Seq(S) /\ Len(p) = 1 /\ p[1].cmd \in f[m]
    BY DEF Spells, Alone
<1>2. /\ q \o p \in Seq(S) /\ Len(q \o p) = m
      /\ \A i \in 1..m : (q \o p)[i] = IF i <= n THEN q[i] ELSE p[i - n]
  <2>1. /\ q \o p \in Seq(S) /\ Len(q \o p) = Len(q) + Len(p)
        /\ \A i \in 1..(Len(q) + Len(p)) : (q \o p)[i] = IF i <= Len(q) THEN q[i] ELSE p[i - Len(q)]
      BY <1>1, ConcatProperties
  <2> QED
      BY <1>1, <2>1
<1>3. (q \o p)[m] = p[1] /\ \A i \in 1..n : (q \o p)[i] = q[i]
    BY <1>1, <1>2
<1>4. ASSUME NEW i \in 1..m PROVE (q \o p)[i].cmd \in f[i]
  <2>1. CASE i = m
      BY <1>1, <1>3, <2>1
  <2>2. CASE i # m
    <3>1. i \in 1..n
        BY <2>2
    <3> QED
        BY <1>1, <1>3, <3>1
  <2> QED
      BY <2>1, <2>2
<1> QED
    BY <1>2, <1>4 DEF Spells

(* Two commands more, and none.                                            *)
LEMMA TwoMore ==
    ASSUME NEW S, NEW q, NEW p, NEW r, NEW f, NEW n \in Nat, NEW m, NEW k, m = n + 1, k = m + 1,
           Spells(S, q, f, n), Alone(S, p, f, m), Alone(S, r, f, k)
    PROVE  Spells(S, q \o (p \o r), f, k)
<1>1. m \in Nat
    OBVIOUS
<1>2. Spells(S, q \o p, f, m)
    BY OneMore
<1>3. Spells(S, (q \o p) \o r, f, k)
    BY <1>1, <1>2, OneMore
<1>4. (q \o p) \o r = q \o (p \o r)
  <2> q \in Seq(S) /\ p \in Seq(S) /\ r \in Seq(S)
      BY DEF Spells, Alone
  <2> QED
      BY ConcatAssociative
<1> QED
    BY <1>3, <1>4

(* The simple commands stand alone, among those a function sends.          *)
LEMMA AloneCommands ==
    ASSUME NEW c
    PROVE  \E S : /\ WriteEnable \in Seq(S) /\ Len(WriteEnable) = 1 /\ WriteEnable[1].cmd = "wren"
                  /\ Await \in Seq(S) /\ Len(Await) = 1 /\ Await[1].cmd = "rdsr"
                  /\ Cmd("en4b") \in Seq(S) /\ Len(Cmd("en4b")) = 1 /\ Cmd("en4b")[1].cmd = "en4b"
                  /\ Cmd("dis4b") \in Seq(S) /\ Len(Cmd("dis4b")) = 1 /\ Cmd("dis4b")[1].cmd = "dis4b"
                  /\ <<c>> \in Seq(S) /\ Len(<<c>>) = 1 /\ <<c>>[1] = c
<1> DEFINE N(x) == [cmd |-> x, at |-> 0, data |-> <<>>, n |-> 0]
           S == {N("wren"), N("en4b"), N("dis4b"), N("rdsr"), c}
<1>1. ASSUME NEW x \in {"wren", "en4b", "dis4b", "rdsr"}
      PROVE  Cmd(x) \in Seq(S) /\ Len(Cmd(x)) = 1 /\ Cmd(x)[1].cmd = x
  <2>1. Cmd(x) = <<N(x)>> /\ N(x) \in S /\ N(x).cmd = x
      BY DEF Cmd
  <2> HIDE DEF S, N
  <2> QED
      BY <2>1
<1>2. <<c>> \in Seq(S) /\ Len(<<c>>) = 1 /\ <<c>>[1] = c
    OBVIOUS
<1> HIDE DEF S
<1> QED
    BY <1>1, <1>2 DEF WriteEnable, Await

(* A function from its beginning to its end.                               *)
Whole(q, f) == IsCommands(q) /\ q # <<>> /\ Len(q) = Len(f) /\ Follows(q, f)

(* What is spelled out to its end is a whole function.                     *)
LEMMA Spelled ==
    ASSUME NEW S, NEW q, NEW f, NEW n \in Nat \ {0}, Len(f) = n, Spells(S, q, f, n)
    PROVE  Whole(q, f)
<1>1. q \in Seq(S) /\ Len(q) = n /\ \A i \in 1..n : q[i].cmd \in f[i]
    BY DEF Spells
<1>2. q # <<>>
    BY <1>1
<1>3. \A i \in 1..n : n - n + i = i
    OBVIOUS
<1>4. Follows(q, f)
    BY <1>1, <1>3 DEF Follows
<1> QED
    BY <1>1, <1>2, <1>4 DEF IsCommands, Whole

(* The functions that write: they unlatch, write and wait, in four byte    *)
(* mode where the device is that long.                                     *)
LEMMA WriteScripts ==
    ASSUME NEW c, c.cmd \in {"se", "pp"}
    PROVE  LET q == Enter4 \o WriteEnable \o <<c>> \o Await \o Exit4
           IN /\ chip.long => Whole(q, LongWrite)
              /\ ~chip.long => Whole(q, ShortWrite)
<1> DEFINE w == WriteEnable
           e == Cmd("en4b")
           d == Cmd("dis4b")
           r == Await
           z == <<c>>
           q == Enter4 \o WriteEnable \o <<c>> \o Await \o Exit4
<1>1. PICK S : /\ w \in Seq(S) /\ Len(w) = 1 /\ w[1].cmd = "wren"
               /\ r \in Seq(S) /\ Len(r) = 1 /\ r[1].cmd = "rdsr"
               /\ e \in Seq(S) /\ Len(e) = 1 /\ e[1].cmd = "en4b"
               /\ d \in Seq(S) /\ Len(d) = 1 /\ d[1].cmd = "dis4b"
               /\ z \in Seq(S) /\ Len(z) = 1 /\ z[1].cmd \in {"se", "pp"}
  <2>1. z[1] = c
      OBVIOUS
  <2> HIDE DEF w, r, e, d, z
  <2> QED
      BY <2>1, AloneCommands DEF w, r, e, d, z
<1>2. q = ((((Enter4 \o w) \o z) \o r) \o Exit4)
    OBVIOUS
<1>3. Enter4 = (IF chip.long THEN w \o e ELSE <<>>) /\ Exit4 = (IF chip.long THEN w \o d ELSE <<>>)
    BY DEF Enter4, Exit4
<1> HIDE DEF w, e, d, r, z, q
<1>5. CASE chip.long
  <2> DEFINE f == LongWrite
  <2>1. q = (((((w \o e) \o w) \o z) \o r) \o (w \o d))
      BY <1>2, <1>3, <1>5
  <2>2. /\ Spells(S, w, f, 1) /\ Alone(S, e, f, 2) /\ Alone(S, w, f, 3) /\ Alone(S, z, f, 4)
        /\ Alone(S, r, f, 5) /\ Alone(S, w, f, 6) /\ Alone(S, d, f, 7)
      BY <1>1 DEF Spells, Alone, LongWrite
  <2> HIDE DEF f
  <2>3. Spells(S, w \o e, f, 2)
      BY <2>2, OneMore
  <2>4. Spells(S, (w \o e) \o w, f, 3)
      BY <2>2, <2>3, OneMore
  <2>5. Spells(S, ((w \o e) \o w) \o z, f, 4)
      BY <2>2, <2>4, OneMore
  <2>6. Spells(S, (((w \o e) \o w) \o z) \o r, f, 5)
      BY <2>2, <2>5, OneMore
  <2>7. Spells(S, q, f, 7)
      BY <2>1, <2>2, <2>6, TwoMore
  <2>8. Len(f) = 7 /\ 7 \in Nat \ {0}
      BY DEF f, LongWrite
  <2>9. Whole(q, f)
      BY <2>7, <2>8, Spelled
  <2> QED
      BY <1>5, <2>9 DEF q, f
<1>6. CASE ~chip.long
  <2> DEFINE f == ShortWrite
  <2>1. q = (((<<>> \o w) \o z) \o r) \o <<>>
      BY <1>2, <1>3, <1>6
  <2>2. Spells(S, w, f, 1) /\ Alone(S, z, f, 2) /\ Alone(S, r, f, 3)
      BY <1>1 DEF Spells, Alone, ShortWrite
  <2> HIDE DEF f
  <2>3. <<>> \o w = w
      BY <1>1, ConcatEmptySeq
  <2>4. Spells(S, w \o z, f, 2)
      BY <2>2, OneMore
  <2>5. Spells(S, (w \o z) \o r, f, 3)
      BY <2>2, <2>4, OneMore
  <2>6. ((w \o z) \o r) \o <<>> = (w \o z) \o r
      BY <2>5, ConcatEmptySeq DEF Spells
  <2>7. Spells(S, q, f, 3)
      BY <2>1, <2>3, <2>5, <2>6
  <2>8. Len(f) = 3 /\ 3 \in Nat \ {0}
      BY DEF f, ShortWrite
  <2>9. Whole(q, f)
      BY <2>7, <2>8, Spelled
  <2> QED
      BY <1>6, <2>9 DEF q, f
<1> QED
    BY <1>5, <1>6

(* The functions that read: they wait and read.                            *)
LEMMA ReadScripts ==
    ASSUME NEW c, c.cmd = "read"
    PROVE  LET q == Enter4 \o Await \o <<c>> \o Exit4
           IN /\ chip.long => Whole(q, LongRead)
              /\ ~chip.long => Whole(q, ShortRead)
<1> DEFINE w == WriteEnable
           e == Cmd("en4b")
           d == Cmd("dis4b")
           r == Await
           z == <<c>>
           q == Enter4 \o Await \o <<c>> \o Exit4
<1>1. PICK S : /\ w \in Seq(S) /\ Len(w) = 1 /\ w[1].cmd = "wren"
               /\ r \in Seq(S) /\ Len(r) = 1 /\ r[1].cmd = "rdsr"
               /\ e \in Seq(S) /\ Len(e) = 1 /\ e[1].cmd = "en4b"
               /\ d \in Seq(S) /\ Len(d) = 1 /\ d[1].cmd = "dis4b"
               /\ z \in Seq(S) /\ Len(z) = 1 /\ z[1].cmd = "read"
  <2>1. z[1] = c
      OBVIOUS
  <2> HIDE DEF w, r, e, d, z
  <2> QED
      BY <2>1, AloneCommands DEF w, r, e, d, z
<1>2. q = ((Enter4 \o r) \o z) \o Exit4
    OBVIOUS
<1>3. Enter4 = (IF chip.long THEN w \o e ELSE <<>>) /\ Exit4 = (IF chip.long THEN w \o d ELSE <<>>)
    BY DEF Enter4, Exit4
<1> HIDE DEF w, e, d, r, z, q
<1>5. CASE chip.long
  <2> DEFINE f == LongRead
  <2>1. q = (((w \o e) \o r) \o z) \o (w \o d)
      BY <1>2, <1>3, <1>5
  <2>2. /\ Spells(S, w, f, 1) /\ Alone(S, e, f, 2) /\ Alone(S, r, f, 3) /\ Alone(S, z, f, 4)
        /\ Alone(S, w, f, 5) /\ Alone(S, d, f, 6)
      BY <1>1 DEF Spells, Alone, LongRead
  <2> HIDE DEF f
  <2>3. Spells(S, w \o e, f, 2)
      BY <2>2, OneMore
  <2>4. Spells(S, (w \o e) \o r, f, 3)
      BY <2>2, <2>3, OneMore
  <2>5. Spells(S, ((w \o e) \o r) \o z, f, 4)
      BY <2>2, <2>4, OneMore
  <2>6. Spells(S, q, f, 6)
      BY <2>1, <2>2, <2>5, TwoMore, SMTT(30)
  <2>7. Len(f) = 6 /\ 6 \in Nat \ {0}
      BY DEF f, LongRead
  <2>8. Whole(q, f)
      BY <2>6, <2>7, Spelled
  <2> QED
      BY <1>5, <2>8 DEF q, f
<1>6. CASE ~chip.long
  <2> DEFINE f == ShortRead
  <2>1. q = ((<<>> \o r) \o z) \o <<>>
      BY <1>2, <1>3, <1>6
  <2>2. Spells(S, r, f, 1) /\ Alone(S, z, f, 2)
      BY <1>1 DEF Spells, Alone, ShortRead
  <2> HIDE DEF f
  <2>3. <<>> \o r = r
      BY <1>1, ConcatEmptySeq
  <2>4. Spells(S, r \o z, f, 2)
      BY <2>2, OneMore
  <2>5. (r \o z) \o <<>> = r \o z
      BY <2>4, ConcatEmptySeq DEF Spells
  <2>6. Spells(S, q, f, 2)
      BY <2>1, <2>3, <2>4, <2>5
  <2>7. Len(f) = 2 /\ 2 \in Nat \ {0}
      BY DEF f, ShortRead
  <2>8. Whole(q, f)
      BY <2>6, <2>7, Spelled
  <2> QED
      BY <1>6, <2>8 DEF q, f
<1> QED
    BY <1>5, <1>6

(* Where a function begins: its commands, and the mode it needs.           *)
Began(q) == \/ chip.long /\ (Whole(q, LongWrite) \/ Whole(q, LongRead))
            \/ ~chip.long /\ (Whole(q, ShortWrite) \/ Whole(q, ShortRead))

(* The functions of the driver.                                            *)
LEMMA FunctionsBegin ==
    ASSUME ChipTyped
    PROVE  /\ \A a : Began(SectorErase(a))
           /\ \A a, d : Began(WriteBuffer(a, d))
           /\ \A a, n : Began(ReadBuffer(a, n))
<1>0. chip.long \in BOOLEAN
    BY DEF ChipTyped
<1>1. ASSUME NEW a PROVE Began(SectorErase(a))
  <2> DEFINE c == [cmd |-> "se", at |-> a, data |-> <<>>, n |-> 0]
             q == Enter4 \o WriteEnable \o <<c>> \o Await \o Exit4
  <2>1. SectorErase(a) = q
      BY DEF SectorErase, At
  <2>2. c.cmd \in {"se", "pp"}
      OBVIOUS
  <2> HIDE DEF c
  <2>3. /\ chip.long => Whole(q, LongWrite)
        /\ ~chip.long => Whole(q, ShortWrite)
      BY <2>2, WriteScripts
  <2> HIDE DEF q
  <2> QED
      BY <1>0, <2>1, <2>3 DEF Began
<1>2. ASSUME NEW a, NEW d PROVE Began(WriteBuffer(a, d))
  <2> DEFINE c == [cmd |-> "pp", at |-> a, data |-> d, n |-> 0]
             q == Enter4 \o WriteEnable \o <<c>> \o Await \o Exit4
  <2>1. WriteBuffer(a, d) = q
      BY DEF WriteBuffer, At
  <2>2. c.cmd \in {"se", "pp"}
      OBVIOUS
  <2> HIDE DEF c
  <2>3. /\ chip.long => Whole(q, LongWrite)
        /\ ~chip.long => Whole(q, ShortWrite)
      BY <2>2, WriteScripts
  <2> HIDE DEF q
  <2> QED
      BY <1>0, <2>1, <2>3 DEF Began
<1>3. ASSUME NEW a, NEW n PROVE Began(ReadBuffer(a, n))
  <2> DEFINE c == [cmd |-> "read", at |-> a, data |-> <<>>, n |-> n]
             q == Enter4 \o Await \o <<c>> \o Exit4
  <2>1. ReadBuffer(a, n) = q
      BY DEF ReadBuffer, At
  <2>2. c.cmd = "read"
      OBVIOUS
  <2> HIDE DEF c
  <2>3. /\ chip.long => Whole(q, LongRead)
        /\ ~chip.long => Whole(q, ShortRead)
      BY <2>2, ReadScripts
  <2> HIDE DEF q
  <2> QED
      BY <1>0, <2>1, <2>3 DEF Began
<1> QED
    BY <1>1, <1>2, <1>3

(* What a command that the device takes does to its mode.                  *)
Effect(c) ==
    /\ chip'.long <=> chip.long
    /\ c # "en4b" /\ chip'.four => chip.four
    /\ c = "wren" /\ ~chip.wip => ~chip'.wip /\ chip'.wel /\ (chip'.four <=> chip.four)
    /\ c = "en4b" /\ ~chip.wip /\ chip.wel => ~chip'.wip /\ chip'.four
    /\ c = "dis4b" /\ ~chip.wip /\ chip.wel => ~chip'.wip /\ ~chip'.four
    /\ c \in {"se", "pp"} => (chip'.four <=> chip.four)
    /\ c \in {"rdsr", "read"} /\ ~chip.wip => ~chip'.wip /\ (chip'.four <=> chip.four)
    /\ c = "rdsr" => ~chip.wip

(* Each command is one of those.                                           *)
LEMMA CommandEffect ==
    ASSUME ChipTyped, Command
    PROVE  ChipTyped' /\ Effect(Head(cmds).cmd) /\ cmds' = Tail(cmds) /\ cmds # <<>>
<1> DEFINE h == Head(cmds)
           c == h.cmd
<1>0. /\ cmds # <<>> /\ cmds' = Tail(cmds) /\ (c = "rdsr" => ~chip.wip)
      /\ chip.wip \in BOOLEAN /\ chip.wel \in BOOLEAN /\ chip.four \in BOOLEAN
      /\ chip.long \in BOOLEAN /\ chip.byId \in BOOLEAN /\ chip.mem \in [Addr -> FlashByte]
    BY DEF Command, ChipTyped
<1>1. CASE c \in {"rdsr", "read"} /\ UNCHANGED chip
    BY <1>0, <1>1 DEF ChipTyped, Effect
<1>2. CASE c = "wren" /\ chip' = [chip EXCEPT !.wel = @ \/ ~chip.wip]
    BY <1>0, <1>2 DEF ChipTyped, Effect
<1>3. CASE c = "en4b" /\ Mode(TRUE)
    BY <1>0, <1>3 DEF ChipTyped, Effect, Mode, Latched
<1>4. CASE c = "dis4b" /\ Mode(FALSE)
    BY <1>0, <1>4 DEF ChipTyped, Effect, Mode, Latched
<1>5. ASSUME NEW mem \in [Addr -> FlashByte], Busy(mem), c \in {"se", "pp"}
      PROVE  ChipTyped' /\ Effect(c)
    BY <1>0, <1>5 DEF ChipTyped, Effect, Busy
<1>6. CASE c \in {"se", "pp"} /\ UNCHANGED chip
    BY <1>0, <1>6 DEF ChipTyped, Effect
<1>7. \A a : ErasedAt(a) \in [Addr -> FlashByte]
    BY <1>0 DEF ErasedAt, FlashByte
<1>8. ASSUME NEW a, NEW d PROVE ProgrammedAt(a, d) \in [Addr -> FlashByte]
  <2> DEFINE B(x) == {b \in Ones : \A i \in 1..Len(d) :
                                    PageOf(a) + ((a + i - 1) % PageSize) = x => b \in d[i]}
  <2>1. ProgrammedAt(a, d) = [x \in Addr |-> chip.mem[x] \intersect B(x)]
      BY DEF ProgrammedAt
  <2> HIDE DEF B
  <2>2. ASSUME NEW x \in Addr PROVE chip.mem[x] \intersect B(x) \in FlashByte
    <3>1. chip.mem[x] \subseteq Ones
        BY <1>0 DEF FlashByte
    <3> QED
        BY <3>1 DEF FlashByte
  <2> QED
      BY <2>1, <2>2
<1> HIDE DEF h, c
<1>9. \/ c \in {"rdsr", "read"} /\ UNCHANGED chip
      \/ c = "wren" /\ chip' = [chip EXCEPT !.wel = @ \/ ~chip.wip]
      \/ c = "en4b" /\ Mode(TRUE)
      \/ c = "dis4b" /\ Mode(FALSE)
      \/ c \in {"se", "pp"} /\ \E mem \in [Addr -> FlashByte] : Busy(mem)
      \/ c \in {"se", "pp"} /\ UNCHANGED chip
  <2>1. c = "se" => (\E a : Busy(ErasedAt(a))) \/ UNCHANGED chip
      BY DEF Command, c, h
  <2>2. c = "pp" => (\E a, d : Busy(ProgrammedAt(a, d))) \/ UNCHANGED chip
      BY DEF Command, c, h
  <2>3. \/ c \in {"rdsr", "read"} /\ UNCHANGED chip
        \/ c = "wren" /\ chip' = [chip EXCEPT !.wel = @ \/ ~chip.wip]
        \/ c = "en4b" /\ Mode(TRUE)
        \/ c = "dis4b" /\ Mode(FALSE)
        \/ c \in {"se", "pp"}
      BY DEF Command, c, h
  <2> QED
      BY <1>7, <1>8, <2>1, <2>2, <2>3
<1>10. CASE c \in {"se", "pp"} /\ \E mem \in [Addr -> FlashByte] : Busy(mem)
  <2>1. ChipTyped' /\ Effect(c)
      BY <1>5, <1>10
  <2> QED
      BY <1>0, <2>1 DEF c, h
<1> QED
    BY <1>1, <1>2, <1>3, <1>4, <1>6, <1>9, <1>10

(* The place of the next command, and what is left after it.               *)
LEMMA NextPlace ==
    ASSUME NEW q, NEW f, Len(f) \in Nat, IsCommands(q), q # <<>>, Follows(q, f)
    PROVE  /\ Len(q) \in 1..Len(f) /\ Head(q).cmd \in f[Len(f) - Len(q) + 1]
           /\ IsCommands(Tail(q)) /\ Len(Tail(q)) = Len(q) - 1 /\ Follows(Tail(q), f)
           /\ Tail(q) = <<>> <=> Len(q) = 1
<1>1. PICK S : q \in Seq(S)
    BY DEF IsCommands
<1>2. Len(q) \in Nat /\ Len(q) >= 1 /\ Head(q) = q[1]
    BY <1>1
<1>3. Tail(q) \in Seq(S) /\ Len(Tail(q)) = Len(q) - 1
      /\ \A i \in 1..Len(Tail(q)) : Tail(q)[i] = q[i + 1]
    BY <1>1, HeadTailProperties
<1>4. Len(q) <= Len(f) /\ \A i \in 1..Len(q) : q[i].cmd \in f[Len(f) - Len(q) + i]
    BY DEF Follows
<1> DEFINE n == Len(q)
           m == Len(f)
<1>5. Head(q).cmd \in f[m - n + 1]
    BY <1>2, <1>4
<1>6. ASSUME NEW i \in 1..Len(Tail(q)) PROVE Tail(q)[i].cmd \in f[m - Len(Tail(q)) + i]
  <2>1. i + 1 \in 1..n /\ m - n + (i + 1) = m - Len(Tail(q)) + i
    <3> HIDE DEF n, m
    <3> QED
        BY <1>2, <1>3, <1>6 DEF n, m
  <2> QED
      BY <1>3, <1>4, <2>1
<1>7. Tail(q) = <<>> <=> n = 1
  <2>1. Tail(q) = <<>> <=> Len(Tail(q)) = 0
    <3> DEFINE t == Tail(q)
    <3>1. t \in Seq(S)
        BY <1>3
    <3> HIDE DEF t
    <3>2. t = <<>> <=> Len(t) = 0
        BY <3>1
    <3> QED
        BY <3>2 DEF t
  <2> HIDE DEF n
  <2> QED
      BY <1>2, <1>3, <2>1 DEF n
<1>8. Len(Tail(q)) <= m
    BY <1>2, <1>3, <1>4
<1> QED
    BY <1>2, <1>3, <1>4, <1>5, <1>6, <1>7, <1>8 DEF Follows, IsCommands

(* One command of each function: the mode after it is the one its rest     *)
(* needs, and after the last the device is ready, in three byte mode where *)
(* it has another.                                                         *)
LEMMA LongWriteStep ==
    ASSUME NEW n \in 1..7, NEW c, c \in LongWrite[7 - n + 1], InLongWrite(n), ChipTyped
    PROVE  /\ c # "rdsr" => ~chip.wip
           /\ c \in {"en4b", "dis4b", "se", "pp"} => chip.wel
           /\ c \in {"se", "pp", "read"} => chip.four
           /\ Effect(c) => /\ n # 1 => InLongWrite(n - 1)'
                           /\ n = 1 => ~chip'.wip /\ ~chip'.four
<1>0. n \in {1, 2, 3, 4, 5, 6, 7}
    OBVIOUS
<1>1. CASE n = 7
  <2>1. c = "wren"
      BY <1>1 DEF LongWrite
  <2> QED
      BY <1>1, <2>1 DEF InLongWrite, Effect
<1>2. CASE n = 6
  <2>1. c = "en4b"
      BY <1>2 DEF LongWrite
  <2> QED
      BY <1>2, <2>1 DEF InLongWrite, Effect
<1>3. CASE n = 5
  <2>1. c = "wren"
      BY <1>3 DEF LongWrite
  <2> QED
      BY <1>3, <2>1 DEF InLongWrite, Effect
<1>4. CASE n = 4
  <2>1. c \in {"se", "pp"}
      BY <1>4 DEF LongWrite
  <2> QED
      BY <1>4, <2>1 DEF InLongWrite, Effect
<1>5. CASE n = 3
  <2>1. c = "rdsr"
      BY <1>5 DEF LongWrite
  <2> QED
      BY <1>5, <2>1 DEF InLongWrite, Effect
<1>6. CASE n = 2
  <2>1. c = "wren"
      BY <1>6 DEF LongWrite
  <2> QED
      BY <1>6, <2>1 DEF InLongWrite, Effect
<1>7. CASE n = 1
  <2>1. c = "dis4b"
      BY <1>7 DEF LongWrite
  <2> QED
      BY <1>7, <2>1 DEF InLongWrite, Effect
<1> QED
    BY <1>0, <1>1, <1>2, <1>3, <1>4, <1>5, <1>6, <1>7

(* The same of a read.                                                     *)
LEMMA LongReadStep ==
    ASSUME NEW n \in 1..6, NEW c, c \in LongRead[6 - n + 1], InLongRead(n), ChipTyped
    PROVE  /\ c # "rdsr" => ~chip.wip
           /\ c \in {"en4b", "dis4b", "se", "pp"} => chip.wel
           /\ c \in {"se", "pp", "read"} => chip.four
           /\ Effect(c) => /\ n # 1 => InLongRead(n - 1)'
                           /\ n = 1 => ~chip'.wip /\ ~chip'.four
<1>0. n \in {1, 2, 3, 4, 5, 6}
    OBVIOUS
<1>1. CASE n = 6
  <2>1. c = "wren"
      BY <1>1 DEF LongRead
  <2> QED
      BY <1>1, <2>1 DEF InLongRead, Effect
<1>2. CASE n = 5
  <2>1. c = "en4b"
      BY <1>2 DEF LongRead
  <2> QED
      BY <1>2, <2>1 DEF InLongRead, Effect
<1>3. CASE n = 4
  <2>1. c = "rdsr"
      BY <1>3 DEF LongRead
  <2> QED
      BY <1>3, <2>1 DEF InLongRead, Effect
<1>4. CASE n = 3
  <2>1. c = "read"
      BY <1>4 DEF LongRead
  <2> QED
      BY <1>4, <2>1 DEF InLongRead, Effect
<1>5. CASE n = 2
  <2>1. c = "wren"
      BY <1>5 DEF LongRead
  <2> QED
      BY <1>5, <2>1 DEF InLongRead, Effect
<1>6. CASE n = 1
  <2>1. c = "dis4b"
      BY <1>6 DEF LongRead
  <2> QED
      BY <1>6, <2>1 DEF InLongRead, Effect
<1> QED
    BY <1>0, <1>1, <1>2, <1>3, <1>4, <1>5, <1>6

(* The same of a device with three address bytes: it never changes mode.   *)
LEMMA ShortWriteStep ==
    ASSUME NEW n \in 1..3, NEW c, c \in ShortWrite[3 - n + 1], InShortWrite(n), ChipTyped
    PROVE  /\ c # "rdsr" => ~chip.wip
           /\ c \in {"en4b", "dis4b", "se", "pp"} => chip.wel
           /\ c # "en4b"
           /\ Effect(c) => /\ n # 1 => InShortWrite(n - 1)'
                           /\ n = 1 => ~chip'.wip
<1>0. n \in {1, 2, 3}
    OBVIOUS
<1>1. CASE n = 3
  <2>1. c = "wren"
      BY <1>1 DEF ShortWrite
  <2> QED
      BY <1>1, <2>1 DEF InShortWrite, Effect
<1>2. CASE n = 2
  <2>1. c \in {"se", "pp"}
      BY <1>2 DEF ShortWrite
  <2> QED
      BY <1>2, <2>1 DEF InShortWrite, Effect
<1>3. CASE n = 1
  <2>1. c = "rdsr"
      BY <1>3 DEF ShortWrite
  <2> QED
      BY <1>3, <2>1 DEF InShortWrite, Effect
<1> QED
    BY <1>0, <1>1, <1>2, <1>3

(* And of its reads.                                                       *)
LEMMA ShortReadStep ==
    ASSUME NEW n \in 1..2, NEW c, c \in ShortRead[2 - n + 1], InShortRead(n), ChipTyped
    PROVE  /\ c # "rdsr" => ~chip.wip
           /\ c \in {"en4b", "dis4b", "se", "pp"} => chip.wel
           /\ c # "en4b"
           /\ Effect(c) => /\ n # 1 => InShortRead(n - 1)'
                           /\ n = 1 => ~chip'.wip
<1>0. n \in {1, 2}
    OBVIOUS
<1>1. CASE n = 2
  <2>1. c = "rdsr"
      BY <1>1 DEF ShortRead
  <2> QED
      BY <1>1, <2>1 DEF InShortRead, Effect
<1>2. CASE n = 1
  <2>1. c = "read"
      BY <1>2 DEF ShortRead
  <2> QED
      BY <1>2, <2>1 DEF InShortRead, Effect
<1> QED
    BY <1>0, <1>1, <1>2

(* The length of each function.                                            *)
LEMMA ScriptLengths ==
    /\ Len(LongWrite) = 7 /\ Len(LongRead) = 6 /\ Len(ShortWrite) = 3 /\ Len(ShortRead) = 2
    /\ 7 \in Nat /\ 6 \in Nat /\ 3 \in Nat /\ 2 \in Nat
BY DEF LongWrite, LongRead, ShortWrite, ShortRead

(* In its mode the device takes the next command.                          *)
LEMMA ModesTaken == ModesInv => CommandsTaken
<1> SUFFICES ASSUME ModesInv, cmds # <<>> PROVE CommandsTaken
    BY DEF CommandsTaken
<1>a. PICK c : c = Head(cmds).cmd
    OBVIOUS
<1>b. PICK n : n = Len(cmds)
    OBVIOUS
<1>0. /\ ChipTyped /\ OnScript /\ IsCommands(cmds) /\ cmds # <<>> /\ (chip.four => chip.long)
      /\ chip.four \in BOOLEAN /\ chip.long \in BOOLEAN
    BY DEF ModesInv, ModesRest, ChipTyped
<1> DEFINE Goal == /\ (c # "rdsr" => ~chip.wip)
                   /\ (c \in {"en4b", "dis4b", "se", "pp"} => chip.wel)
                   /\ (c \in {"se", "pp", "read"} => chip.four = chip.long)
<1>1. ASSUME chip.long /\ Follows(cmds, LongWrite) /\ InLongWrite(n)
      PROVE  Goal
  <2>1. n \in 1..7 /\ c \in LongWrite[7 - n + 1]
      BY <1>0, <1>1, <1>a, <1>b, ScriptLengths, NextPlace
  <2>2. /\ c # "rdsr" => ~chip.wip
        /\ c \in {"en4b", "dis4b", "se", "pp"} => chip.wel
        /\ c \in {"se", "pp", "read"} => chip.four
      BY <1>0, <1>1, <2>1, LongWriteStep
  <2> QED
      BY <1>0, <1>1, <2>2
<1>2. ASSUME chip.long /\ Follows(cmds, LongRead) /\ InLongRead(n)
      PROVE  Goal
  <2>1. n \in 1..6 /\ c \in LongRead[6 - n + 1]
      BY <1>0, <1>2, <1>a, <1>b, ScriptLengths, NextPlace
  <2>2. /\ c # "rdsr" => ~chip.wip
        /\ c \in {"en4b", "dis4b", "se", "pp"} => chip.wel
        /\ c \in {"se", "pp", "read"} => chip.four
      BY <1>0, <1>2, <2>1, LongReadStep
  <2> QED
      BY <1>0, <1>2, <2>2
<1>3. ASSUME ~chip.long /\ Follows(cmds, ShortWrite) /\ InShortWrite(n)
      PROVE  Goal
  <2>1. n \in 1..3 /\ c \in ShortWrite[3 - n + 1]
      BY <1>0, <1>3, <1>a, <1>b, ScriptLengths, NextPlace
  <2>2. /\ c # "rdsr" => ~chip.wip
        /\ c \in {"en4b", "dis4b", "se", "pp"} => chip.wel
        /\ c # "en4b"
      BY <1>0, <1>3, <2>1, ShortWriteStep
  <2> QED
      BY <1>0, <1>3, <2>2
<1>4. ASSUME ~chip.long /\ Follows(cmds, ShortRead) /\ InShortRead(n)
      PROVE  Goal
  <2>1. n \in 1..2 /\ c \in ShortRead[2 - n + 1]
      BY <1>0, <1>4, <1>a, <1>b, ScriptLengths, NextPlace
  <2>2. /\ c # "rdsr" => ~chip.wip
        /\ c \in {"en4b", "dis4b", "se", "pp"} => chip.wel
        /\ c # "en4b"
      BY <1>0, <1>4, <2>1, ShortReadStep
  <2> QED
      BY <1>0, <1>4, <2>2
<1>5. Goal
  <2> HIDE DEF Goal
  <2> QED
      BY <1>0, <1>1, <1>2, <1>3, <1>4, <1>b DEF OnScript
<1> QED
    BY <1>5, <1>a DEF CommandsTaken

(* A command leaves the rest of a function, in the mode it needs.          *)
LEMMA CommandModes ==
    ASSUME ModesInv, Command
    PROVE  ModesInv'
<1>a. PICK c : c = Head(cmds).cmd
    OBVIOUS
<1>b. PICK n : n = Len(cmds)
    OBVIOUS
<1>0. /\ cmds # <<>> /\ cmds' = Tail(cmds) /\ ChipTyped /\ ChipTyped' /\ Effect(c)
      /\ IsCommands(cmds) /\ OnScript /\ ModesRest
      /\ UNCHANGED <<phase, ret, loop, client, found, resets>>
    BY <1>a, CommandEffect DEF ModesInv, ModesRest, Command
<1>c. /\ UNCHANGED <<phase, found, resets, verified>> /\ found /\ resets \in Nat /\ found \in BOOLEAN
      /\ phase = "compare" \/ phase = "pages" \/ phase = "last"
      /\ (chip.four => chip.long) /\ (chip.long \in BOOLEAN) /\ (chip'.long <=> chip.long)
      /\ chip'.four \in BOOLEAN /\ chip'.wip \in BOOLEAN /\ chip.four \in BOOLEAN
      /\ (c # "en4b" /\ chip'.four => chip.four)
    BY <1>0 DEF ModesRest, client, Effect, ChipTyped
<1> DEFINE Goal == /\ IsCommands(cmds') /\ (cmds' # <<>> => OnScript')
                   /\ (cmds' = <<>> => ~chip'.wip /\ ~chip'.four) /\ (chip'.four => chip'.long)
<1>1. ASSUME chip.long /\ Follows(cmds, LongWrite) /\ InLongWrite(n)
      PROVE  Goal
  <2>1. /\ n \in 1..7 /\ c \in LongWrite[7 - n + 1] /\ IsCommands(cmds') /\ Len(cmds') = n - 1
        /\ Follows(cmds', LongWrite) /\ (cmds' = <<>> <=> n = 1)
      BY <1>0, <1>1, <1>a, <1>b, ScriptLengths, NextPlace
  <2>2. /\ n # 1 => InLongWrite(n - 1)'
        /\ n = 1 => ~chip'.wip /\ ~chip'.four
      BY <1>0, <1>1, <2>1, LongWriteStep
  <2>3. n # 1 => OnScript'
    <3>1. n # 1 => InLongWrite(Len(cmds))'
        BY <2>1, <2>2 DEF InLongWrite
    <3> QED
        BY <1>c, <1>1, <2>1, <3>1 DEF OnScript
  <2> QED
      BY <1>c, <1>1, <2>1, <2>2, <2>3
<1>2. ASSUME chip.long /\ Follows(cmds, LongRead) /\ InLongRead(n)
      PROVE  Goal
  <2>1. /\ n \in 1..6 /\ c \in LongRead[6 - n + 1] /\ IsCommands(cmds') /\ Len(cmds') = n - 1
        /\ Follows(cmds', LongRead) /\ (cmds' = <<>> <=> n = 1)
      BY <1>0, <1>2, <1>a, <1>b, ScriptLengths, NextPlace
  <2>2. /\ n # 1 => InLongRead(n - 1)'
        /\ n = 1 => ~chip'.wip /\ ~chip'.four
      BY <1>0, <1>2, <2>1, LongReadStep
  <2>3. n # 1 => OnScript'
    <3>1. n # 1 => InLongRead(Len(cmds))'
        BY <2>1, <2>2 DEF InLongRead
    <3> QED
        BY <1>c, <1>2, <2>1, <3>1 DEF OnScript
  <2> QED
      BY <1>c, <1>2, <2>1, <2>2, <2>3
<1>3. ASSUME ~chip.long /\ Follows(cmds, ShortWrite) /\ InShortWrite(n)
      PROVE  Goal
  <2>1. /\ n \in 1..3 /\ c \in ShortWrite[3 - n + 1] /\ IsCommands(cmds') /\ Len(cmds') = n - 1
        /\ Follows(cmds', ShortWrite) /\ (cmds' = <<>> <=> n = 1)
      BY <1>0, <1>3, <1>a, <1>b, ScriptLengths, NextPlace
  <2>2. /\ n # 1 => InShortWrite(n - 1)'
        /\ n = 1 => ~chip'.wip
      BY <1>0, <1>3, <2>1, ShortWriteStep
  <2>3. n # 1 => OnScript'
    <3>1. n # 1 => InShortWrite(Len(cmds))'
        BY <2>1, <2>2 DEF InShortWrite
    <3> QED
        BY <1>c, <1>3, <2>1, <3>1 DEF OnScript
  <2>4. c # "en4b"
      BY <1>0, <1>3, <2>1, ShortWriteStep
  <2> QED
      BY <1>c, <1>3, <2>1, <2>2, <2>3, <2>4
<1>4. ASSUME ~chip.long /\ Follows(cmds, ShortRead) /\ InShortRead(n)
      PROVE  Goal
  <2>1. /\ n \in 1..2 /\ c \in ShortRead[2 - n + 1] /\ IsCommands(cmds') /\ Len(cmds') = n - 1
        /\ Follows(cmds', ShortRead) /\ (cmds' = <<>> <=> n = 1)
      BY <1>0, <1>4, <1>a, <1>b, ScriptLengths, NextPlace
  <2>2. /\ n # 1 => InShortRead(n - 1)'
        /\ n = 1 => ~chip'.wip
      BY <1>0, <1>4, <2>1, ShortReadStep
  <2>3. n # 1 => OnScript'
    <3>1. n # 1 => InShortRead(Len(cmds))'
        BY <2>1, <2>2 DEF InShortRead
    <3> QED
        BY <1>c, <1>4, <2>1, <3>1 DEF OnScript
  <2>4. c # "en4b"
      BY <1>0, <1>4, <2>1, ShortReadStep
  <2> QED
      BY <1>c, <1>4, <2>1, <2>2, <2>3, <2>4
<1>5. Goal
  <2> HIDE DEF Goal
  <2> QED
      BY <1>0, <1>1, <1>2, <1>3, <1>4, <1>b DEF OnScript
<1>6. ModesRest'
    BY <1>0, <1>c, <1>5 DEF ModesRest
<1> QED
    BY <1>5, <1>6 DEF ModesInv

(* The driver goes on without a command, or begins a function.             *)
Driven ==
    /\ UNCHANGED <<chip, found, resets>>
    /\ phase' \in {"idle", "compare", "pages", "blocks", "last"}
    /\ UNCHANGED cmds \/ (Began(cmds') /\ phase' \in {"compare", "pages", "last"})

(* It may do that between two functions.                                   *)
LEMMA DrivenModes ==
    ASSUME ModesInv, found, cmds = <<>>, Driven
    PROVE  ModesInv'
<1>0. /\ UNCHANGED <<chip, found, resets>> /\ ChipTyped /\ ChipTyped' /\ ModesRest
      /\ phase' \in {"idle", "compare", "pages", "blocks", "last"} /\ IsCommands(cmds)
      /\ ~chip.wip /\ (resets = 0 => ~chip.four) /\ resets \in Nat
      /\ (chip.four => chip.long) /\ chip.long \in BOOLEAN
    BY DEF ModesInv, ModesRest, Driven, ChipTyped
<1>1. CASE UNCHANGED cmds
  <2>1. ModesRest'
      BY <1>0, <1>1 DEF ModesRest
  <2> QED
      BY <1>0, <1>1, <2>1 DEF ModesInv
<1>2. CASE Began(cmds') /\ phase' \in {"compare", "pages", "last"}
  <2>2. IsCommands(cmds') /\ cmds' # <<>>
      BY <1>2 DEF Began, Whole
  <2>3. ModesRest'
      BY <1>0, <1>2, <2>2 DEF ModesRest
  <2>4. /\ Len(cmds') = 7 => InLongWrite(Len(cmds))'
        /\ Len(cmds') = 6 => InLongRead(Len(cmds))'
        /\ Len(cmds') = 3 => InShortWrite(Len(cmds))'
        /\ Len(cmds') = 2 => InShortRead(Len(cmds))'
    <3>1. ~chip'.wip
        BY <1>0
    <3>2. PICK m : m = Len(cmds')
        OBVIOUS
    <3>3. ASSUME m = 7 PROVE InLongWrite(Len(cmds))'
        BY <3>1, <3>2, <3>3 DEF InLongWrite
    <3>4. ASSUME m = 6 PROVE InLongRead(Len(cmds))'
        BY <3>1, <3>2, <3>4 DEF InLongRead
    <3>5. ASSUME m = 3 PROVE InShortWrite(Len(cmds))'
        BY <3>1, <3>2, <3>5 DEF InShortWrite
    <3>6. ASSUME m = 2 PROVE InShortRead(Len(cmds))'
        BY <3>1, <3>2, <3>6 DEF InShortRead
    <3> QED
        BY <3>2, <3>3, <3>4, <3>5, <3>6
  <2>5. OnScript'
      BY <1>0, <1>2, <2>4, ScriptLengths DEF OnScript, Began, Whole
  <2> QED
      BY <2>2, <2>3, <2>5 DEF ModesInv
<1> QED
    BY <1>1, <1>2 DEF Driven

(* Every way on from the comparison, a page or a block is such a step.     *)
LEMMA NextBlockDriven ==
    ASSUME ChipTyped, UNCHANGED <<chip, found, resets>>, NextBlock
    PROVE  Driven
<1>1. ASSUME NEW a, NEW d, StartBlock(a, d) PROVE Driven
  <2>1. phase' = "compare" /\ \E n : cmds' = ReadBuffer(a, n)
      BY <1>1 DEF StartBlock
  <2> QED
      BY <2>1, FunctionsBegin DEF Driven
<1>2. CASE Return("ok")
    BY <1>2 DEF Return, Driven
<1>3. CASE phase' = "blocks" /\ UNCHANGED <<loop, cmds, ret>>
    BY <1>3 DEF Driven
<1> QED
    BY <1>1, <1>2, <1>3 DEF NextBlock

(* So is the beginning of a call.                                          *)
LEMMA BeginDriven ==
    ASSUME ChipTyped, NEW c, FlashBegin(c)
    PROVE  Driven
<1>0. UNCHANGED <<chip, found, resets>>
    BY DEF FlashBegin
<1> DEFINE Ways ==
             \/ StartBlock(c.at, c.data)
             \/ \E r : Return(r)
             \/ phase' \in {"blocks", "pages"} /\ UNCHANGED cmds
             \/ phase' = "last" /\ \E n : cmds' = SectorErase(c.at) \/ cmds' = ReadBuffer(c.at, n)
<1>1. Ways
  <2>1. CASE c.op = "write"
      BY <2>1 DEF FlashBegin
  <2>2. CASE c.op = "fwrite"
      BY <2>2 DEF FlashBegin
  <2>3. CASE c.op # "write" /\ c.op # "fwrite" /\ ~InDevice(c.at)
      BY <2>3 DEF FlashBegin
  <2>4. CASE c.op # "write" /\ c.op # "fwrite" /\ InDevice(c.at)
      BY <2>4 DEF FlashBegin
  <2> QED
      BY <2>1, <2>2, <2>3, <2>4
<1>2. CASE StartBlock(c.at, c.data)
  <2>1. phase' = "compare" /\ \E n : cmds' = ReadBuffer(c.at, n)
      BY <1>2 DEF StartBlock
  <2> QED
      BY <1>0, <2>1, FunctionsBegin DEF Driven
<1>3. CASE \E r : Return(r)
    BY <1>0, <1>3 DEF Return, Driven
<1>4. CASE phase' \in {"blocks", "pages"} /\ UNCHANGED cmds
    BY <1>0, <1>4 DEF Driven
<1>5. CASE phase' = "last" /\ \E n : cmds' = SectorErase(c.at) \/ cmds' = ReadBuffer(c.at, n)
    BY <1>0, <1>5, FunctionsBegin DEF Driven
<1> HIDE DEF Ways
<1> QED
    BY <1>1, <1>2, <1>3, <1>4, <1>5 DEF Ways

(* The start.                                                              *)
LEMMA ModesInitInv == FlashInit => ModesInv
<1> SUFFICES ASSUME FlashInit PROVE ModesInv
    OBVIOUS
<1>1. PICK m \in FlashMem0, k \in Kinds :
        chip = [mem |-> m, wip |-> FALSE, wel |-> FALSE, four |-> FALSE,
                long |-> k.long, byId |-> k.byId]
    BY DEF FlashInit
<1>2. m \in [Addr -> FlashByte] /\ k.long \in BOOLEAN /\ k.byId \in BOOLEAN
    BY FlashAssumption
<1>3. ChipTyped
    BY <1>1, <1>2 DEF ChipTyped
<1>4. IsCommands(cmds) /\ cmds = <<>>
  <2>1. <<>> \in Seq({})
      OBVIOUS
  <2> QED
      BY <2>1 DEF FlashInit, IsCommands
<1>5. ~chip.four /\ phase = "res" /\ found = FALSE /\ resets = 0 /\ verified = "none"
    BY <1>1 DEF FlashInit
<1> QED
    BY <1>3, <1>4, <1>5 DEF ModesInv, ModesRest

(* The device is ready again.                                              *)
LEMMA DoneModes ==
    ASSUME ModesInv, Done
    PROVE  ModesInv'
<1>0. /\ chip.wip /\ chip' = [chip EXCEPT !.wip = FALSE, !.wel = FALSE] /\ ChipTyped
      /\ UNCHANGED <<cmds, phase, found, resets, verified>> /\ ModesRest
    BY DEF Done, ModesInv, ModesRest, client
<1>1. ChipTyped' /\ ~chip'.wip /\ (chip'.long <=> chip.long) /\ (chip'.four <=> chip.four)
    BY <1>0 DEF ChipTyped
<1>2. ModesRest'
    BY <1>0, <1>1 DEF ModesRest
<1>3. cmds # <<>> => OnScript'
  <2> SUFFICES ASSUME cmds # <<>> PROVE OnScript'
      OBVIOUS
  <2>1. PICK n : n = Len(cmds)
      OBVIOUS
  <2>2. CASE chip.long /\ Follows(cmds, LongWrite) /\ InLongWrite(n)
    <3>1. n = 3 /\ chip.four
        BY <1>0, <2>2 DEF InLongWrite
    <3>2. InLongWrite(Len(cmds))'
        BY <1>0, <1>1, <2>1, <3>1 DEF InLongWrite
    <3> QED
        BY <1>0, <1>1, <2>2, <3>2 DEF OnScript
  <2>3. CASE ~chip.long /\ Follows(cmds, ShortWrite) /\ InShortWrite(n)
    <3>1. n = 1
        BY <1>0, <2>3 DEF InShortWrite
    <3>2. InShortWrite(Len(cmds))'
        BY <1>0, <1>1, <2>1, <3>1 DEF InShortWrite
    <3> QED
        BY <1>0, <1>1, <2>3, <3>2 DEF OnScript
  <2>4. ~InLongRead(n) /\ ~InShortRead(n)
      BY <1>0 DEF InLongRead, InShortRead
  <2> QED
      BY <2>1, <2>2, <2>3, <2>4 DEF ModesInv, OnScript
<1> QED
    BY <1>0, <1>2, <1>3 DEF ModesInv

(* The steps of the driver between its functions.                          *)
LEMMA DriverModes ==
    ASSUME ModesInv, Compare \/ Pages \/ FlashBlocks \/ OneDone \/ VerifyNext \/ FlashRequest
    PROVE  ModesInv'
<1>0. ChipTyped /\ ModesRest
    BY DEF ModesInv, ModesRest
<1>1. CASE Compare
  <2>1. found /\ cmds = <<>> /\ UNCHANGED <<chip, found, resets>>
      BY <1>0, <1>1 DEF Compare, ModesRest
  <2>2. \/ phase' = "pages" /\ cmds' = SectorErase(block)
        \/ phase' = "compare" /\ \E a, n : cmds' = ReadBuffer(a, n)
        \/ NextBlock
      BY <1>1 DEF Compare, EraseFirst
  <2>3. Driven
      BY <1>0, <2>1, <2>2, FunctionsBegin, NextBlockDriven DEF Driven
  <2> QED
      BY <2>1, <2>3, DrivenModes
<1>2. CASE Pages
  <2>1. found /\ cmds = <<>> /\ UNCHANGED <<chip, found, resets>>
      BY <1>0, <1>2 DEF Pages, ModesRest
  <2>2. \/ phase' = "pages" /\ \E a, d : cmds' = WriteBuffer(a, d)
        \/ NextBlock
      BY <1>2 DEF Pages
  <2>3. Driven
      BY <1>0, <2>1, <2>2, FunctionsBegin, NextBlockDriven DEF Driven
  <2> QED
      BY <2>1, <2>3, DrivenModes
<1>3. CASE FlashBlocks
  <2>1. found /\ cmds = <<>> /\ UNCHANGED <<chip, found, resets>>
      BY <1>0, <1>3 DEF FlashBlocks, ModesRest
  <2>2. UNCHANGED cmds /\ phase' \in {"idle", "pages", "blocks"}
      BY <1>3 DEF FlashBlocks, Return
  <2>3. Driven
      BY <2>1, <2>2 DEF Driven
  <2> QED
      BY <2>1, <2>3, DrivenModes
<1>4. CASE OneDone
  <2>1. found /\ cmds = <<>> /\ UNCHANGED <<chip, found, resets>>
      BY <1>0, <1>4 DEF OneDone, ModesRest
  <2>2. Driven
      BY <1>4, <2>1 DEF OneDone, Return, Driven
  <2> QED
      BY <2>1, <2>2, DrivenModes
<1>5. CASE VerifyNext
  <2>1. found /\ cmds = <<>> /\ phase = "idle"
      BY <1>0, <1>5 DEF VerifyNext, ModesRest
  <2>2. Driven
    <3>1. CASE FlashBegin(BufferCall(program))
        BY <1>0, <3>1, BeginDriven
    <3>2. CASE UNCHANGED <<chip, cmds, phase, found, resets>>
        BY <2>1, <3>2 DEF Driven
    <3> QED
        BY <1>5, <3>1, <3>2 DEF VerifyNext
  <2> QED
      BY <2>1, <2>2, DrivenModes
<1>6. CASE FlashRequest
  <2>1. found /\ cmds = <<>> /\ phase = "idle"
      BY <1>0, <1>6 DEF FlashRequest, ModesRest
  <2>2. \E c : FlashBegin(c)
      BY <1>6 DEF FlashRequest
  <2>3. Driven
      BY <1>0, <2>2, BeginDriven
  <2> QED
      BY <2>1, <2>3, DrivenModes
<1> QED
    BY <1>1, <1>2, <1>3, <1>4, <1>5, <1>6

(* Finding the device, the caller's steps and the reset.                   *)
LEMMA OtherModes ==
    ASSUME ModesInv, QueryRes \/ QueryId \/ Taken \/ FlashVerify \/ FlashReset
                       \/ FlashOpenFails \/ UNCHANGED flashVars
    PROVE  ModesInv'
<1>0. /\ ChipTyped /\ ModesRest /\ IsCommands(cmds) /\ (cmds # <<>> => OnScript)
      /\ chip.wip \in BOOLEAN /\ chip.byId \in BOOLEAN
    BY DEF ModesInv, ModesRest, ChipTyped
<1>1. CASE QueryRes \/ QueryId
  <2>1. /\ UNCHANGED <<chip, cmds, resets, verified>> /\ ~found /\ cmds = <<>>
        /\ phase' \in {"rdid", "idle"} /\ found' \in BOOLEAN
        /\ found' => phase' = "idle" /\ ~chip.wip
      BY <1>0, <1>1 DEF QueryRes, QueryId, ModesRest, client
  <2>2. ModesRest'
      BY <1>0, <2>1 DEF ModesRest, ChipTyped
  <2> QED
      BY <1>0, <2>1, <2>2 DEF ModesInv
<1>2. CASE Taken \/ FlashVerify
  <2>1. /\ UNCHANGED <<chip, cmds, resets, phase, found>> /\ phase = "idle" /\ cmds = <<>>
        /\ found \/ UNCHANGED verified
      BY <1>0, <1>2 DEF Taken, FlashVerify, ModesRest
  <2>2. ModesRest'
      BY <1>0, <2>1 DEF ModesRest, ChipTyped
  <2> QED
      BY <1>0, <2>1, <2>2 DEF ModesInv
<1>3. CASE FlashReset
  <2>1. /\ UNCHANGED chip /\ resets' = resets + 1 /\ phase' = "res" /\ found' = FALSE
        /\ cmds' = <<>> /\ verified' = "none"
      BY <1>3 DEF FlashReset
  <2>2. ModesRest'
    <3>1. resets' \in Nat /\ resets' # 0
        BY <1>0, <2>1 DEF ModesRest
    <3>2. found' \in BOOLEAN /\ ~found'
        BY <2>1
    <3>3. ChipTyped' /\ (chip'.four => chip'.long)
        BY <1>0, <2>1 DEF ModesRest, ChipTyped
    <3> QED
        BY <2>1, <3>1, <3>2, <3>3 DEF ModesRest
  <2>3. IsCommands(cmds')
    <3>1. <<>> \in Seq({})
        OBVIOUS
    <3> QED
        BY <2>1, <3>1 DEF IsCommands
  <2> QED
      BY <2>1, <2>2, <2>3 DEF ModesInv
<1>4. CASE FlashOpenFails \/ UNCHANGED flashVars
  <2>1. UNCHANGED <<chip, cmds, resets, phase, found, verified>>
      BY <1>4 DEF FlashOpenFails, flashVars, client
  <2>2. ModesRest' /\ (cmds # <<>> => OnScript')
      BY <1>0, <2>1 DEF ModesRest, ChipTyped, OnScript, InLongWrite, InLongRead,
                        InShortWrite, InShortRead
  <2> QED
      BY <1>0, <2>1, <2>2 DEF ModesInv
<1> QED
    BY <1>1, <1>2, <1>3, <1>4

(* The driver and its device agree on the device's mode: for every         *)
(* geometry and kind of device, every sequence of calls and every reset,   *)
(* no command is sent to a device that would ignore it or take it for      *)
(* another, and between calls a device that no reset has cut short is in   *)
(* three byte mode.                                                        *)
THEOREM ModesKeptAlways == FlashSpec => []ModesKept
<1>1. ModesInv /\ [FlashNext]_flashVars => ModesInv'
    BY CommandModes, DoneModes, DriverModes, OtherModes DEF FlashNext, Driver
<1>2. ModesInv => ModesKept
  <2> SUFFICES ASSUME ModesInv PROVE ModesKept
      OBVIOUS
  <2>1. ThreeByteAtRest
      BY DEF ModesInv, ModesRest, ThreeByteAtRest
  <2> QED
      BY <2>1, ModesTaken DEF ModesKept
<1> QED
    BY <1>1, <1>2, ModesInitInv, PTL DEF FlashSpec
-----------------------------------------------------------------------------
(* What the flash holds.                                                   *)

(* The address of a sector.                                                *)
IsSector(s) == \E q \in Nat : s = q * SectorSize

(* Contents after an erase and after a program that keeps to its page.     *)
EraseOf(m, a) == [x \in Addr |-> IF SectorOf(x) = SectorOf(a) THEN Ones ELSE m[x]]
PutOf(m, a, d) ==
    [x \in Addr |-> IF a <= x /\ x < a + Len(d) THEN m[x] \intersect d[x - a + 1] ELSE m[x]]
InPage(a, d) == a + Len(d) <= PageOf(a) + PageSize

(* The commands that do the work of a function, and what they do.          *)
Works == {"se", "pp", "read"}
IsWork(c) == /\ c.cmd \in Works /\ c.at \in Addr
             /\ c.cmd = "pp" => c.data \in Seq(FlashByte) /\ InPage(c.at, c.data)
             /\ c.cmd = "read" => c.n \in Nat
MemOf(m, c) == IF c.cmd = "se" THEN EraseOf(m, c.at)
               ELSE IF c.cmd = "pp" THEN PutOf(m, c.at, c.data) ELSE m
GotOf(m, g, c) == IF c.cmd = "read" THEN BytesAt(m, c.at, c.n) ELSE g

(* With the commands that are left carried out, the device holds m and the *)
(* driver has read g: a function has one command that does its work, sent  *)
(* or not.                                                                 *)
NoWork(q) == \A i \in 1..Len(q) : q[i].cmd \notin Works
OneWork(q, c) == /\ \A i \in 1..Len(q) : q[i] = c \/ q[i].cmd \notin Works
                 /\ \E i \in 1..Len(q) : q[i] = c
Outcome(m, g) ==
    \/ NoWork(cmds) /\ m = chip.mem /\ g = got
    \/ \E c : /\ IsWork(c) /\ OneWork(cmds, c)
              /\ m = MemOf(chip.mem, c) /\ g = GotOf(chip.mem, got, c)

(* The data of the call, by address; what a write leaves at an address.    *)
CallEnd == call.at + Len(call.data)
InCall(x) == call.at <= x /\ x < CallEnd
DataAt(x) == call.data[x - call.at + 1]
Want(x) == IF InCall(x) THEN DataAt(x) ELSE Ones
Held(s) == \A x \in s..(s + SectorSize - 1) : InCall(x) => flashBefore[x] = DataAt(x)
Goal(x) == IF Held(SectorOf(x)) THEN flashBefore[x] ELSE Want(x)

(* The data still to write are those of the call, in order.                *)
Carries(q, a) == q \in Seq(FlashByte) /\ \A i \in 1..Len(q) : q[i] = DataAt(a + i - 1)
SplitUp == /\ at \in Nat /\ call.at <= at /\ at + Len(piece) + Len(rest) = CallEnd
           /\ Carries(piece, at) /\ Carries(rest, at + Len(piece))

(* alt_epcs_flash_write: the blocks before this one are as they shall be,  *)
(* and those after it as they were.                                        *)
OneBlock == /\ call.op = "write" /\ IsSector(block) /\ block < Size /\ block <= at /\ SplitUp
            /\ at + Len(piece) = Least(CallEnd, block + SectorSize)
Comparing(m, g) ==
    /\ OneBlock /\ (at = block \/ at = call.at) /\ Len(piece) > 0
    /\ cmp \in Nat /\ cmp < Len(piece) /\ \A i \in 1..cmp : piece[i] = flashBefore[at + i - 1]
    /\ \A x \in Addr : m[x] = IF x < block THEN Goal(x) ELSE flashBefore[x]
    /\ g = BytesAt(m, at + cmp, Least(ChunkSize, Len(piece) - cmp))
Filling(m) ==
    /\ OneBlock /\ ~Held(block)
    /\ \A x \in Addr : m[x] = IF x < block THEN Goal(x)
                              ELSE IF x >= block + SectorSize THEN flashBefore[x]
                              ELSE IF x < at THEN Want(x) ELSE Ones

(* write_block and Flash_Write: the data before a are programmed.          *)
Put(m, a) == \A x \in Addr : m[x] = IF InCall(x) /\ x < a THEN flashBefore[x] \intersect DataAt(x)
                                    ELSE flashBefore[x]
Programming(m) ==
    /\ call.op \in {"wblock", "fwrite"} /\ CallEnd <= Size /\ SplitUp /\ Put(m, at)
    /\ call.op = "wblock" => rest = <<>>
    /\ call.op = "fwrite" => block \in Nat /\ (rest # <<>> => at + Len(piece) >= block)
BetweenBlocks(m) ==
    /\ call.op = "fwrite" /\ (CallEnd <= Size \/ call.at = Size) /\ block \in Nat
    /\ Len(rest) <= Len(call.data) /\ Carries(rest, CallEnd - Len(rest)) /\ Put(m, CallEnd - Len(rest))
    /\ rest # <<>> => CallEnd - Len(rest) >= block

(* What a read and an erase leave and return.                              *)
One(m, g) == /\ call.op \in {"read", "erase"} /\ call.at < Size
             /\ call.op = "read" => /\ m = flashBefore
                                    /\ g = BytesAt(flashBefore, call.at, Len(call.data))
             /\ call.op = "erase" => m = EraseOf(flashBefore, call.at)

(* The results, by the function that was called.                           *)
Result(m, g) ==
    call.op # "none" =>
      /\ ret \in {"none", "ok", "eio"} /\ (ret = "none" => verified # "running")
      /\ ret = "eio" => call.at >= Size
      /\ ret = "ok" => /\ call.op = "write" => \A x \in Addr : m[x] = Goal(x)
                       /\ call.op \in {"wblock", "fwrite"} => Put(m, CallEnd)
                       /\ call.op \in {"read", "erase"} => One(m, g)

Stage(m, g) ==
    /\ phase = "compare" => Comparing(m, g)
    /\ phase = "pages" => Filling(m) \/ Programming(m)
    /\ phase = "blocks" => BetweenBlocks(m)
    /\ phase = "last" => One(m, g)
    /\ phase = "idle" => Result(m, g)
    /\ phase \in {"res", "rdid"} => ret = "none" /\ verified = "none"

Untouched(m) == \A a \in Addr : SectorOf(a) \notin {SectorOf(x) : x \in Area \union {call.at}} =>
                                  m[a] = flashBefore[a]

(* FLASH_Verify: the place in its loops, the blocks it takes, the count    *)
(* that belongs to an address, and what it has done before p.              *)
Takes(quick, b) == quick => b = 0 \/ b = Sectors - 1
Rank(quick, b) == IF quick /\ b # 0 THEN 1 ELSE b
Counted(quick, x) == Count(Rank(quick, x \div SectorSize) * SectorSize + (x % SectorSize))
InLoop(p) ==
    /\ p \in [pass : {"erase", "fwrite", "read"}, quick : BOOLEAN, i : 0..(Sectors - 1),
              sum : 0..(SectorSize - 1), cnt : Nat]
    /\ Takes(p.quick, p.i) /\ (p.pass = "erase" => p.sum = 0)
    /\ p.cnt = Rank(p.quick, p.i) * SectorSize + p.sum
Reached(p, m) ==
    \A x \in Addr : Takes(p.quick, x \div SectorSize) =>
      /\ p.pass = "erase" /\ x < p.i * SectorSize => m[x] = Ones
      /\ p.pass = "fwrite" => m[x] = IF x < p.i * SectorSize + p.sum THEN Counted(p.quick, x)
                                     ELSE Ones
      /\ p.pass \in {"read", "end"} => m[x] = Counted(p.quick, x)

Verifying ==
    /\ verified \in {"none", "running", "ok"}
    /\ verified = "running" =>
         \/ call.op = "none" /\ \E b \in BOOLEAN : program = VerifyAt("erase", b)
         \/ \E p : InLoop(p) /\ Reached(p, flashBefore) /\ program = VerifyAfter(p)
                     /\ call = BufferCall(p)

CallTyped ==
    /\ call.op \in {"none", "read", "erase", "write", "wblock", "fwrite"}
    /\ call.at \in Nat /\ call.data \in Seq(FlashByte) /\ flashBefore \in [Addr -> FlashByte]

FlashInv ==
    /\ ModesInv /\ CallTyped /\ Untouched(chip.mem) /\ Verifying
    /\ \E m, g : Outcome(m, g) /\ Stage(m, g)

(* Division by the size of a sector or of a page.                         *)
LEMMA Quotients ==
    ASSUME NEW L \in Nat \ {0}
    PROVE  /\ \A a \in Int :
                a \div L \in Int /\ a % L \in 0..(L - 1) /\ a = (a \div L) * L + (a % L)
           /\ \A q \in Int, j \in 0..(L - 1) : (q * L + j) \div L = q /\ (q * L + j) % L = j
           /\ \A a \in Int : (a + L) \div L = (a \div L) + 1 /\ (a + L) % L = a % L
           /\ \A a, b \in Int : a <= b => a \div L <= b \div L
<1>1. \A a \in Int : a \div L \in Int /\ a % L \in 0..(L - 1) /\ a = (a \div L) * L + (a % L)
    OBVIOUS
<1>2. \A q, r \in Int, j, k \in 0..(L - 1) : q * L + j = r * L + k => q = r /\ j = k
  <2>1. SUFFICES ASSUME NEW q \in Int, NEW r \in Int, NEW j \in 0..(L - 1), NEW k \in 0..(L - 1),
                        q * L + j = r * L + k
                 PROVE  q = r
      OBVIOUS
  <2>2. ASSUME NEW d \in Int, d >= 1 PROVE d * L >= L
      BY <2>2
  <2>3. (q - r) * L = k - j /\ (r - q) * L = j - k
      BY <2>1
  <2>4. CASE q - r >= 1
      BY <2>2, <2>3, <2>4
  <2>5. CASE r - q >= 1
      BY <2>2, <2>3, <2>5
  <2> QED
      BY <2>4, <2>5
<1>3. \A q \in Int, j \in 0..(L - 1) : (q * L + j) \div L = q /\ (q * L + j) % L = j
  <2> SUFFICES ASSUME NEW q \in Int, NEW j \in 0..(L - 1)
               PROVE  (q * L + j) \div L = q /\ (q * L + j) % L = j
      OBVIOUS
  <2>1. PICK a \in Int : a = q * L + j
      OBVIOUS
  <2>2. a \div L \in Int /\ a % L \in 0..(L - 1) /\ a = (a \div L) * L + (a % L)
      BY <1>1
  <2>3. a \div L = q /\ a % L = j
      BY <1>2, <2>1, <2>2
  <2> QED
      BY <2>1, <2>3
<1>4. ASSUME NEW a \in Int PROVE (a + L) \div L = (a \div L) + 1 /\ (a + L) % L = a % L
  <2>1. PICK q \in Int, j \in 0..(L - 1) : q = a \div L /\ j = a % L /\ a = q * L + j
      BY <1>1
  <2>2. a + L = (q + 1) * L + j
      BY <2>1
  <2> QED
      BY <1>3, <2>1, <2>2
<1>5. ASSUME NEW a \in Int, NEW b \in Int, a <= b PROVE a \div L <= b \div L
  <2>1. PICK q \in Int, j \in 0..(L - 1) : q = a \div L /\ a = q * L + j
      BY <1>1
  <2>2. PICK r \in Int, k \in 0..(L - 1) : r = b \div L /\ b = r * L + k
      BY <1>1
  <2>3. ASSUME NEW d \in Int, d >= 1 PROVE d * L >= L
      BY <2>3
  <2>4. CASE q - r >= 1
    <3>1. (q - r) * L = q * L - r * L /\ (q - r) * L >= L
        BY <2>3, <2>4
    <3> QED
        BY <1>5, <2>1, <2>2, <3>1
  <2> QED
      BY <2>1, <2>2, <2>4
<1> QED
    BY <1>1, <1>3, <1>4, <1>5

(* The sizes of the device.                                                *)
LEMMA FlashSizes ==
    /\ SectorSize \in Nat /\ SectorSize >= 1 /\ PageSize \in Nat /\ PageSize >= 1
    /\ ChunkSize \in Nat /\ ChunkSize >= 1 /\ BufSize \in Nat /\ BufSize >= 1
    /\ Sectors \in Nat /\ Sectors >= 1 /\ Size \in Nat /\ Size >= 1 /\ IsSector(Size)
<1>1. /\ SectorSize \in Nat \ {0} /\ PageSize \in Nat \ {0} /\ ChunkSize \in Nat \ {0}
      /\ BufSize \in Nat \ {0} /\ Sectors \in Nat \ {0}
    BY FlashAssumption
<1>2. \A a, b \in Nat \ {0} : a * b \in Nat /\ a * b >= 1
    OBVIOUS
<1>3. Size \in Nat /\ Size >= 1
    BY <1>1, <1>2 DEF Size
<1> QED
    BY <1>1, <1>3 DEF IsSector, Size

(* The sector of an address.                                               *)
LEMMA SectorHolds ==
    ASSUME NEW a \in Nat
    PROVE  /\ SectorOf(a) \in Nat /\ IsSector(SectorOf(a))
           /\ SectorOf(a) <= a /\ a < SectorOf(a) + SectorSize
<1>1. SectorSize \in Nat \ {0} /\ a \in Int
    BY FlashSizes
<1>2. a \div SectorSize \in Int /\ a % SectorSize \in 0..(SectorSize - 1)
      /\ a = (a \div SectorSize) * SectorSize + (a % SectorSize)
    BY <1>1, Quotients
<1>3. 0 \div SectorSize = 0
    BY <1>1
<1>4. a \div SectorSize \in Nat
    BY <1>1
<1>5. SectorOf(a) = (a \div SectorSize) * SectorSize
    BY <1>1, <1>2 DEF SectorOf
<1>6. \A x, y \in Nat : x * y \in Nat
    OBVIOUS
<1>7. PICK q \in Nat : q = a \div SectorSize
    BY <1>4
<1>8. PICK s \in Nat : s = q * SectorSize
    BY <1>1, <1>6
<1>9. SectorOf(a) = s /\ s <= a /\ a < s + SectorSize
    BY <1>1, <1>2, <1>5, <1>7, <1>8
<1> QED
    BY <1>8, <1>9 DEF IsSector

(* No address's sector lies across the edge of another.                    *)
LEMMA SectorEdge ==
    ASSUME NEW s, IsSector(s), NEW a \in Nat
    PROVE  /\ s \in Nat /\ IsSector(s + SectorSize)
           /\ a >= s => SectorOf(a) >= s
           /\ a < s => SectorOf(a) + SectorSize <= s
<1>1. PICK q \in Nat : s = q * SectorSize
    BY DEF IsSector
<1>2. PICK r \in Nat : SectorOf(a) = r * SectorSize
    BY SectorHolds DEF IsSector
<1>3. \A x \in Nat, y \in Nat, L \in Nat : /\ x * L \in Nat /\ (x + 1) * L = x * L + L
                                           /\ x <= y => x * L <= y * L
    OBVIOUS
<1>4. SectorSize \in Nat
    BY FlashSizes
<1>5. s \in Nat /\ s + SectorSize = (q + 1) * SectorSize
    BY <1>1, <1>3, <1>4
<1>6. SectorOf(a) \in Nat /\ SectorOf(a) <= a /\ a < SectorOf(a) + SectorSize
    BY SectorHolds
<1>7. r + 1 \in Nat /\ q + 1 \in Nat
    OBVIOUS
<1>8. CASE r >= q
  <2>1. SectorOf(a) >= s
      BY <1>1, <1>2, <1>3, <1>4, <1>8
  <2> QED
      BY <1>4, <1>5, <1>6, <1>7, <2>1 DEF IsSector
<1>9. CASE r + 1 <= q
  <2>1. SectorOf(a) + SectorSize <= s
      BY <1>1, <1>2, <1>3, <1>4, <1>7, <1>9
  <2> QED
      BY <1>4, <1>5, <1>6, <1>7, <2>1 DEF IsSector
<1> QED
    BY <1>8, <1>9

(* So an address between the edges of a sector is in it.                   *)
LEMMA SectorAt ==
    ASSUME NEW s, IsSector(s), NEW a \in Nat
    PROVE  SectorOf(a) = s <=> s <= a /\ a < s + SectorSize
<1>1. s \in Nat /\ IsSector(s + SectorSize) /\ (a >= s => SectorOf(a) >= s)
    BY SectorEdge
<1>2. s + SectorSize \in Nat /\ (a < s + SectorSize => SectorOf(a) + SectorSize <= s + SectorSize)
    BY <1>1, SectorEdge
<1>3. SectorOf(a) \in Nat /\ SectorOf(a) <= a /\ a < SectorOf(a) + SectorSize
    BY SectorHolds
<1> QED
    BY <1>1, <1>2, <1>3, FlashSizes

(* A sector that begins in the device ends in it.                          *)
LEMMA SectorEnds ==
    ASSUME NEW s, IsSector(s), s < Size
    PROVE  s \in Addr /\ s + SectorSize <= Size
<1>1. s \in Nat
    BY FlashSizes, SectorEdge
<1>2. SectorOf(s) = s
    BY <1>1, SectorAt, FlashSizes
<1>3. SectorOf(s) + SectorSize <= Size
    BY <1>1, SectorEdge, FlashSizes
<1> QED
    BY <1>1, <1>2, <1>3, FlashSizes DEF Addr

(* The page of an address, and the addresses of a page.                    *)
LEMMA PageHolds ==
    ASSUME NEW a \in Nat
    PROVE  /\ PageOf(a) \in Nat /\ PageOf(a) <= a /\ a < PageOf(a) + PageSize
           /\ PageOf(a + PageSize) = PageOf(a) + PageSize
           /\ \A j \in Nat : a <= j /\ j < PageOf(a) + PageSize => PageOf(a) + (j % PageSize) = j
<1>1. PageSize \in Nat \ {0} /\ a \in Int
    BY FlashSizes
<1>2. PICK q \in Int : q = a \div PageSize
    BY <1>1, Quotients
<1>3. a % PageSize \in 0..(PageSize - 1) /\ a = q * PageSize + (a % PageSize) /\ q \in Nat
  <2>1. q \in Nat
      BY <1>1, <1>2
  <2> QED
      BY <1>1, <1>2, <2>1, Quotients
<1>4. q * PageSize \in Nat
  <2>1. \A x, y \in Nat : x * y \in Nat
      OBVIOUS
  <2> QED
      BY <1>1, <1>3, <2>1
<1>5. PICK b \in Nat : b = q * PageSize
    BY <1>4
<1>6. PageOf(a) = b /\ b <= a /\ a < b + PageSize
    BY <1>1, <1>3, <1>5 DEF PageOf
<1>7. PageOf(a + PageSize) = b + PageSize
  <2>1. (a + PageSize) % PageSize = a % PageSize
      BY <1>1, Quotients
  <2> QED
      BY <1>1, <1>3, <1>5, <2>1 DEF PageOf
<1>8. ASSUME NEW j \in Nat, a <= j, j < b + PageSize PROVE b + (j % PageSize) = j
  <2>1. PICK k \in 0..(PageSize - 1) : k = j - b
      BY <1>1, <1>6, <1>8
  <2>2. (q * PageSize + k) % PageSize = k
      BY <1>1, Quotients
  <2>3. q * PageSize + k = j
      BY <1>5, <2>1
  <2>4. j % PageSize = k
      BY <2>2, <2>3
  <2> QED
      BY <2>1, <2>4
<1> QED
    BY <1>6, <1>7, <1>8

(* An address of the device is its own remainder.                          *)
LEMMA InRange == ASSUME NEW a \in Addr PROVE a \in Nat /\ a < Size /\ a % Size = a
<1>1. a \in Nat /\ a < Size /\ Size \in Nat \ {0}
    BY FlashSizes DEF Addr
<1>2. a \in 0..(Size - 1) /\ 0 \in Int
    BY <1>1
<1>3. (0 * Size + a) % Size = a
    BY <1>1, <1>2, Quotients
<1>4. 0 * Size + a = a
    BY <1>1
<1> QED
    BY <1>1, <1>3, <1>4

(* A program that keeps to its page.                                       *)
LEMMA ProgramIsPut ==
    ASSUME ChipTyped, NEW a \in Addr, NEW d \in Seq(FlashByte), InPage(a, d)
    PROVE  ProgrammedAt(a, d) = PutOf(chip.mem, a, d)
<1>1. a \in Nat /\ Len(d) \in Nat /\ \A i \in 1..Len(d) : d[i] \subseteq Ones
    BY InRange DEF FlashByte
<1>2. PICK b \in Nat : b = PageOf(a)
    BY <1>1, PageHolds
<1>3. a + Len(d) <= b + PageSize /\ PageSize \in Nat
    BY <1>2, FlashSizes DEF InPage
<1>4. ASSUME NEW i \in 1..Len(d) PROVE b + ((a + i - 1) % PageSize) = a + i - 1
  <2>1. PICK j \in Nat : j = a + i - 1
      BY <1>1
  <2>2. a <= j /\ j < b + PageSize
      BY <1>1, <1>2, <1>3, <2>1
  <2>3. b + (j % PageSize) = j
      BY <1>1, <1>2, <2>2, PageHolds
  <2> QED
      BY <2>1, <2>3
<1> DEFINE B(x) == {e \in Ones : \A i \in 1..Len(d) : PageOf(a) + ((a + i - 1) % PageSize) = x
                                                        => e \in d[i]}
<1>5. ASSUME NEW x \in Addr
      PROVE  chip.mem[x] \intersect B(x)
             = IF a <= x /\ x < a + Len(d) THEN chip.mem[x] \intersect d[x - a + 1] ELSE chip.mem[x]
  <2>1. x \in Nat /\ chip.mem[x] \subseteq Ones
      BY InRange DEF ChipTyped, FlashByte
  <2>2. B(x) = {e \in Ones : \A i \in 1..Len(d) : a + i - 1 = x => e \in d[i]}
      BY <1>2, <1>4
  <2> HIDE DEF B
  <2>3. CASE a <= x /\ x < a + Len(d)
    <3>1. x - a + 1 \in 1..Len(d) /\ a + (x - a + 1) - 1 = x
        BY <1>1, <2>1, <2>3
    <3>2. \A i \in 1..Len(d) : a + i - 1 = x => i = x - a + 1
        BY <1>1, <2>1
    <3>3. B(x) = d[x - a + 1]
        BY <1>1, <2>2, <3>1, <3>2
    <3> QED
        BY <2>3, <3>3
  <2>4. CASE ~(a <= x /\ x < a + Len(d))
    <3>1. \A i \in 1..Len(d) : a + i - 1 # x
        BY <1>1, <2>1, <2>4
    <3>2. B(x) = Ones
        BY <2>2, <3>1
    <3> QED
        BY <2>1, <2>4, <3>2
  <2> QED
      BY <2>3, <2>4
<1>6. ProgrammedAt(a, d) = [x \in Addr |-> chip.mem[x] \intersect B(x)]
    BY DEF ProgrammedAt
<1> HIDE DEF B
<1> QED
    BY <1>5, <1>6 DEF PutOf

(* The work of a function is done once, even if it were sent again.        *)
LEMMA WorkOnce ==
    ASSUME NEW m \in [Addr -> FlashByte], NEW g, NEW c, IsWork(c)
    PROVE  /\ MemOf(m, c) \in [Addr -> FlashByte]
           /\ MemOf(MemOf(m, c), c) = MemOf(m, c)
           /\ GotOf(MemOf(m, c), GotOf(m, g, c), c) = GotOf(m, g, c)
<1>1. c.cmd \in {"se", "pp", "read"}
    BY DEF IsWork, Works
<1>2. CASE c.cmd = "se"
  <2>1. \A n : MemOf(n, c) = EraseOf(n, c.at)
      BY <1>2 DEF MemOf
  <2>2. EraseOf(m, c.at) \in [Addr -> FlashByte]
      BY DEF EraseOf, FlashByte
  <2>3. EraseOf(EraseOf(m, c.at), c.at) = EraseOf(m, c.at)
      BY DEF EraseOf
  <2> QED
      BY <1>2, <2>1, <2>2, <2>3 DEF GotOf
<1>3. CASE c.cmd = "pp"
  <2>1. \A n : MemOf(n, c) = PutOf(n, c.at, c.data)
      BY <1>3 DEF MemOf
  <2>2. PutOf(m, c.at, c.data) \in [Addr -> FlashByte]
    <3>1. ASSUME NEW x \in Addr, NEW e PROVE m[x] \in FlashByte /\ m[x] \intersect e \in FlashByte
        BY DEF FlashByte
    <3> QED
        BY <3>1 DEF PutOf
  <2>3. PutOf(PutOf(m, c.at, c.data), c.at, c.data) = PutOf(m, c.at, c.data)
    <3> DEFINE P == PutOf(m, c.at, c.data)
               In(x) == c.at <= x /\ x < c.at + Len(c.data)
    <3>1. \A x \in Addr : P[x] = IF In(x) THEN m[x] \intersect c.data[x - c.at + 1] ELSE m[x]
        BY DEF PutOf
    <3>2. P = [x \in Addr |-> P[x]]
        BY DEF PutOf
    <3>3. PutOf(P, c.at, c.data) = [x \in Addr |-> IF In(x) THEN P[x] \intersect c.data[x - c.at + 1]
                                                   ELSE P[x]]
        BY DEF PutOf
    <3> HIDE DEF P, In
    <3>4. \A x \in Addr : (IF In(x) THEN P[x] \intersect c.data[x - c.at + 1] ELSE P[x]) = P[x]
        BY <3>1
    <3>5. PutOf(P, c.at, c.data) = P
        BY <3>2, <3>3, <3>4
    <3> QED
        BY <3>5 DEF P
  <2> QED
      BY <1>3, <2>1, <2>2, <2>3 DEF GotOf
<1>4. CASE c.cmd = "read"
    BY <1>4 DEF MemOf, GotOf
<1> QED
    BY <1>1, <1>2, <1>3, <1>4

(* What a command leaves for the others.                                   *)
LEMMA WorkLeft ==
    ASSUME NEW q, IsCommands(q), q # <<>>
    PROVE  /\ NoWork(q) => NoWork(Tail(q)) /\ Head(q).cmd \notin Works
           /\ \A c : OneWork(q, c) =>
                /\ Head(q) = c \/ Head(q).cmd \notin Works
                /\ Head(q) # c => OneWork(Tail(q), c)
                /\ NoWork(Tail(q)) \/ OneWork(Tail(q), c)
<1>1. PICK S : q \in Seq(S)
    BY DEF IsCommands
<1>2. /\ Len(q) \in Nat /\ Len(q) >= 1 /\ Head(q) = q[1] /\ Len(Tail(q)) = Len(q) - 1
      /\ \A i \in 1..Len(Tail(q)) : Tail(q)[i] = q[i + 1]
    BY <1>1, HeadTailProperties
<1>3. PICK n \in Nat : n = Len(q) - 1
  <2>1. PICK l \in Nat : l = Len(q)
      BY <1>2
  <2>2. l - 1 \in Nat
      BY <1>2, <2>1
  <2> QED
      BY <2>1, <2>2
<1>4. PICK t : t = Tail(q)
    OBVIOUS
<1>5. Len(t) = n /\ Len(q) = n + 1 /\ (\A i \in 1..n : t[i] = q[i + 1] /\ i + 1 \in 1..(n + 1))
      /\ 1 \in 1..(n + 1) /\ \A j \in 1..(n + 1) : j = 1 \/ (j - 1 \in 1..n /\ t[j - 1] = q[j])
    BY <1>2, <1>3, <1>4
<1>6. NoWork(q) => NoWork(t) /\ q[1].cmd \notin Works
    BY <1>5 DEF NoWork
<1>7. ASSUME NEW c, OneWork(q, c)
      PROVE  /\ q[1] = c \/ q[1].cmd \notin Works
             /\ q[1] # c => OneWork(t, c)
             /\ NoWork(t) \/ OneWork(t, c)
  <2>1. /\ \A i \in 1..(n + 1) : q[i] = c \/ q[i].cmd \notin Works
        /\ \E i \in 1..(n + 1) : q[i] = c
      BY <1>5, <1>7 DEF OneWork
  <2>2. \A i \in 1..n : t[i] = c \/ t[i].cmd \notin Works
      BY <1>5, <2>1
  <2>3. (\E i \in 1..n : t[i] = c) => OneWork(t, c)
      BY <1>5, <2>2 DEF OneWork
  <2>4. ~(\E i \in 1..n : t[i] = c) => NoWork(t) /\ q[1] = c
      BY <1>5, <2>1, <2>2 DEF NoWork
  <2> QED
      BY <1>5, <2>1, <2>3, <2>4
<1> QED
    BY <1>2, <1>4, <1>6, <1>7

(* Between two functions the commands have done what there was to do.      *)
LEMMA OutcomeEmpty ==
    ASSUME cmds = <<>>, NEW m, NEW g
    PROVE  Outcome(m, g) <=> m = chip.mem /\ g = got
BY DEF Outcome, NoWork, OneWork

(* No command, no change.                                                  *)
LEMMA OutcomeStill ==
    ASSUME UNCHANGED <<cmds, got>>, chip'.mem = chip.mem, NEW m, NEW g, Outcome(m, g)
    PROVE  Outcome(m, g)'
BY DEF Outcome

(* What a command does to contents and answer.                             *)
LEMMA CommandWorks ==
    ASSUME ModesInv, Command, NEW c, c = Head(cmds)
    PROVE  /\ cmds # <<>> /\ cmds' = Tail(cmds)
           /\ c.cmd \notin Works => chip'.mem = chip.mem /\ got' = got
           /\ IsWork(c) => chip'.mem = MemOf(chip.mem, c) /\ got' = GotOf(chip.mem, got, c)
<1>1. /\ cmds # <<>> /\ cmds' = Tail(cmds) /\ ChipTyped /\ found
      /\ \/ c.cmd = "rdsr" /\ UNCHANGED <<chip, got>>
         \/ c.cmd = "wren" /\ chip' = [chip EXCEPT !.wel = @ \/ ~chip.wip] /\ UNCHANGED got
         \/ c.cmd = "en4b" /\ Mode(TRUE) /\ UNCHANGED got
         \/ c.cmd = "dis4b" /\ Mode(FALSE) /\ UNCHANGED got
         \/ /\ c.cmd = "se" /\ UNCHANGED got
            /\ IF Latched THEN \E a \in FlashHit(c) : Busy(ErasedAt(a)) ELSE UNCHANGED chip
         \/ /\ c.cmd = "pp" /\ UNCHANGED got
            /\ IF Latched THEN \E a \in FlashHit(c) : Busy(ProgrammedAt(a, c.data))
               ELSE UNCHANGED chip
         \/ /\ c.cmd = "read" /\ UNCHANGED chip
            /\ \E a \in FlashHit(c) : got' = IF chip.wip THEN [i \in 1..c.n |-> Ones]
                                             ELSE BytesAt(chip.mem, a, c.n)
    BY DEF Command, ModesInv, ModesRest
<1>2. c.cmd \notin Works => chip'.mem = chip.mem /\ got' = got
  <2> SUFFICES ASSUME c.cmd \notin Works PROVE chip'.mem = chip.mem /\ got' = got
      OBVIOUS
  <2>1. got' = got /\ (chip' = chip \/ chip' = [chip EXCEPT !.wel = @ \/ ~chip.wip]
                         \/ Mode(TRUE) \/ Mode(FALSE))
      BY <1>1 DEF Works
  <2> QED
      BY <1>1, <2>1 DEF Mode, ChipTyped
<1>3. ASSUME IsWork(c)
      PROVE  chip'.mem = MemOf(chip.mem, c) /\ got' = GotOf(chip.mem, got, c)
  <2>1. /\ ~chip.wip /\ (c.cmd \in {"se", "pp"} => Latched) /\ chip.four = chip.long
        /\ c.cmd \in {"se", "pp", "read"}
    <3>1. c.cmd \in {"se", "pp", "read"}
        BY <1>3 DEF IsWork, Works
    <3>2. /\ c.cmd # "rdsr" => ~chip.wip
          /\ c.cmd \in {"en4b", "dis4b", "se", "pp"} => chip.wel
          /\ c.cmd \in {"se", "pp", "read"} => chip.four = chip.long
        BY <1>1, ModesTaken DEF CommandsTaken
    <3> QED
        BY <3>1, <3>2 DEF Latched
  <2>2. c.at \in Addr /\ FlashHit(c) = {c.at}
      BY <1>3, <2>1, InRange DEF FlashHit, IsWork
  <2>3. CASE c.cmd = "se"
    <3>1. Busy(ErasedAt(c.at)) /\ got' = got
        BY <1>1, <2>1, <2>2, <2>3
    <3>2. chip'.mem = ErasedAt(c.at)
        BY <1>1, <3>1 DEF Busy, ChipTyped
    <3> QED
        BY <2>3, <3>1, <3>2 DEF MemOf, GotOf, EraseOf, ErasedAt
  <2>4. CASE c.cmd = "pp"
    <3>1. Busy(ProgrammedAt(c.at, c.data)) /\ got' = got
        BY <1>1, <2>1, <2>2, <2>4
    <3>2. chip'.mem = ProgrammedAt(c.at, c.data)
        BY <1>1, <3>1 DEF Busy, ChipTyped
    <3>3. ProgrammedAt(c.at, c.data) = PutOf(chip.mem, c.at, c.data)
        BY <1>1, <1>3, <2>2, <2>4, ProgramIsPut DEF IsWork
    <3> QED
        BY <2>4, <3>1, <3>2, <3>3 DEF MemOf, GotOf
  <2>5. CASE c.cmd = "read"
    <3>1. UNCHANGED chip /\ got' = BytesAt(chip.mem, c.at, c.n)
        BY <1>1, <2>1, <2>2, <2>5
    <3> QED
        BY <2>5, <3>1 DEF MemOf, GotOf
  <2> QED
      BY <2>1, <2>3, <2>4, <2>5
<1> QED
    BY <1>1, <1>2, <1>3

(* What will have happened is the same before and after a command.         *)
LEMMA CommandOutcome ==
    ASSUME ModesInv, Command, NEW m, NEW g, Outcome(m, g)
    PROVE  Outcome(m, g)' /\ chip'.mem \in {chip.mem, m}
<1>1. PICK h : h = Head(cmds)
    OBVIOUS
<1>2. /\ cmds # <<>> /\ cmds' = Tail(cmds) /\ IsCommands(cmds) /\ chip.mem \in [Addr -> FlashByte]
      /\ h.cmd \notin Works => chip'.mem = chip.mem /\ got' = got
      /\ IsWork(h) => chip'.mem = MemOf(chip.mem, h) /\ got' = GotOf(chip.mem, got, h)
    BY <1>1, CommandWorks DEF ModesInv, ModesRest, ChipTyped
<1>3. CASE NoWork(cmds) /\ m = chip.mem /\ g = got
  <2>1. NoWork(cmds') /\ chip'.mem = chip.mem /\ got' = got
      BY <1>1, <1>2, <1>3, WorkLeft
  <2> QED
      BY <1>3, <2>1 DEF Outcome
<1>4. ASSUME NEW c, IsWork(c), OneWork(cmds, c), m = MemOf(chip.mem, c), g = GotOf(chip.mem, got, c)
      PROVE  Outcome(m, g)' /\ chip'.mem \in {chip.mem, m}
  <2>1. /\ h = c \/ h.cmd \notin Works
        /\ h # c => OneWork(cmds', c)
        /\ NoWork(cmds') \/ OneWork(cmds', c)
      BY <1>1, <1>2, <1>4, WorkLeft
  <2>2. CASE h = c
    <3>1. chip'.mem = m /\ got' = g
        BY <1>2, <1>4, <2>2
    <3>2. MemOf(m, c) = m /\ GotOf(m, g, c) = g
        BY <1>2, <1>4, WorkOnce
    <3>3. Outcome(m, g)'
      <4>1. CASE NoWork(cmds')
          BY <3>1, <4>1 DEF Outcome
      <4>2. CASE OneWork(cmds', c)
          BY <1>4, <3>1, <3>2, <4>2 DEF Outcome
      <4> QED
          BY <2>1, <4>1, <4>2
    <3> QED
        BY <3>1, <3>3
  <2>3. CASE h # c
    <3>1. chip'.mem = chip.mem /\ got' = got /\ OneWork(cmds', c)
        BY <1>2, <2>1, <2>3
    <3> QED
        BY <1>4, <3>1 DEF Outcome
  <2> QED
      BY <2>2, <2>3
<1> QED
    BY <1>3, <1>4 DEF Outcome

(* Commands that do no work stand around the one that does.                *)
LEMMA WorkBeside ==
    ASSUME NEW S, NEW p \in Seq(S), NEW q \in Seq(S), NoWork(p)
    PROVE  /\ NoWork(q) => NoWork(p \o q)
           /\ \A c : OneWork(q, c) => OneWork(p \o q, c) /\ OneWork(q \o p, c)
<1>1. PICK n \in Nat, k \in Nat : n = Len(p) /\ k = Len(q)
    OBVIOUS
<1>2. /\ Len(p \o q) = n + k /\ Len(q \o p) = k + n
      /\ \A i \in 1..(n + k) : (p \o q)[i] = IF i <= n THEN p[i] ELSE q[i - n]
      /\ \A i \in 1..(k + n) : (q \o p)[i] = IF i <= k THEN q[i] ELSE p[i - k]
    BY <1>1, ConcatProperties
<1>3. \A i \in 1..n : p[i].cmd \notin Works
    BY <1>1 DEF NoWork
<1>4. /\ \A i \in 1..(n + k) : (i <= n => i \in 1..n) /\ (~(i <= n) => i - n \in 1..k)
      /\ \A i \in 1..(k + n) : (i <= k => i \in 1..k) /\ (~(i <= k) => i - k \in 1..n)
      /\ \A i \in 1..k : i + n \in 1..(n + k) /\ ~(i + n <= n) /\ (i + n) - n = i
      /\ \A i \in 1..k : i \in 1..(k + n) /\ i <= k
    OBVIOUS
<1>5. ASSUME NoWork(q) PROVE NoWork(p \o q)
    BY <1>1, <1>2, <1>3, <1>4, <1>5 DEF NoWork
<1>6. ASSUME NEW c, OneWork(q, c) PROVE OneWork(p \o q, c) /\ OneWork(q \o p, c)
  <2>1. (\A i \in 1..k : q[i] = c \/ q[i].cmd \notin Works) /\ \E i \in 1..k : q[i] = c
      BY <1>1, <1>6 DEF OneWork
  <2>2. PICK j \in 1..k : q[j] = c
      BY <2>1
  <2>3. \A i \in 1..(n + k) : (p \o q)[i] = c \/ (p \o q)[i].cmd \notin Works
      BY <1>2, <1>3, <1>4, <2>1
  <2>4. \A i \in 1..(k + n) : (q \o p)[i] = c \/ (q \o p)[i].cmd \notin Works
      BY <1>2, <1>3, <1>4, <2>1
  <2>5. (p \o q)[j + n] = c /\ (q \o p)[j] = c
      BY <1>2, <1>4, <2>2
  <2>6. OneWork(p \o q, c)
      BY <1>2, <1>4, <2>3, <2>5 DEF OneWork
  <2>7. OneWork(q \o p, c)
      BY <1>2, <1>4, <2>4, <2>5 DEF OneWork
  <2> QED
      BY <2>6, <2>7
<1> QED
    BY <1>5, <1>6

(* The functions of epcs_commands.c have one command that does the work.   *)
LEMMA ScriptsWork ==
    ASSUME NEW c, IsWork(c)
    PROVE  /\ OneWork(Enter4 \o WriteEnable \o <<c>> \o Await \o Exit4, c)
           /\ OneWork(Enter4 \o Await \o <<c>> \o Exit4, c)
<1> DEFINE w == WriteEnable
           e == Cmd("en4b")
           d == Cmd("dis4b")
           r == Await
           z == <<c>>
<1>1. PICK S : /\ w \in Seq(S) /\ Len(w) = 1 /\ w[1].cmd = "wren"
               /\ r \in Seq(S) /\ Len(r) = 1 /\ r[1].cmd = "rdsr"
               /\ e \in Seq(S) /\ Len(e) = 1 /\ e[1].cmd = "en4b"
               /\ d \in Seq(S) /\ Len(d) = 1 /\ d[1].cmd = "dis4b"
               /\ z \in Seq(S) /\ Len(z) = 1 /\ z[1] = c
  <2> HIDE DEF w, r, e, d, z
  <2> QED
      BY AloneCommands DEF w, r, e, d, z
<1>2. Enter4 = (IF chip.long THEN w \o e ELSE <<>>) /\ Exit4 = (IF chip.long THEN w \o d ELSE <<>>)
    BY DEF Enter4, Exit4
<1>3. /\ Enter4 \o WriteEnable \o <<c>> \o Await \o Exit4 = ((((Enter4 \o w) \o z) \o r) \o Exit4)
      /\ Enter4 \o Await \o <<c>> \o Exit4 = (((Enter4 \o r) \o z) \o Exit4)
    OBVIOUS
<1> HIDE DEF w, e, d, r, z
<1>4. NoWork(w) /\ NoWork(e) /\ NoWork(d) /\ NoWork(r) /\ OneWork(z, c)
    BY <1>1 DEF NoWork, OneWork, Works
<1>5. <<>> \in Seq(S) /\ NoWork(<<>>)
    BY DEF NoWork
<1>6. /\ w \o e \in Seq(S) /\ w \o d \in Seq(S)
      /\ NoWork(w \o e) /\ NoWork(w \o d)
    BY <1>1, <1>4, WorkBeside, ConcatProperties
<1>7. PICK i \in Seq(S), o \in Seq(S) : i = Enter4 /\ o = Exit4 /\ NoWork(i) /\ NoWork(o)
    BY <1>2, <1>5, <1>6
<1>8. /\ i \o w \in Seq(S) /\ i \o r \in Seq(S) /\ NoWork(i \o w) /\ NoWork(i \o r)
    BY <1>1, <1>4, <1>7, WorkBeside, ConcatProperties
<1>9. /\ (i \o w) \o z \in Seq(S) /\ OneWork((i \o w) \o z, c)
      /\ (i \o r) \o z \in Seq(S) /\ OneWork((i \o r) \o z, c)
    BY <1>1, <1>4, <1>8, WorkBeside, ConcatProperties
<1>10. ((i \o w) \o z) \o r \in Seq(S) /\ OneWork(((i \o w) \o z) \o r, c)
    BY <1>1, <1>4, <1>9, WorkBeside, ConcatProperties
<1>11. OneWork((((i \o w) \o z) \o r) \o o, c)
    BY <1>7, <1>10, WorkBeside
<1>12. OneWork(((i \o r) \o z) \o o, c)
    BY <1>7, <1>9, WorkBeside
<1> QED
    BY <1>3, <1>7, <1>11, <1>12

(* What a function will have done when it is begun.                        *)
LEMMA EraseBegins ==
    ASSUME NEW a \in Addr, NEW m, NEW g, m = EraseOf(chip.mem, a), g = got,
           cmds' = SectorErase(a), chip'.mem = chip.mem, got' = got
    PROVE  Outcome(m, g)'
<1>1. PICK c : c = [cmd |-> "se", at |-> a, data |-> <<>>, n |-> 0]
    OBVIOUS
<1>2. IsWork(c) /\ c.cmd = "se" /\ c.at = a
    BY <1>1 DEF IsWork, Works
<1>3. SectorErase(a) = Enter4 \o WriteEnable \o <<c>> \o Await \o Exit4
    BY <1>1 DEF SectorErase, At
<1>4. OneWork(cmds', c)
    BY <1>2, <1>3, ScriptsWork
<1>5. m = MemOf(chip.mem, c) /\ g = GotOf(chip.mem, got, c)
    BY <1>2 DEF MemOf, GotOf
<1> QED
    BY <1>2, <1>4, <1>5 DEF Outcome

LEMMA WriteBegins ==
    ASSUME NEW a \in Addr, NEW d \in Seq(FlashByte), InPage(a, d),
           NEW m, NEW g, m = PutOf(chip.mem, a, d), g = got,
           cmds' = WriteBuffer(a, d), chip'.mem = chip.mem, got' = got
    PROVE  Outcome(m, g)'
<1>1. PICK c : c = [cmd |-> "pp", at |-> a, data |-> d, n |-> 0]
    OBVIOUS
<1>2. IsWork(c) /\ c.cmd = "pp" /\ c.at = a /\ c.data = d
    BY <1>1 DEF IsWork, Works
<1>3. WriteBuffer(a, d) = Enter4 \o WriteEnable \o <<c>> \o Await \o Exit4
    BY <1>1 DEF WriteBuffer, At
<1>4. OneWork(cmds', c)
    BY <1>2, <1>3, ScriptsWork
<1>5. m = MemOf(chip.mem, c) /\ g = GotOf(chip.mem, got, c)
    BY <1>2 DEF MemOf, GotOf
<1> QED
    BY <1>2, <1>4, <1>5 DEF Outcome

LEMMA ReadBegins ==
    ASSUME NEW a \in Addr, NEW n \in Nat, NEW m, NEW g, m = chip.mem, g = BytesAt(chip.mem, a, n),
           cmds' = ReadBuffer(a, n), chip'.mem = chip.mem, got' = got
    PROVE  Outcome(m, g)'
<1>1. PICK c : c = [cmd |-> "read", at |-> a, data |-> <<>>, n |-> n]
    OBVIOUS
<1>2. IsWork(c) /\ c.cmd = "read" /\ c.at = a /\ c.n = n
    BY <1>1 DEF IsWork, Works
<1>3. ReadBuffer(a, n) = Enter4 \o Await \o <<c>> \o Exit4
    BY <1>1 DEF ReadBuffer, At
<1>4. OneWork(cmds', c)
    BY <1>2, <1>3, ScriptsWork
<1>5. m = MemOf(chip.mem, c) /\ g = GotOf(chip.mem, got, c)
    BY <1>2 DEF MemOf, GotOf
<1> QED
    BY <1>2, <1>4, <1>5 DEF Outcome

(* Data q of length l cut in two: its first n elements, p, and the others. *)
Cut(q, l, n, p, r) ==
    /\ l \in Nat /\ p \in Seq(FlashByte) /\ Len(p) = n /\ \A i \in 1..n : p[i] = q[i]
    /\ r \in Seq(FlashByte) /\ Len(r) = l - n
    /\ \A i \in 1..(l - n) : r[i] = q[n + i] /\ n + i \in 1..l

LEMMA SeqCut ==
    ASSUME NEW q \in Seq(FlashByte), NEW n \in Nat, NEW l, l = Len(q), n <= l,
           NEW p, NEW r, p = SubSeq(q, 1, n), r = SubSeq(q, n + 1, l)
    PROVE  Cut(q, l, n, p, r)
<1>1. l \in Nat
    OBVIOUS
<1>2. /\ p \in Seq(FlashByte) /\ Len(p) = IF 1 <= n THEN n - 1 + 1 ELSE 0
      /\ \A i \in 1..(n - 1 + 1) : p[i] = q[1 + i - 1]
    BY <1>1, SubSeqProperties
<1>3. /\ r \in Seq(FlashByte) /\ Len(r) = IF n + 1 <= l THEN l - (n + 1) + 1 ELSE 0
      /\ \A i \in 1..(l - (n + 1) + 1) : r[i] = q[n + 1 + i - 1]
  <2>1. PICK k \in Nat : k = n + 1
      OBVIOUS
  <2>2. k \in 1..(l + 1) /\ l \in k-1..l
      BY <1>1, <2>1
  <2>3. r = SubSeq(q, k, l)
      BY <2>1
  <2>4. /\ r \in Seq(FlashByte) /\ Len(r) = IF k <= l THEN l - k + 1 ELSE 0
        /\ \A i \in 1..(l - k + 1) : r[i] = q[k + i - 1]
      BY <2>2, <2>3, SubSeqProperties
  <2> QED
      BY <2>1, <2>4
<1>4. Len(p) = n /\ \A i \in 1..n : p[i] = q[i]
    BY <1>2
<1>5. Len(r) = l - n /\ \A i \in 1..(l - n) : r[i] = q[n + i] /\ n + i \in 1..l
  <2>1. l - (n + 1) + 1 = l - n
      BY <1>1
  <2>2. \A i \in 1..(l - n) : n + 1 + i - 1 = n + i /\ n + i \in 1..l
      BY <1>1
  <2> QED
      BY <1>1, <1>3, <2>1, <2>2
<1> QED
    BY <1>1, <1>2, <1>3, <1>4, <1>5 DEF Cut

(* So the data w of a call are handed on in parts.                         *)
LEMMA PartsCarried ==
    ASSUME NEW q \in Seq(FlashByte), NEW l, l = Len(q), NEW n \in Nat, n <= l,
           NEW p, NEW r, p = SubSeq(q, 1, n), r = SubSeq(q, n + 1, l), NEW a \in Nat
    PROVE  /\ p \in Seq(FlashByte) /\ Len(p) = n /\ r \in Seq(FlashByte) /\ Len(r) = l - n
           /\ \A w : (\A i \in 1..l : q[i] = w[a + i - 1]) =>
                /\ \A i \in 1..n : p[i] = w[a + i - 1]
                /\ \A i \in 1..(l - n) : r[i] = w[a + n + i - 1]
<1>1. /\ l \in Nat /\ p \in Seq(FlashByte) /\ Len(p) = n /\ \A i \in 1..n : p[i] = q[i]
      /\ r \in Seq(FlashByte) /\ Len(r) = l - n
      /\ \A i \in 1..(l - n) : r[i] = q[n + i] /\ n + i \in 1..l
  <2>1. Cut(q, l, n, p, r)
      BY SeqCut
  <2> QED
      BY <2>1 DEF Cut
<1>2. ASSUME NEW w, \A i \in 1..l : q[i] = w[a + i - 1]
      PROVE  /\ \A i \in 1..n : p[i] = w[a + i - 1]
             /\ \A i \in 1..(l - n) : r[i] = w[a + n + i - 1]
  <2>1. \A i \in 1..n : i \in 1..l
      BY <1>1
  <2>2. \A i \in 1..(l - n) : r[i] = w[a + (n + i) - 1]
      BY <1>1, <1>2
  <2>3. \A i \in 1..(l - n) : a + (n + i) - 1 = a + n + i - 1
    <3>1. l \in Nat
        BY <1>1
    <3> QED
        BY <3>1
  <2> QED
      BY <1>1, <1>2, <2>1, <2>2, <2>3
<1> QED
    BY <1>1, <1>2

(* Bytes read from addresses of the device.                                *)
LEMMA BytesRead ==
    ASSUME NEW m \in [Addr -> FlashByte], NEW a \in Nat, NEW n \in Nat, n >= 1, a + n <= Size,
           NEW g, g = BytesAt(m, a, n)
    PROVE  g = [i \in 1..n |-> m[a + i - 1]] /\ g \in Seq(FlashByte) /\ Len(g) = n
<1>1. \A i \in 1..n : a + i - 1 \in Addr
    BY FlashSizes DEF Addr
<1>2. \A i \in 1..n : (a + i - 1) % Size = a + i - 1
    BY <1>1, InRange
<1>3. g = [i \in 1..n |-> m[a + i - 1]]
    BY <1>2 DEF BytesAt
<1>4. g \in [1..n -> FlashByte]
    BY <1>1, <1>3
<1> QED
    BY <1>3, <1>4

(* Where the call has no data, its sector is to stay as it was.            *)
LEMMA GoalOutside ==
    ASSUME CallTyped, NEW a \in Addr, ~\E x \in Nat : InCall(x) /\ SectorOf(x) = SectorOf(a)
    PROVE  Goal(a) = flashBefore[a]
<1>1. PICK s \in Nat : s = SectorOf(a) /\ IsSector(s)
    BY InRange, SectorHolds
<1>2. Held(s)
  <2>1. ASSUME NEW x \in s..(s + SectorSize - 1), InCall(x) PROVE FALSE
    <3>1. x \in Nat /\ s <= x /\ x < s + SectorSize
        BY <1>1, <2>1, FlashSizes
    <3>2. SectorOf(x) = s
        BY <1>1, <3>1, SectorAt
    <3> QED
        BY <1>1, <2>1, <3>1, <3>2
  <2> QED
      BY <2>1 DEF Held
<1> QED
    BY <1>1, <1>2 DEF Goal

(* An address of the call is in its area.                                  *)
LEMMA InArea ==
    ASSUME CallTyped, NEW x \in Nat
    PROVE  InCall(x) <=> x \in Area
<1>1. PICK l \in Nat, c \in Nat : l = Len(call.data) /\ c = call.at
    BY DEF CallTyped
<1>2. InCall(x) <=> c <= x /\ x < c + l
    BY <1>1 DEF InCall, CallEnd
<1>3. Area = {c + i - 1 : i \in 1..l}
    BY <1>1 DEF Area
<1>4. ASSUME c <= x, x < c + l PROVE x \in {c + i - 1 : i \in 1..l}
  <2>1. x - c + 1 \in 1..l /\ c + (x - c + 1) - 1 = x
      BY <1>1, <1>4
  <2> QED
      BY <2>1
<1>5. ASSUME NEW i \in 1..l, x = c + i - 1 PROVE c <= x /\ x < c + l
    BY <1>1, <1>5
<1> QED
    BY <1>2, <1>3, <1>4, <1>5

(* The work of a call stays in the sectors it names.                       *)
LEMMA StageUntouched ==
    ASSUME CallTyped, NEW m, NEW g, Stage(m, g), phase \in {"compare", "pages", "last"}
    PROVE  Untouched(m)
<1> SUFFICES ASSUME NEW a \in Addr, SectorOf(a) \notin {SectorOf(x) : x \in Area \union {call.at}}
             PROVE  m[a] = flashBefore[a]
    BY DEF Untouched
<1>0. a \in Nat
    BY InRange
<1>1. ~\E x \in Nat : InCall(x) /\ SectorOf(x) = SectorOf(a)
    BY InArea
<1>2. SectorOf(a) # SectorOf(call.at) /\ Goal(a) = flashBefore[a] /\ ~InCall(a)
    BY <1>0, <1>1, GoalOutside
<1>3. ASSUME Comparing(m, g) PROVE m[a] = flashBefore[a]
    BY <1>2, <1>3 DEF Comparing
<1>4. ASSUME Filling(m) PROVE m[a] = flashBefore[a]
  <2>1. IsSector(block) /\ ~Held(block) /\ block \in Nat
      BY <1>4, FlashSizes, SectorEdge DEF Filling, OneBlock
  <2>2. PICK x \in block..(block + SectorSize - 1) : InCall(x)
      BY <2>1 DEF Held
  <2>3. x \in Nat /\ block <= x /\ x < block + SectorSize
      BY <2>1, <2>2, FlashSizes
  <2>4. SectorOf(x) = block
      BY <2>1, <2>3, SectorAt
  <2>5. SectorOf(a) # block
      BY <1>1, <2>2, <2>3, <2>4
  <2>6. a < block \/ a >= block + SectorSize
      BY <1>0, <2>1, <2>5, SectorAt, FlashSizes
  <2> QED
      BY <1>0, <1>2, <1>4, <2>1, <2>6, FlashSizes DEF Filling
<1>5. ASSUME Programming(m) PROVE m[a] = flashBefore[a]
    BY <1>2, <1>5 DEF Programming, Put
<1>6. ASSUME One(m, g) PROVE m[a] = flashBefore[a]
    BY <1>2, <1>6 DEF One, EraseOf
<1> QED
    BY <1>3, <1>4, <1>5, <1>6 DEF Stage

(* The lesser of two numbers.                                              *)
LEMMA LeastIs ==
    ASSUME NEW a \in Nat, NEW b \in Nat, NEW n, n = Least(a, b)
    PROVE  /\ n \in Nat /\ n <= a /\ n <= b /\ (n = a \/ n = b)
           /\ a <= b => n = a
           /\ b <= a => n = b
BY DEF Least

(* The addresses before b are as they shall be.                            *)
DoneTo(m, b) == \A x \in Addr : m[x] = IF x < b THEN Goal(x) ELSE flashBefore[x]

(* The first block of what is left to write.                               *)
LEMMA BlockStarts ==
    ASSUME NEW a \in Addr, NEW d, NEW b, NEW m \in [Addr -> FlashByte],
           call'.op = "write", call'.at \in Nat, b = SectorOf(a), Carries(d, a)', Len(d) > 0,
           a + Len(d) = CallEnd', call'.at <= a, a = call'.at \/ a = b,
           StartBlock(a, d), chip'.mem = chip.mem, got' = got, m = chip.mem,
           DoneTo(m, b)'
    PROVE  \E g : Outcome(m, g)' /\ Stage(m, g)'
<1>1. /\ a \in Nat /\ a < Size /\ b \in Nat /\ IsSector(b) /\ b <= a /\ a < b + SectorSize
      /\ SectorSize \in Nat /\ ChunkSize \in Nat /\ ChunkSize >= 1
    BY InRange, SectorHolds, FlashSizes
<1>2. PICK l \in Nat : l = Len(d)
    BY DEF Carries
<1>3. PICK k \in Nat : k = b + SectorSize - a /\ k >= 1
  <2>1. b + SectorSize - a \in Nat /\ b + SectorSize - a >= 1
      BY <1>1
  <2> QED
      BY <2>1
<1>4. PICK n \in Nat : n = Least(l, k) /\ n >= 1 /\ n <= l /\ n <= k /\ (n = l \/ n = k)
  <2>1. PICK n : n = Least(l, k)
      OBVIOUS
  <2>2. l >= 1 /\ n \in Nat /\ n <= l /\ n <= k /\ (n = l \/ n = k)
      BY <1>2, <2>1, LeastIs
  <2> QED
      BY <1>3, <2>1, <2>2
<1>5. BlockPart(a, Len(d)) = n
    BY <1>1, <1>2, <1>3, <1>4 DEF BlockPart
<1>6. PICK t \in Nat : t = Least(ChunkSize, n) /\ t >= 1 /\ t <= n
  <2>1. PICK t : t = Least(ChunkSize, n)
      OBVIOUS
  <2>2. t \in Nat /\ t <= n /\ (t = n \/ t = ChunkSize)
      BY <1>1, <2>1, LeastIs
  <2> QED
      BY <1>1, <1>4, <2>1, <2>2
<1>7. /\ phase' = "compare" /\ block' = b /\ at' = a /\ cmp' = 0
      /\ piece' = SubSeq(d, 1, n) /\ rest' = SubSeq(d, n + 1, Len(d))
      /\ cmds' = ReadBuffer(a, t)
    BY <1>5, <1>6 DEF StartBlock
<1>8. /\ Carries(piece, a)' /\ Len(piece') = n /\ Carries(rest, a + n)' /\ Len(rest') = l - n
  <2>1. PICK p, r : p = piece' /\ r = rest'
      OBVIOUS
  <2>2. d \in Seq(FlashByte) /\ p = SubSeq(d, 1, n) /\ r = SubSeq(d, n + 1, l)
      BY <1>2, <1>7, <2>1 DEF Carries
  <2>3. PICK w : w = [x \in Nat |-> DataAt(x)']
      OBVIOUS
  <2>4. \A i \in 1..l : d[i] = w[a + i - 1]
    <3>1. ASSUME NEW i \in 1..l PROVE d[i] = w[a + i - 1]
      <4>1. PICK x \in Nat : x = a + i - 1
        <5>1. a + i - 1 \in Nat
            BY <1>1
        <5> QED
            BY <5>1
      <4>2. d[i] = DataAt(x)'
          BY <1>2, <4>1 DEF Carries
      <4> QED
          BY <2>3, <4>1, <4>2
    <3> QED
        BY <3>1
  <2>5. /\ p \in Seq(FlashByte) /\ Len(p) = n /\ r \in Seq(FlashByte) /\ Len(r) = l - n
        /\ \A i \in 1..n : p[i] = w[a + i - 1]
        /\ \A i \in 1..(l - n) : r[i] = w[a + n + i - 1]
    <3>1. d \in Seq(FlashByte) /\ l = Len(d) /\ n \in Nat /\ n <= l /\ a \in Nat
        BY <1>1, <1>2, <1>4, <2>2
    <3>2. p = SubSeq(d, 1, n) /\ r = SubSeq(d, n + 1, l)
        BY <2>2
    <3>3. /\ p \in Seq(FlashByte) /\ Len(p) = n /\ r \in Seq(FlashByte) /\ Len(r) = l - n
          /\ \A v : (\A i \in 1..l : d[i] = v[a + i - 1]) =>
               /\ \A i \in 1..n : p[i] = v[a + i - 1]
               /\ \A i \in 1..(l - n) : r[i] = v[a + n + i - 1]
        BY <3>1, <3>2, PartsCarried
    <3> QED
        BY <2>4, <3>3
  <2>6. \A i \in 1..n : w[a + i - 1] = DataAt(a + i - 1)'
    <3>1. \A i \in 1..n : a + i - 1 \in Nat
        BY <1>1
    <3> QED
        BY <2>3, <3>1
  <2>7. \A i \in 1..(l - n) : w[a + n + i - 1] = DataAt(a + n + i - 1)'
    <3>1. a \in Nat /\ n \in Nat /\ l \in Nat
        BY <1>1, <1>2, <1>4
    <3>2. \A i \in 1..(l - n) : a + n + i - 1 \in Nat
        BY <3>1
    <3> QED
        BY <2>3, <3>2
  <2>8. Carries(p, a)'
      BY <2>5, <2>6 DEF Carries
  <2>9. Carries(r, a + n)'
      BY <2>5, <2>7 DEF Carries
  <2> QED
      BY <2>1, <2>5, <2>8, <2>9 DEF Carries, DataAt
<1>9. PICK g : g = BytesAt(m, a, t)
    OBVIOUS
<1>10. Outcome(m, g)'
    BY <1>6, <1>7, <1>9, ReadBegins
<1>11. CallEnd' = a + l
    BY <1>2
<1>12. SplitUp'
  <2>1. at' = a /\ a + n + (l - n) = a + l
      BY <1>1, <1>7
  <2>2. at' + Len(piece') = a + n
      BY <1>8, <2>1
  <2>3. at' + Len(piece') + Len(rest') = CallEnd'
      BY <1>8, <1>11, <2>1, <2>2
  <2>4. Carries(piece, at)' /\ Carries(rest, at + Len(piece))'
      BY <1>8, <2>1, <2>2 DEF Carries, DataAt
  <2> QED
      BY <1>1, <2>1, <2>3, <2>4 DEF SplitUp
<1>13. OneBlock'
  <2>1. a + n = Least(a + l, b + SectorSize)
    <3>1. CASE n = l
      <4>1. a + l <= b + SectorSize
          BY <1>1, <1>3, <1>4, <3>1
      <4> QED
          BY <1>1, <1>2, <3>1, <4>1 DEF Least
    <3>2. CASE n = k
      <4>1. a + n = b + SectorSize /\ b + SectorSize <= a + l
          BY <1>1, <1>3, <1>4, <3>2
      <4> QED
          BY <1>1, <1>2, <4>1 DEF Least
    <3> QED
        BY <1>4, <3>1, <3>2
  <2>2. at' + Len(piece') = Least(CallEnd', block' + SectorSize)
      BY <1>7, <1>8, <1>11, <2>1
  <2>3. block' < Size /\ block' <= at' /\ IsSector(block')
      BY <1>1, <1>7, FlashSizes
  <2> QED
      BY <1>12, <2>2, <2>3 DEF OneBlock
<1>14. Comparing(m, g)'
  <2>1. at' + cmp' = a /\ Len(piece') - cmp' = n
      BY <1>1, <1>4, <1>7, <1>8
  <2>2. g = BytesAt(m, at' + cmp', Least(ChunkSize, Len(piece') - cmp'))
      BY <1>6, <1>9, <2>1
  <2>3. /\ at' = block' \/ at' = call'.at
        /\ Len(piece') > 0 /\ cmp' \in Nat /\ cmp' < Len(piece')
        /\ \A i \in 1..cmp' : piece'[i] = flashBefore'[at' + i - 1]
      BY <1>4, <1>7, <1>8
  <2>4. \A x \in Addr : m[x] = IF x < block' THEN Goal(x)' ELSE flashBefore'[x]
      BY <1>7 DEF DoneTo
  <2> QED
      BY <1>13, <2>2, <2>3, <2>4 DEF Comparing
<1> QED
    BY <1>7, <1>10, <1>14 DEF Stage

(* This block is as it shall be.                                           *)
BlockDone(m) == DoneTo(m, block + SectorSize)

(* Between two functions nothing is under way.                             *)
AtRest(m) == cmds = <<>> /\ m = chip.mem /\ m \in [Addr -> FlashByte]

(* The next block of a write, or its end.                                  *)
LEMMA NextBlockWrite ==
    ASSUME CallTyped, OneBlock, NEW m, AtRest(m), BlockDone(m), NextBlock,
           UNCHANGED <<chip, got, client>>
    PROVE  \E g : Outcome(m, g)' /\ Stage(m, g)'
<1>0. /\ call.op = "write" /\ IsSector(block) /\ block < Size /\ block <= at /\ SplitUp
      /\ at + Len(piece) = Least(CallEnd, block + SectorSize)
      /\ cmds = <<>> /\ m = chip.mem /\ m \in [Addr -> FlashByte]
      /\ UNCHANGED <<chip, got, call, flashBefore, program, verified>> /\ call.at \in Nat
    BY DEF OneBlock, AtRest, client, CallTyped
<1>1. PICK e, q, b : e = CallEnd /\ q = rest /\ b = block + SectorSize
    OBVIOUS
<1>2. /\ q \in Seq(FlashByte) /\ Len(q) \in Nat /\ Len(piece) \in Nat /\ at \in Nat
      /\ at + Len(piece) + Len(q) = e /\ Carries(q, at + Len(piece)) /\ call.at <= at
    BY <1>0, <1>1 DEF SplitUp, Carries
<1>3. SectorSize \in Nat /\ SectorSize >= 1 /\ Size \in Nat /\ block \in Nat /\ b \in Nat /\ IsSector(b)
    BY <1>0, <1>1, FlashSizes, SectorEdge
<1>4. e \in Nat /\ call.at <= e
    BY <1>0, <1>1, <1>2
<1>5. CASE q # <<>> /\ b < Size
  <2>1. Len(q) > 0
      BY <1>2, <1>5
  <2>2. at + Len(piece) = b
      BY <1>0, <1>1, <1>2, <1>3, <1>4, <2>1 DEF Least
  <2>3. StartBlock(b, q)
      BY <1>0, <1>1, <1>5 DEF NextBlock, NextOffset
  <2>4. b \in Addr /\ SectorOf(b) = b
      BY <1>3, <1>5, SectorEnds, SectorAt
  <2>5. Carries(q, b)' /\ b + Len(q) = CallEnd' /\ call'.at <= b
    <3>1. call.at <= b
        BY <1>0, <1>2, <2>2
    <3>2. Carries(q, b)
        BY <1>2, <2>2
    <3>3. Carries(q, b)'
        BY <1>0, <3>2 DEF Carries, DataAt
    <3>4. CallEnd' = e
        BY <1>0, <1>1 DEF CallEnd
    <3> QED
        BY <1>0, <1>2, <2>2, <3>1, <3>3, <3>4
  <2>6. DoneTo(m, b)'
    <3>1. \A x : Goal(x)' = Goal(x)
        BY <1>0 DEF Goal, Held, Want, InCall, CallEnd, DataAt
    <3> QED
        BY <1>0, <1>1, <3>1 DEF BlockDone, DoneTo
  <2> QED
      BY <1>0, <2>1, <2>3, <2>4, <2>5, <2>6, BlockStarts
<1>6. CASE ~(q # <<>> /\ b < Size)
  <2>1. Return("ok")
      BY <1>0, <1>1, <1>6 DEF NextBlock, NextOffset
  <2>2. ASSUME NEW x \in Addr PROVE m[x] = Goal(x)
    <3>1. x \in Nat /\ x < Size
        BY InRange
    <3>2. CASE x < b
        BY <1>1, <3>2 DEF BlockDone, DoneTo
    <3>3. CASE x >= b
      <4>1. q = <<>>
          BY <1>3, <1>6, <3>1, <3>3
      <4>2. e <= b
          BY <1>0, <1>1, <1>2, <1>3, <1>4, <4>1 DEF Least
      <4>3. SectorOf(x) >= b
          BY <1>3, <3>1, <3>3, SectorEdge
      <4>4. ASSUME NEW y \in Nat, InCall(y), SectorOf(y) = SectorOf(x) PROVE FALSE
        <5>1. y < e /\ y >= SectorOf(y)
            BY <1>1, <4>4, SectorHolds DEF InCall
        <5>2. SectorOf(x) \in Nat
            BY <3>1, SectorHolds
        <5> QED
            BY <1>3, <1>4, <4>2, <4>3, <4>4, <5>1, <5>2
      <4>5. Goal(x) = flashBefore[x]
          BY <4>4, GoalOutside
      <4> QED
          BY <1>1, <1>3, <3>1, <3>3, <4>5 DEF BlockDone, DoneTo
    <3> QED
        BY <1>3, <3>1, <3>2, <3>3
  <2>3. \A x : Goal(x)' = Goal(x)
      BY <1>0 DEF Goal, Held, Want, InCall, CallEnd, DataAt
  <2>4. phase' = "idle" /\ ret' = "ok" /\ cmds' = cmds
      BY <2>1 DEF Return
  <2>5. Result(m, got)'
      BY <1>0, <2>2, <2>3, <2>4 DEF Result
  <2>6. PICK g : g = got
      OBVIOUS
  <2>7. Outcome(m, g)'
      BY <1>0, <2>4, <2>6 DEF Outcome, NoWork
  <2>8. Stage(m, g)'
      BY <1>0, <2>4, <2>5, <2>6 DEF Stage
  <2> QED
      BY <2>7, <2>8
<1> QED
    BY <1>5, <1>6

(* What the comparison of the next bytes says.                             *)
LEMMA ChunkCompared ==
    ASSUME CallTyped, NEW m \in [Addr -> FlashByte], NEW g, Comparing(m, g),
           NEW u, u = cmp + Len(g)
    PROVE  /\ u \in Nat /\ u > cmp /\ u <= Len(piece)
           /\ g = SubSeq(piece, cmp + 1, u) =>
                \A i \in 1..u : piece[i] = flashBefore[at + i - 1]
           /\ g # SubSeq(piece, cmp + 1, u) =>
                \E i \in 1..Len(piece) : piece[i] # flashBefore[at + i - 1]
<1>1. /\ OneBlock /\ cmp \in Nat /\ cmp < Len(piece)
      /\ \A i \in 1..cmp : piece[i] = flashBefore[at + i - 1]
      /\ \A x \in Addr : m[x] = IF x < block THEN Goal(x) ELSE flashBefore[x]
      /\ g = BytesAt(m, at + cmp, Least(ChunkSize, Len(piece) - cmp))
    BY DEF Comparing
<1>2. PICK p, l, a, c : p = piece /\ l = Len(piece) /\ a = at /\ c = cmp
    OBVIOUS
<1>3. /\ p \in Seq(FlashByte) /\ l \in Nat /\ a \in Nat /\ c \in Nat /\ c < l /\ block <= a
      /\ a + l = Least(CallEnd, block + SectorSize) /\ block \in Nat /\ block + SectorSize <= Size
      /\ SectorSize \in Nat /\ Size \in Nat /\ ChunkSize \in Nat /\ ChunkSize >= 1 /\ CallEnd \in Nat
  <2>1. block \in Nat /\ block + SectorSize <= Size
      BY <1>1, FlashSizes, SectorEdge, SectorEnds DEF OneBlock
  <2>2. piece \in Seq(FlashByte) /\ Len(piece) \in Nat
      BY <1>1 DEF OneBlock, SplitUp, Carries
  <2>3. CallEnd \in Nat
      BY DEF CallEnd, CallTyped
  <2> QED
      BY <1>1, <1>2, <2>1, <2>2, <2>3, FlashSizes DEF OneBlock, SplitUp
<1>4. a + l <= Size
  <2>1. PICK n : n = Least(CallEnd, block + SectorSize)
      OBVIOUS
  <2>2. PICK b \in Nat : b = block + SectorSize
      BY <1>3
  <2>3. n <= b
      BY <1>3, <2>1, <2>2, LeastIs
  <2> QED
      BY <1>3, <2>1, <2>2, <2>3
<1>5. PICK n \in Nat : n = Least(ChunkSize, l - c) /\ n >= 1 /\ n <= l - c
  <2>1. PICK k \in Nat : k = l - c /\ k >= 1
      BY <1>3
  <2>2. PICK n : n = Least(ChunkSize, k)
      OBVIOUS
  <2>3. n \in Nat /\ n <= k /\ (n = k \/ n = ChunkSize)
      BY <1>3, <2>1, <2>2, LeastIs
  <2> QED
      BY <1>3, <2>1, <2>2, <2>3
<1>6. g = BytesAt(m, a + c, n) /\ a + c \in Nat /\ a + c + n <= Size
  <2>1. g = BytesAt(m, a + c, n)
      BY <1>1, <1>2, <1>5
  <2>2. c + n <= l
      BY <1>3, <1>5
  <2>3. a + c \in Nat /\ a + c + n <= Size
      BY <1>3, <1>4, <2>2
  <2> QED
      BY <2>1, <2>3
<1>7. g = [i \in 1..n |-> m[a + c + i - 1]] /\ g \in Seq(FlashByte) /\ Len(g) = n
  <2>1. PICK k \in Nat : k = a + c
      BY <1>6
  <2>2. g = BytesAt(m, k, n) /\ k + n <= Size /\ n >= 1
      BY <1>5, <1>6, <2>1
  <2>3. g = [i \in 1..n |-> m[k + i - 1]] /\ g \in Seq(FlashByte) /\ Len(g) = n
      BY <2>2, BytesRead
  <2> QED
      BY <2>1, <2>3
<1>8. u = c + n /\ u \in Nat /\ u > c /\ u <= l
    BY <1>2, <1>3, <1>5, <1>7
<1>9. \A i \in 1..n : g[i] = flashBefore[a + c + i - 1]
  <2>1. ASSUME NEW i \in 1..n PROVE g[i] = flashBefore[a + c + i - 1]
    <3>1. a + c + i - 1 \in Addr /\ ~(a + c + i - 1 < block)
        BY <1>3, <1>6 DEF Addr
    <3>2. g[i] = m[a + c + i - 1]
        BY <1>7
    <3> QED
        BY <1>1, <3>1, <3>2
  <2> QED
      BY <2>1
<1>10. PICK t : t = SubSeq(p, c + 1, u)
    OBVIOUS
<1>11. t \in Seq(FlashByte) /\ Len(t) = n /\ \A i \in 1..n : t[i] = p[c + i]
  <2>1. PICK k \in Nat : k = c + 1
      BY <1>3
  <2>2. k \in 1..(l + 1) /\ u \in (k - 1)..l
      BY <1>3, <1>8, <2>1
  <2>3. /\ t \in Seq(FlashByte) /\ Len(t) = IF k <= u THEN u - k + 1 ELSE 0
        /\ \A i \in 1..(u - k + 1) : t[i] = p[k + i - 1]
      BY <1>2, <1>3, <1>10, <2>1, <2>2, SubSeqProperties
  <2>4. k <= u /\ u - k + 1 = n /\ \A i \in 1..n : k + i - 1 = c + i
      BY <1>3, <1>5, <1>8, <2>1
  <2> QED
      BY <2>3, <2>4
<1>12. g = t <=> \A i \in 1..n : g[i] = t[i]
  <2>1. g = [i \in 1..n |-> g[i]]
      BY <1>7
  <2>2. t = [i \in 1..n |-> t[i]]
      BY <1>11
  <2> QED
      BY <2>1, <2>2
<1>13. ASSUME g = t PROVE \A i \in 1..u : p[i] = flashBefore[a + i - 1]
  <2>1. ASSUME NEW i \in 1..u, i > c PROVE p[i] = flashBefore[a + i - 1]
    <3>1. i - c \in 1..n /\ c + (i - c) = i /\ a + c + (i - c) - 1 = a + i - 1
        BY <1>3, <1>8, <2>1
    <3>2. g[i - c] = flashBefore[a + c + (i - c) - 1] /\ t[i - c] = p[c + (i - c)]
        BY <1>9, <1>11, <3>1
    <3> QED
        BY <1>13, <3>1, <3>2
  <2>2. ASSUME NEW i \in 1..u, ~(i > c) PROVE p[i] = flashBefore[a + i - 1]
    <3>1. i \in 1..c
        BY <1>3, <1>8, <2>2
    <3> QED
        BY <1>1, <1>2, <3>1
  <2> QED
      BY <2>1, <2>2
<1>14. ASSUME g # t PROVE \E i \in 1..l : p[i] # flashBefore[a + i - 1]
  <2>1. PICK i \in 1..n : g[i] # t[i]
      BY <1>12, <1>14
  <2>2. c + i \in 1..l /\ a + (c + i) - 1 = a + c + i - 1
      BY <1>3, <1>5
  <2>3. p[c + i] # flashBefore[a + (c + i) - 1]
      BY <1>9, <1>11, <2>1, <2>2
  <2> QED
      BY <2>2, <2>3
<1> QED
    BY <1>2, <1>8, <1>10, <1>13, <1>14

(* The comparison.                                                         *)
LEMMA CompareStage ==
    ASSUME CallTyped, NEW m, AtRest(m), NEW g, g = got, Comparing(m, g), Compare
    PROVE  \E n, h : Outcome(n, h)' /\ Stage(n, h)'
<1>0. /\ cmds = <<>> /\ m = chip.mem /\ m \in [Addr -> FlashByte] /\ OneBlock
      /\ phase = "compare" /\ UNCHANGED <<chip, got, client, found, resets>>
      /\ UNCHANGED <<call, flashBefore, program, verified>>
    BY DEF AtRest, Compare, Comparing, client
<1>1. /\ call.op = "write" /\ IsSector(block) /\ block < Size /\ block <= at /\ SplitUp
      /\ at + Len(piece) = Least(CallEnd, block + SectorSize) /\ (at = block \/ at = call.at)
      /\ block \in Nat /\ SectorSize \in Nat /\ Size \in Nat /\ at \in Nat /\ call.at \in Nat
      /\ Len(piece) \in Nat /\ CallEnd \in Nat /\ block + SectorSize <= Size /\ block \in Addr
      /\ Carries(piece, at) /\ Len(piece) > 0
  <2>1. block \in Nat /\ block + SectorSize <= Size /\ block \in Addr
      BY <1>0, FlashSizes, SectorEdge, SectorEnds DEF OneBlock
  <2>2. Carries(piece, at) /\ Len(piece) \in Nat
      BY <1>0 DEF OneBlock, SplitUp, Carries
  <2>3. CallEnd \in Nat /\ call.at \in Nat
      BY DEF CallEnd, CallTyped
  <2> QED
      BY <1>0, <2>1, <2>2, <2>3, FlashSizes DEF OneBlock, SplitUp, Comparing
<1>2. PICK a, b, l, e : a = at /\ b = block /\ l = Len(piece) /\ e = CallEnd
    OBVIOUS
<1>3. a + l <= e /\ a + l <= b + SectorSize /\ (a + l = e \/ a + l = b + SectorSize)
  <2>1. PICK n : n = Least(CallEnd, block + SectorSize)
      OBVIOUS
  <2>2. PICK k \in Nat : k = block + SectorSize
      BY <1>1
  <2>3. n <= CallEnd /\ n <= k /\ (n = CallEnd \/ n = k)
      BY <1>1, <2>1, <2>2, LeastIs
  <2> QED
      BY <1>1, <1>2, <2>1, <2>2, <2>3
<1>4. PICK u : u = cmp + Len(g)
    OBVIOUS
<1>5. /\ u \in Nat /\ u > cmp /\ u <= Len(piece)
      /\ g = SubSeq(piece, cmp + 1, u) => \A i \in 1..u : piece[i] = flashBefore[at + i - 1]
      /\ g # SubSeq(piece, cmp + 1, u) =>
           \E i \in 1..Len(piece) : piece[i] # flashBefore[at + i - 1]
    BY <1>0, <1>4, ChunkCompared
<1>6. \A x : Goal(x)' = Goal(x) /\ Want(x)' = Want(x) /\ Held(x)' = Held(x) /\ DataAt(x)' = DataAt(x)
    BY <1>0 DEF Goal, Held, Want, InCall, CallEnd, DataAt
<1>a. \/ /\ g # SubSeq(piece, cmp + 1, u)
         /\ phase' = "pages" /\ cmds' = EraseFirst(block) /\ UNCHANGED <<loop, ret>>
      \/ /\ g = SubSeq(piece, cmp + 1, u) /\ u < Len(piece)
         /\ cmp' = u /\ cmds' = ReadBuffer(at + u, Least(ChunkSize, Len(piece) - u))
         /\ UNCHANGED <<phase, block, at, piece, rest, ret>>
      \/ g = SubSeq(piece, cmp + 1, u) /\ u = Len(piece) /\ NextBlock
    BY <1>4 DEF Compare
<1>7. CASE g # SubSeq(piece, cmp + 1, u)
  <2>1. phase' = "pages" /\ cmds' = SectorErase(block) /\ UNCHANGED <<loop, ret>>
      BY <1>a, <1>7 DEF EraseFirst
  <2>2. UNCHANGED <<block, at, piece, rest, cmp>>
      BY <2>1 DEF loop
  <2>3. PICK n, h : n = EraseOf(chip.mem, b) /\ h = got
      OBVIOUS
  <2>4. Outcome(n, h)'
      BY <1>0, <1>1, <1>2, <2>1, <2>3, EraseBegins
  <2>5. ~Held(block)
    <3>1. PICK i \in 1..l : piece[i] # flashBefore[a + i - 1]
        BY <1>2, <1>5, <1>7
    <3>2. PICK x \in Nat : x = a + i - 1
        BY <1>1, <1>2
    <3>3. x \in block..(block + SectorSize - 1) /\ InCall(x)
        BY <1>1, <1>2, <1>3, <3>2 DEF InCall, SplitUp
    <3>4. piece[i] = DataAt(x)
        BY <1>1, <1>2, <3>2 DEF Carries
    <3> QED
        BY <3>1, <3>2, <3>3, <3>4 DEF Held
  <2>6. ASSUME NEW x \in Addr
        PROVE  n[x] = IF x < block THEN Goal(x) ELSE IF x >= block + SectorSize THEN flashBefore[x]
                      ELSE IF x < at THEN Want(x) ELSE Ones
    <3>1. x \in Nat
        BY InRange
    <3>2. SectorOf(b) = b /\ (SectorOf(x) = b <=> b <= x /\ x < b + SectorSize)
        BY <1>1, <1>2, <3>1, SectorAt, FlashSizes
    <3>3. n[x] = IF SectorOf(x) = b THEN Ones ELSE chip.mem[x]
        BY <2>3, <3>2 DEF EraseOf
    <3>4. chip.mem[x] = IF x < block THEN Goal(x) ELSE flashBefore[x]
        BY <1>0 DEF Comparing
    <3>5. CASE x < block
        BY <1>1, <1>2, <3>1, <3>2, <3>3, <3>4, <3>5
    <3>6. CASE x >= block + SectorSize
        BY <1>1, <1>2, <3>1, <3>2, <3>3, <3>4, <3>6
    <3>7. CASE x >= block /\ x < block + SectorSize
      <4>1. n[x] = Ones
          BY <1>2, <3>2, <3>3, <3>7
      <4>2. x < at => ~InCall(x)
          BY <1>1, <3>1, <3>7 DEF InCall
      <4>3. x < at => Want(x) = Ones
          BY <4>2 DEF Want
      <4> QED
          BY <1>1, <3>1, <3>7, <4>1, <4>3
    <3> QED
        BY <1>1, <3>1, <3>5, <3>6, <3>7
  <2>7. Filling(n)'
    <3>1. OneBlock'
        BY <1>0, <2>2 DEF OneBlock, SplitUp, Carries, CallEnd, DataAt
    <3> QED
        BY <1>0, <1>6, <2>2, <2>5, <2>6, <3>1 DEF Filling
  <2> QED
      BY <2>1, <2>4, <2>7 DEF Stage
<1>8. CASE g = SubSeq(piece, cmp + 1, u) /\ u < Len(piece)
  <2>1. /\ cmp' = u /\ cmds' = ReadBuffer(at + u, Least(ChunkSize, Len(piece) - u))
        /\ UNCHANGED <<phase, block, at, piece, rest, ret>>
      BY <1>1, <1>5, <1>a, <1>8
  <2>2. PICK k \in Nat : k = l - u
    <3>1. u \in Nat /\ l \in Nat /\ u < l
        BY <1>1, <1>2, <1>5, <1>8
    <3>2. l - u \in Nat
        BY <3>1
    <3> QED
        BY <3>2
  <2>3. PICK t : t = Least(ChunkSize, k)
      OBVIOUS
  <2>4. t \in Nat
      BY <2>2, <2>3, LeastIs, FlashSizes
  <2>5. PICK c \in Addr : c = a + u
    <3>1. a + u \in Nat /\ a + u < Size
        BY <1>1, <1>2, <1>3, <1>5, <1>8
    <3>2. a + u \in Addr
        BY <1>1, <3>1 DEF Addr
    <3> QED
        BY <3>2
  <2>6. PICK h : h = BytesAt(chip.mem, c, t)
      OBVIOUS
  <2>7. cmds' = ReadBuffer(c, t)
      BY <1>2, <2>1, <2>2, <2>3, <2>5
  <2>8. Outcome(m, h)'
      BY <1>0, <2>4, <2>6, <2>7, ReadBegins
  <2>9. Comparing(m, h)'
    <3>1. OneBlock'
        BY <1>0, <2>1 DEF OneBlock, SplitUp, Carries, CallEnd, DataAt
    <3>2. h = BytesAt(m, at' + cmp', Least(ChunkSize, Len(piece') - cmp'))
        BY <1>0, <1>2, <2>1, <2>2, <2>3, <2>5, <2>6
    <3>3. \A x \in Addr : m[x] = IF x < block' THEN Goal(x)' ELSE flashBefore'[x]
        BY <1>0, <1>6, <2>1 DEF Comparing
    <3>4. cmp' \in Nat /\ cmp' < Len(piece') /\ \A i \in 1..cmp' : piece'[i] = flashBefore'[at' + i - 1]
        BY <1>0, <1>5, <1>8, <2>1
    <3>5. (at' = block' \/ at' = call'.at) /\ Len(piece') > 0
        BY <1>0, <1>1, <2>1
    <3> QED
        BY <3>1, <3>2, <3>3, <3>4, <3>5 DEF Comparing
  <2>10. phase' = "compare"
      BY <1>0, <2>1
  <2> QED
      BY <2>8, <2>9, <2>10 DEF Stage
<1>9. CASE g = SubSeq(piece, cmp + 1, u) /\ u = Len(piece)
  <2>1. NextBlock
      BY <1>1, <1>5, <1>a, <1>9
  <2>2. Held(block)
    <3>1. ASSUME NEW x \in block..(block + SectorSize - 1), InCall(x) PROVE flashBefore[x] = DataAt(x)
      <4>1. x \in Nat /\ x >= b /\ x < b + SectorSize /\ x >= call.at /\ x < e
          BY <1>1, <1>2, <3>1 DEF InCall
      <4>2. x >= a /\ x < a + l
          BY <1>1, <1>2, <1>3, <4>1
      <4>3. x - a + 1 \in 1..l /\ a + (x - a + 1) - 1 = x
          BY <1>1, <1>2, <4>1, <4>2
      <4>4. piece[x - a + 1] = flashBefore[x] /\ piece[x - a + 1] = DataAt(x)
          BY <1>1, <1>2, <1>5, <1>9, <4>3 DEF Carries
      <4> QED
          BY <4>4
    <3> QED
        BY <3>1 DEF Held
  <2>3. BlockDone(m)
    <3>1. ASSUME NEW x \in Addr
          PROVE  m[x] = IF x < block + SectorSize THEN Goal(x) ELSE flashBefore[x]
      <4>1. x \in Nat /\ m[x] = IF x < block THEN Goal(x) ELSE flashBefore[x]
          BY InRange DEF Comparing
      <4>2. CASE block <= x /\ x < block + SectorSize
        <5>1. SectorOf(x) = block
            BY <1>1, <4>1, <4>2, SectorAt
        <5> QED
            BY <1>1, <2>2, <4>1, <4>2, <5>1 DEF Goal
      <4> QED
          BY <1>1, <4>1, <4>2
    <3> QED
        BY <3>1 DEF BlockDone, DoneTo
  <2>4. \E h : Outcome(m, h)' /\ Stage(m, h)'
      BY <1>0, <2>1, <2>3, NextBlockWrite
  <2> QED
      BY <2>4
<1> QED
    BY <1>1, <1>5, <1>7, <1>8, <1>9

(* The part of the data that fits the page.                                *)
LEMMA PageTaken ==
    ASSUME NEW a \in Nat, NEW q \in Seq(FlashByte), NEW l, l = Len(q), l > 0, a + l <= Size,
           NEW n, n = PagePart(a, l), NEW p, p = SubSeq(q, 1, n)
    PROVE  a \in Addr /\ n \in Nat /\ n >= 1 /\ n <= l /\ p \in Seq(FlashByte) /\ InPage(a, p)
<1>1. l \in Nat /\ Size \in Nat /\ PageSize \in Nat
    BY FlashSizes
<1>2. PICK b \in Nat : b = PageOf(a)
    BY PageHolds
<1>3. a < b + PageSize /\ PageOf(a + PageSize) = b + PageSize
    BY <1>2, PageHolds
<1>4. PICK k \in Nat : k = b + PageSize - a /\ k >= 1
  <2>1. b + PageSize - a \in Nat /\ b + PageSize - a >= 1
      BY <1>1, <1>2, <1>3
  <2> QED
      BY <2>1
<1>5. n = Least(l, k)
  <2>1. PageOf(a + PageSize) - a = k
      BY <1>1, <1>3, <1>4
  <2> QED
      BY <2>1 DEF PagePart
<1>6. n \in Nat /\ n <= l /\ n <= k /\ (n = l \/ n = k)
    BY <1>1, <1>4, <1>5, LeastIs
<1>7. p \in Seq(FlashByte) /\ Len(p) = n
  <2>1. PICK r : r = SubSeq(q, n + 1, l)
      OBVIOUS
  <2>2. Cut(q, l, n, p, r)
      BY <1>1, <1>6, <2>1, SeqCut
  <2> QED
      BY <2>2 DEF Cut
<1>8. a \in Addr
    BY <1>1 DEF Addr
<1>9. InPage(a, p)
  <2>1. a + n <= b + PageSize
      BY <1>1, <1>4, <1>6
  <2> QED
      BY <1>2, <1>7, <2>1 DEF InPage
<1> QED
    BY <1>1, <1>4, <1>6, <1>7, <1>8, <1>9

(* A page of it is written.                                                *)
LEMMA PageWritten ==
    ASSUME CallTyped, SplitUp, at + Len(piece) <= Size, NEW m, AtRest(m), piece # <<>>, Pages
    PROVE  \E n, h : /\ Outcome(n, h)' /\ SplitUp' /\ at < at' /\ at' + Len(piece') = at + Len(piece)
                     /\ UNCHANGED <<phase, block, rest, call, flashBefore>> /\ phase = "pages"
                     /\ \A x \in Addr : at <= x /\ x < at' =>
                             InCall(x) /\ n[x] = m[x] \intersect DataAt(x)
                     /\ \A x \in Addr : ~(at <= x /\ x < at') => n[x] = m[x]
<1>0. /\ cmds = <<>> /\ m = chip.mem /\ m \in [Addr -> FlashByte]
      /\ phase = "pages" /\ UNCHANGED <<chip, got, client, found, resets>>
      /\ UNCHANGED <<phase, block, rest, call, flashBefore>>
    BY DEF AtRest, Pages, client
<1>1. PICK q, l, a : q = piece /\ l = Len(piece) /\ a = at
    OBVIOUS
<1>2. /\ q \in Seq(FlashByte) /\ l = Len(q) /\ l \in Nat /\ l > 0 /\ a \in Nat /\ a + l <= Size
      /\ Carries(q, a) /\ call.at \in Nat /\ call.at <= a /\ rest \in Seq(FlashByte)
      /\ Len(rest) \in Nat /\ a + l + Len(rest) = CallEnd /\ Carries(rest, a + l)
    BY <1>1 DEF SplitUp, Carries, CallTyped
<1>3. PICK n : n = PagePart(a, l)
    OBVIOUS
<1>4. PICK p, r : p = SubSeq(q, 1, n) /\ r = SubSeq(q, n + 1, l)
    OBVIOUS
<1>5. a \in Addr /\ n \in Nat /\ n >= 1 /\ n <= l /\ p \in Seq(FlashByte) /\ InPage(a, p)
    BY <1>2, <1>3, <1>4, PageTaken
<1>6. cmds' = WriteBuffer(a, p) /\ piece' = r /\ at' = a + n
    BY <1>1, <1>3, <1>4 DEF Pages
<1>7. /\ Len(p) = n /\ r \in Seq(FlashByte) /\ Len(r) = l - n /\ \A i \in 1..n : p[i] = q[i]
      /\ \A i \in 1..(l - n) : r[i] = q[n + i] /\ n + i \in 1..l
  <2>1. q \in Seq(FlashByte) /\ n \in Nat /\ l = Len(q) /\ n <= l
      BY <1>2, <1>5
  <2>2. Cut(q, l, n, p, r)
      BY <1>4, <2>1, SeqCut
  <2> QED
      BY <2>2 DEF Cut
<1>8. PICK o, h : o = PutOf(chip.mem, a, p) /\ h = got
    OBVIOUS
<1>9. Outcome(o, h)'
    BY <1>0, <1>5, <1>6, <1>8, WriteBegins
<1>10. SplitUp'
  <2>1. Carries(r, a + n)
    <3>1. \A i \in 1..(l - n) : r[i] = DataAt(a + (n + i) - 1)
        BY <1>2, <1>7 DEF Carries
    <3>2. \A i \in 1..(l - n) : a + (n + i) - 1 = a + n + i - 1
        BY <1>2, <1>5
    <3> QED
        BY <1>7, <3>1, <3>2 DEF Carries
  <2>2. a + n \in Nat /\ call.at <= a + n /\ a + n + (l - n) = a + l
      BY <1>2, <1>5
  <2>3. a + n + Len(r) = a + l /\ a + n + Len(r) + Len(rest) = CallEnd
      BY <1>2, <1>7, <2>2
  <2>4. CallEnd' = CallEnd
      BY <1>0 DEF CallEnd
  <2>5. Carries(piece, at)' /\ Carries(rest, at + Len(piece))'
      BY <1>0, <1>2, <1>6, <2>1, <2>3 DEF Carries, DataAt
  <2> QED
      BY <1>0, <1>6, <2>2, <2>3, <2>4, <2>5 DEF SplitUp
<1>11. at < at' /\ at' + Len(piece') = at + Len(piece)
    BY <1>1, <1>2, <1>5, <1>6, <1>7
<1>12. ASSUME NEW x \in Addr, a <= x, x < a + n
       PROVE  InCall(x) /\ o[x] = m[x] \intersect DataAt(x)
  <2>1. x \in Nat
      BY InRange
  <2>2. x < CallEnd /\ call.at <= x
      BY <1>2, <1>5, <1>12, <2>1
  <2>3. o[x] = chip.mem[x] \intersect p[x - a + 1]
      BY <1>7, <1>8, <1>12 DEF PutOf
  <2>4. x - a + 1 \in 1..n /\ x - a + 1 \in 1..l /\ a + (x - a + 1) - 1 = x
      BY <1>2, <1>5, <1>12, <2>1
  <2>5. p[x - a + 1] = q[x - a + 1] /\ q[x - a + 1] = DataAt(a + (x - a + 1) - 1)
      BY <1>2, <1>7, <2>4 DEF Carries
  <2> QED
      BY <1>0, <2>2, <2>3, <2>4, <2>5 DEF InCall
<1>13. \A x \in Addr : ~(a <= x /\ x < a + n) => o[x] = m[x]
    BY <1>0, <1>7, <1>8 DEF PutOf
<1> QED
    BY <1>0, <1>1, <1>6, <1>9, <1>10, <1>11, <1>12, <1>13

(* What stays of a call while its client waits.                            *)
LEMMA SameCall ==
    ASSUME UNCHANGED <<call, flashBefore>>
    PROVE  /\ CallEnd' = CallEnd
           /\ \A x : /\ Goal(x)' = Goal(x) /\ Want(x)' = Want(x) /\ Held(x)' = Held(x)
                     /\ DataAt(x)' = DataAt(x) /\ InCall(x)' = InCall(x)
BY DEF Goal, Held, Want, InCall, CallEnd, DataAt

(* The pages of an erased block, and the end of the block.                 *)
LEMMA FillingStage ==
    ASSUME CallTyped, NEW m, AtRest(m), Filling(m), Pages
    PROVE  \E n, h : Outcome(n, h)' /\ Stage(n, h)'
<1>0. /\ cmds = <<>> /\ m = chip.mem /\ m \in [Addr -> FlashByte] /\ OneBlock /\ ~Held(block)
      /\ phase = "pages" /\ UNCHANGED <<chip, got, client>>
      /\ UNCHANGED <<call, flashBefore, program, verified>>
    BY DEF AtRest, Pages, Filling, client
<1>1. /\ call.op = "write" /\ IsSector(block) /\ block < Size /\ block <= at /\ SplitUp
      /\ block \in Nat /\ SectorSize \in Nat /\ Size \in Nat /\ at \in Nat /\ call.at \in Nat
      /\ Len(piece) \in Nat /\ CallEnd \in Nat /\ block + SectorSize <= Size
      /\ Carries(piece, at) /\ call.at <= at
  <2>1. block \in Nat /\ block + SectorSize <= Size
      BY <1>0, FlashSizes, SectorEdge, SectorEnds DEF OneBlock
  <2>2. Carries(piece, at) /\ Len(piece) \in Nat
      BY <1>0 DEF OneBlock, SplitUp, Carries
  <2>3. CallEnd \in Nat /\ call.at \in Nat
      BY DEF CallEnd, CallTyped
  <2> QED
      BY <1>0, <2>1, <2>2, <2>3, FlashSizes DEF OneBlock, SplitUp
<1>2. PICK e \in Nat : e = at + Len(piece)
  <2>1. at + Len(piece) \in Nat
      BY <1>1
  <2> QED
      BY <2>1
<1>3. /\ e <= CallEnd /\ e <= block + SectorSize /\ (e = CallEnd \/ e = block + SectorSize)
      /\ e = Least(CallEnd, block + SectorSize)
  <2>1. PICK k \in Nat : k = block + SectorSize
    <3>1. block + SectorSize \in Nat
        BY <1>1
    <3> QED
        BY <3>1
  <2>2. e = Least(CallEnd, k)
      BY <1>0, <1>2, <2>1 DEF OneBlock
  <2>3. e <= CallEnd /\ e <= k /\ (e = CallEnd \/ e = k)
      BY <1>1, <2>1, <2>2, LeastIs
  <2> QED
      BY <2>1, <2>2, <2>3
<1>4. ASSUME NEW x \in Addr
      PROVE  /\ x \in Nat /\ m[x] \subseteq Ones
             /\ x < block => m[x] = Goal(x)
             /\ x >= block + SectorSize => m[x] = flashBefore[x]
             /\ block <= x /\ x < block + SectorSize => m[x] = IF x < at THEN Want(x) ELSE Ones
  <2>1. x \in Nat /\ x < Size
      BY InRange
  <2>2. m[x] = IF x < block THEN Goal(x) ELSE IF x >= block + SectorSize THEN flashBefore[x]
               ELSE IF x < at THEN Want(x) ELSE Ones
      BY DEF Filling
  <2>3. m[x] \in FlashByte
      BY <1>0
  <2> QED
      BY <1>1, <2>1, <2>2, <2>3 DEF FlashByte
<1>5. /\ CallEnd' = CallEnd
      /\ \A x : /\ Goal(x)' = Goal(x) /\ Want(x)' = Want(x) /\ Held(x)' = Held(x)
    BY <1>0, SameCall
<1>6. CASE piece # <<>>
  <2>1. PICK n, h :
          /\ Outcome(n, h)' /\ SplitUp' /\ at < at' /\ at' + Len(piece') = at + Len(piece)
          /\ UNCHANGED <<phase, block, rest, call, flashBefore>>
          /\ \A x \in Addr : at <= x /\ x < at' => InCall(x) /\ n[x] = m[x] \intersect DataAt(x)
          /\ \A x \in Addr : ~(at <= x /\ x < at') => n[x] = m[x]
    <3>1. at + Len(piece) <= Size
        BY <1>1, <1>2, <1>3
    <3> QED
        BY <1>1, <1>6, <3>1, PageWritten
  <2>2. PICK a : a = at'
      OBVIOUS
  <2>3. a \in Nat /\ at < a /\ a <= e
    <3>1. a \in Nat /\ Len(piece') \in Nat /\ a + Len(piece') = e
        BY <1>2, <2>1, <2>2 DEF SplitUp, Carries
    <3> QED
        BY <2>1, <2>2, <3>1
  <2>4. OneBlock'
      BY <1>0, <1>1, <1>2, <1>3, <1>5, <2>1, <2>2, <2>3 DEF OneBlock
  <2>5. ASSUME NEW x \in Addr
        PROVE  n[x] = IF x < block THEN Goal(x) ELSE IF x >= block + SectorSize THEN flashBefore[x]
                      ELSE IF x < a THEN Want(x) ELSE Ones
    <3>1. CASE at <= x /\ x < a
      <4>1. m[x] = Ones /\ block <= x /\ x < block + SectorSize
          BY <1>1, <1>3, <1>4, <2>3, <3>1
      <4>2. InCall(x) /\ n[x] = m[x] \intersect DataAt(x)
          BY <2>1, <2>2, <3>1
      <4>3. DataAt(x) \subseteq Ones
        <5>1. x - call.at + 1 \in 1..Len(call.data)
            BY <1>1, <1>4, <4>2 DEF InCall, CallEnd, CallTyped
        <5> QED
            BY <5>1 DEF DataAt, CallTyped, FlashByte
      <4>4. n[x] = Want(x)
          BY <4>1, <4>2, <4>3 DEF Want
      <4> QED
          BY <1>1, <1>4, <3>1, <4>1, <4>4
    <3>2. CASE ~(at <= x /\ x < a)
      <4>1. n[x] = m[x]
          BY <2>1, <2>2, <3>2
      <4>2. x < at <=> x < a
          BY <1>1, <1>4, <2>3, <3>2
      <4> QED
          BY <1>1, <1>4, <4>1, <4>2
    <3> QED
        BY <3>1, <3>2
  <2>6. Filling(n)'
      BY <1>0, <1>5, <2>1, <2>2, <2>4, <2>5 DEF Filling
  <2> QED
      BY <1>0, <2>1, <2>6 DEF Stage
<1>7. CASE piece = <<>>
  <2>1. NextBlock
      BY <1>7 DEF Pages
  <2>2. e = at
      BY <1>1, <1>2, <1>7
  <2>3. BlockDone(m)
    <3>1. ASSUME NEW x \in Addr
          PROVE  m[x] = IF x < block + SectorSize THEN Goal(x) ELSE flashBefore[x]
      <4>1. CASE block <= x /\ x < block + SectorSize
        <5>1. SectorOf(x) = block
            BY <1>1, <1>4, <4>1, SectorAt
        <5>2. Goal(x) = Want(x)
            BY <1>0, <5>1 DEF Goal
        <5>3. CASE x < at
            BY <1>4, <4>1, <5>2, <5>3
        <5>4. CASE ~(x < at)
          <6>1. ~InCall(x)
              BY <1>1, <1>2, <1>3, <1>4, <2>2, <4>1, <5>4 DEF InCall
          <6>2. Want(x) = Ones
              BY <6>1 DEF Want
          <6> QED
              BY <1>4, <4>1, <5>2, <5>4, <6>2
        <5> QED
            BY <5>3, <5>4
      <4> QED
          BY <1>1, <1>4, <4>1
    <3> QED
        BY <3>1 DEF BlockDone, DoneTo
  <2> QED
      BY <1>0, <2>1, <2>3, NextBlockWrite
<1> QED
    BY <1>6, <1>7

(* The pages of write_block.                                               *)
LEMMA ProgrammingStage ==
    ASSUME CallTyped, NEW m, AtRest(m), Programming(m), Pages
    PROVE  \E n, h : Outcome(n, h)' /\ Stage(n, h)'
<1>0. /\ cmds = <<>> /\ m = chip.mem /\ m \in [Addr -> FlashByte]
      /\ phase = "pages" /\ UNCHANGED <<chip, got, client>>
      /\ UNCHANGED <<call, flashBefore, program, verified>>
      /\ call.op \in {"wblock", "fwrite"} /\ CallEnd <= Size /\ SplitUp /\ Put(m, at)
      /\ (call.op = "wblock" => rest = <<>>)
      /\ (call.op = "fwrite" => block \in Nat /\ (rest # <<>> => at + Len(piece) >= block))
    BY DEF AtRest, Pages, Programming, client
<1>1. /\ at \in Nat /\ call.at \in Nat /\ call.at <= at /\ Len(piece) \in Nat /\ Size \in Nat
      /\ rest \in Seq(FlashByte) /\ Len(rest) \in Nat /\ at + Len(piece) + Len(rest) = CallEnd
      /\ Carries(rest, at + Len(piece)) /\ Len(call.data) \in Nat
      /\ CallEnd = call.at + Len(call.data)
    BY <1>0, FlashSizes DEF SplitUp, Carries, CallTyped, CallEnd
<1>2. CallEnd' = CallEnd /\ \A x : DataAt(x)' = DataAt(x) /\ InCall(x)' = InCall(x)
    BY <1>0, SameCall
<1>3. CASE piece # <<>>
  <2>1. PICK n, h :
          /\ Outcome(n, h)' /\ SplitUp' /\ at < at' /\ at' + Len(piece') = at + Len(piece)
          /\ UNCHANGED <<phase, block, rest, call, flashBefore>>
          /\ \A x \in Addr : at <= x /\ x < at' => InCall(x) /\ n[x] = m[x] \intersect DataAt(x)
          /\ \A x \in Addr : ~(at <= x /\ x < at') => n[x] = m[x]
    <3>1. at + Len(piece) <= Size
        BY <1>0, <1>1
    <3> QED
        BY <1>0, <1>3, <3>1, PageWritten
  <2>2. PICK a : a = at'
      OBVIOUS
  <2>3. a \in Nat /\ at < a
      BY <2>1, <2>2 DEF SplitUp
  <2>4. ASSUME NEW x \in Addr
        PROVE  n[x] = IF InCall(x) /\ x < a THEN flashBefore[x] \intersect DataAt(x) ELSE flashBefore[x]
    <3>1. /\ x \in Nat
          /\ m[x] = IF InCall(x) /\ x < at THEN flashBefore[x] \intersect DataAt(x) ELSE flashBefore[x]
        BY <1>0, InRange DEF Put
    <3>2. CASE at <= x /\ x < a
      <4>1. InCall(x) /\ n[x] = m[x] \intersect DataAt(x) /\ ~(x < at)
          BY <1>1, <2>1, <2>2, <3>1, <3>2
      <4> QED
          BY <3>1, <3>2, <4>1
    <3>3. CASE ~(at <= x /\ x < a)
      <4>1. n[x] = m[x]
          BY <2>1, <2>2, <3>3
      <4>2. PICK b \in Nat : b = at
          BY <1>1
      <4>3. x < at <=> x < a
          BY <2>3, <3>1, <3>3, <4>2
      <4> QED
          BY <3>1, <4>1, <4>3
    <3> QED
        BY <3>2, <3>3
  <2>5. Put(n, at)'
      BY <1>2, <2>1, <2>2, <2>4 DEF Put
  <2>6. Programming(n)'
      BY <1>0, <1>2, <2>1, <2>5 DEF Programming
  <2> QED
      BY <1>0, <2>1, <2>6 DEF Stage
<1>4. CASE piece = <<>>
  <2>1. NextBlock /\ at + Len(rest) = CallEnd
      BY <1>1, <1>4 DEF Pages
  <2>2. PICK h : h = got
      OBVIOUS
  <2>3. CASE call.op = "wblock"
    <3>1. Return("ok")
        BY <2>1, <2>3 DEF NextBlock
    <3>2. phase' = "idle" /\ ret' = "ok" /\ cmds' = <<>>
        BY <1>0, <3>1 DEF Return
    <3>3. Put(m, CallEnd)
        BY <1>0, <1>1, <2>1, <2>3
    <3>4. Put(m, CallEnd)'
        BY <1>0, <1>2, <3>3 DEF Put
    <3>5. Result(m, h)'
        BY <1>0, <2>3, <3>2, <3>4 DEF Result
    <3>6. Outcome(m, h)' /\ Stage(m, h)'
        BY <1>0, <2>2, <3>2, <3>5 DEF Stage, Outcome, NoWork
    <3> QED
        BY <3>6
  <2>4. CASE call.op = "fwrite"
    <3>1. phase' = "blocks" /\ UNCHANGED <<block, at, piece, rest, cmp, cmds, ret>>
        BY <2>1, <2>4 DEF NextBlock, loop
    <3>2. CallEnd - Len(rest) = at /\ Len(rest) <= Len(call.data)
        BY <1>1, <2>1
    <3>3. Carries(rest, CallEnd - Len(rest)) /\ Put(m, CallEnd - Len(rest))
      <4>1. at + Len(piece) = at
          BY <1>1, <1>4
      <4> QED
          BY <1>0, <1>1, <3>2, <4>1
    <3>4. block \in Nat /\ (rest # <<>> => CallEnd - Len(rest) >= block)
        BY <1>0, <1>1, <1>4, <2>4, <3>2
    <3>5. BetweenBlocks(m)
        BY <1>0, <2>4, <3>2, <3>3, <3>4 DEF BetweenBlocks
    <3>6. BetweenBlocks(m)'
        BY <1>0, <3>1, <3>5 DEF BetweenBlocks, CallEnd, Carries, Put, DataAt, InCall
    <3>7. Outcome(m, h)' /\ Stage(m, h)'
        BY <1>0, <2>2, <3>1, <3>6 DEF Stage, Outcome, NoWork
    <3> QED
        BY <3>7
  <2> QED
      BY <1>0, <2>3, <2>4
<1> QED
    BY <1>3, <1>4

(* Flash_Write between two blocks.                                         *)
LEMMA BlocksStage ==
    ASSUME CallTyped, NEW m, AtRest(m), BetweenBlocks(m), FlashBlocks
    PROVE  \E h : Outcome(m, h)' /\ Stage(m, h)'
<1>0. /\ cmds = <<>> /\ m = chip.mem /\ m \in [Addr -> FlashByte]
      /\ phase = "blocks" /\ UNCHANGED <<chip, got, client>>
      /\ UNCHANGED <<call, flashBefore, program, verified>>
    BY DEF AtRest, FlashBlocks, client
<1>1. PICK o, q, l : o = CallEnd - Len(rest) /\ q = rest /\ l = Len(rest)
    OBVIOUS
<1>2. /\ call.op = "fwrite" /\ (CallEnd <= Size \/ call.at = Size) /\ block \in Nat
      /\ q \in Seq(FlashByte) /\ l = Len(q) /\ l \in Nat /\ l <= Len(call.data)
      /\ Carries(q, o) /\ Put(m, o) /\ (q # <<>> => o >= block)
      /\ call.at \in Nat /\ Len(call.data) \in Nat /\ Size \in Nat /\ SectorSize \in Nat
      /\ CallEnd = call.at + Len(call.data)
    BY <1>1, FlashSizes DEF BetweenBlocks, Carries, CallTyped, CallEnd
<1>3. /\ CallEnd \in Nat /\ o \in Nat /\ call.at <= o /\ o + l = CallEnd
      /\ o = call.at + Len(call.data) - l
      /\ l = Len(call.data) => o = call.at
      /\ l = 0 <=> q = <<>>
  <2>1. l = 0 <=> q = <<>>
      BY <1>2
  <2>2. PICK d \in Nat, c \in Nat : d = Len(call.data) /\ c = call.at
      BY <1>2
  <2>3. CallEnd = c + d /\ l <= d /\ l \in Nat
      BY <1>2, <2>2
  <2>4. o = CallEnd - l
      BY <1>1
  <2>5. PICK k \in Nat : k = d - l
    <3>1. d - l \in Nat
        BY <2>3
    <3> QED
        BY <3>1
  <2>6. o = c + k /\ o + l = c + d /\ o = c + d - l /\ (l = d => k = 0)
      BY <2>3, <2>4, <2>5
  <2>7. o \in Nat /\ c <= o /\ (l = d => o = c) /\ c + d \in Nat
      BY <2>6
  <2> QED
      BY <2>1, <2>2, <2>3, <2>6, <2>7
<1>4. PICK h : h = got
    OBVIOUS
<1>5. CallEnd' = CallEnd /\ \A x : DataAt(x)' = DataAt(x) /\ InCall(x)' = InCall(x)
    BY <1>0, SameCall
<1>6. PICK room : room = IF ~(l = Len(call.data)) THEN SectorSize
                         ELSE IF block + SectorSize >= call.at THEN block + SectorSize - call.at
                         ELSE l
    OBVIOUS
<1>7. room \in Nat
    BY <1>2, <1>6
<1>8. PICK n : n = Least(room, l)
    OBVIOUS
<1>9. n \in Nat /\ n <= l /\ (n = room \/ n = l)
    BY <1>2, <1>7, <1>8, LeastIs
<1>a. \/ block >= Size /\ Return("ok")
      \/ /\ block < Size /\ (o < block \/ q = <<>>)
         /\ block' = NextOffset(block) /\ UNCHANGED <<at, piece, rest, cmp, phase, cmds, ret>>
      \/ /\ block < Size /\ o >= block /\ q # <<>> /\ InDevice(o)
         /\ block' = NextOffset(block) /\ at' = o /\ piece' = SubSeq(q, 1, n)
         /\ rest' = SubSeq(q, n + 1, l) /\ phase' = "pages"
         /\ UNCHANGED <<cmp, cmds, ret>>
      \/ block < Size /\ o >= block /\ q # <<>> /\ ~InDevice(o) /\ Return("eio")
    BY <1>1, <1>3, <1>6, <1>8 DEF FlashBlocks
<1>10. CASE block >= Size /\ Return("ok")
  <2>1. phase' = "idle" /\ ret' = "ok" /\ cmds' = <<>>
      BY <1>0, <1>10 DEF Return
  <2>2. ASSUME NEW x \in Addr PROVE InCall(x) /\ x < o <=> InCall(x) /\ x < CallEnd
    <3>1. x \in Nat /\ x < Size
        BY InRange
    <3>2. InCall(x) => x < CallEnd
        BY DEF InCall
    <3>3. CASE q = <<>>
        BY <1>2, <1>3, <3>3
    <3>4. CASE q # <<>>
        BY <1>2, <1>3, <1>10, <3>1, <3>2, <3>4
    <3> QED
        BY <3>3, <3>4
  <2>3. Put(m, CallEnd)
      BY <1>2, <2>2 DEF Put
  <2>4. Put(m, CallEnd)'
      BY <1>0, <1>5, <2>3 DEF Put
  <2>5. Result(m, h)'
      BY <1>0, <1>2, <2>1, <2>4 DEF Result
  <2> QED
      BY <1>0, <1>4, <2>1, <2>5 DEF Stage, Outcome, NoWork
<1>11. CASE /\ block < Size /\ (o < block \/ q = <<>>)
            /\ block' = NextOffset(block) /\ UNCHANGED <<at, piece, rest, cmp, phase, cmds, ret>>
  <2>1. q = <<>> /\ rest' = <<>> /\ phase' = "blocks" /\ cmds' = <<>>
      BY <1>0, <1>1, <1>2, <1>3, <1>11
  <2>2. block' \in Nat
      BY <1>2, <1>11 DEF NextOffset
  <2>3. BetweenBlocks(m)'
    <3>1. Len(rest') = Len(rest) /\ CallEnd' - Len(rest') = o
        BY <1>1, <1>5, <2>1
    <3>2. Carries(rest, CallEnd - Len(rest))'
        BY <2>1 DEF Carries
    <3>3. Put(m, CallEnd - Len(rest))'
      <4>1. Put(m, o)'
          BY <1>0, <1>2, <1>5 DEF Put
      <4> QED
          BY <3>1, <4>1 DEF Put
    <3> QED
        BY <1>0, <1>1, <1>2, <1>5, <2>1, <2>2, <3>1, <3>2, <3>3 DEF BetweenBlocks
  <2> QED
      BY <1>0, <1>4, <2>1, <2>3 DEF Stage, Outcome, NoWork
<1>12. CASE /\ block < Size /\ o >= block /\ q # <<>> /\ InDevice(o)
            /\ block' = NextOffset(block) /\ at' = o /\ piece' = SubSeq(q, 1, n)
            /\ rest' = SubSeq(q, n + 1, l) /\ phase' = "pages"
            /\ UNCHANGED <<cmp, cmds, ret>>
  <2>1. PICK p, r : p = SubSeq(q, 1, n) /\ r = SubSeq(q, n + 1, l)
      OBVIOUS
  <2>2. o < Size /\ CallEnd <= Size
      BY <1>2, <1>3, <1>12 DEF InDevice
  <2>3. /\ Len(p) = n /\ p \in Seq(FlashByte) /\ \A i \in 1..n : p[i] = q[i]
        /\ r \in Seq(FlashByte) /\ Len(r) = l - n
        /\ \A i \in 1..(l - n) : r[i] = q[n + i] /\ n + i \in 1..l
    <3>1. q \in Seq(FlashByte) /\ n \in Nat /\ l = Len(q) /\ n <= l
        BY <1>2, <1>9
    <3>2. Cut(q, l, n, p, r)
        BY <2>1, <3>1, SeqCut
    <3> QED
        BY <3>2 DEF Cut
  <2>4. Carries(p, o)
    <3>1. \A i \in 1..n : i \in 1..l
        BY <1>2, <1>9
    <3> QED
        BY <1>2, <2>3, <3>1 DEF Carries
  <2>5. Carries(r, o + n)
    <3>1. \A i \in 1..(l - n) : r[i] = DataAt(o + (n + i) - 1)
        BY <1>2, <2>3 DEF Carries
    <3>2. \A i \in 1..(l - n) : o + (n + i) - 1 = o + n + i - 1
        BY <1>2, <1>3, <1>9
    <3>3. r \in Seq(FlashByte) /\ Len(r) = l - n
        BY <2>3
    <3>4. \A i \in 1..Len(r) : r[i] = DataAt(o + n + i - 1)
        BY <3>1, <3>2, <3>3
    <3> QED
        BY <3>3, <3>4 DEF Carries
  <2>6. SplitUp'
    <3>1. o + n + (l - n) = CallEnd
        BY <1>2, <1>3, <1>9
    <3>2. at' = o /\ piece' = p /\ rest' = r
        BY <1>12, <2>1
    <3>3. Carries(piece, at)' /\ Carries(rest, at + Len(piece))'
        BY <1>0, <2>3, <2>4, <2>5, <3>2 DEF Carries, DataAt
    <3> QED
        BY <1>0, <1>3, <1>5, <2>3, <3>1, <3>2, <3>3 DEF SplitUp
  <2>7. block' \in Nat /\ (rest' # <<>> => at' + Len(piece') >= block')
    <3>1. block' = block + SectorSize
        BY <1>12 DEF NextOffset
    <3>2. ASSUME r # <<>> PROVE o + n >= block + SectorSize
      <4>1. n # l
          BY <1>2, <2>3, <3>2
      <4>2. n = room /\ room # l
          BY <1>9, <4>1
      <4>3. CASE l # Len(call.data)
        <5>1. room = SectorSize
            BY <1>6, <4>3
        <5> QED
            BY <1>2, <1>3, <1>12, <4>2, <5>1
      <4>4. CASE l = Len(call.data)
        <5>1. room = block + SectorSize - call.at
            BY <1>6, <4>2, <4>4
        <5> QED
            BY <1>2, <1>3, <4>2, <4>4, <5>1
      <4> QED
          BY <4>3, <4>4
    <3> QED
        BY <1>2, <1>12, <2>1, <2>3, <3>1, <3>2
  <2>8. Put(m, at)'
      BY <1>0, <1>2, <1>5, <1>12 DEF Put
  <2>9. Programming(m)'
      BY <1>0, <1>2, <1>5, <2>2, <2>6, <2>7, <2>8 DEF Programming
  <2> QED
      BY <1>0, <1>4, <1>12, <2>9 DEF Stage, Outcome, NoWork
<1>13. CASE block < Size /\ o >= block /\ q # <<>> /\ ~InDevice(o) /\ Return("eio")
  <2>1. phase' = "idle" /\ ret' = "eio" /\ cmds' = <<>>
      BY <1>0, <1>13 DEF Return
  <2>2. call.at >= Size
      BY <1>2, <1>3, <1>13 DEF InDevice
  <2>3. Result(m, h)'
      BY <1>0, <2>1, <2>2 DEF Result
  <2> QED
      BY <1>0, <1>4, <2>1, <2>3 DEF Stage, Outcome, NoWork
<1> QED
    BY <1>a, <1>10, <1>11, <1>12, <1>13

(* The end of a read and of an erase.                                      *)
LEMMA OneStage ==
    ASSUME NEW m, AtRest(m), NEW g, g = got, One(m, g), OneDone
    PROVE  Outcome(m, g)' /\ Stage(m, g)'
<1>1. /\ cmds' = <<>> /\ phase' = "idle" /\ ret' = "ok" /\ m = chip.mem
      /\ UNCHANGED <<chip, got, call, flashBefore, verified>>
    BY DEF AtRest, OneDone, Return, client
<1>2. One(m, g)'
    BY <1>1 DEF One
<1>3. Result(m, g)'
    BY <1>1, <1>2 DEF Result, One
<1> QED
    BY <1>1, <1>3 DEF Stage, Outcome, NoWork

(* The calls a program makes.                                              *)
IsCall(c) ==
    /\ c.op \in {"read", "erase", "write", "wblock", "fwrite"}
    /\ c.at \in Nat /\ c.data \in Seq(FlashByte) /\ (c.op = "write" => c.data # <<>>)
    /\ c.op \in {"wblock", "fwrite"} => c.at + Len(c.data) <= Size \/ c.at = Size

(* The beginning of a call.                                                *)
LEMMA BeginStage ==
    ASSUME ChipTyped, cmds = <<>>, NEW c, IsCall(c), FlashBegin(c)
    PROVE  /\ CallTyped' /\ Untouched(chip.mem)' /\ call' = c /\ flashBefore' = chip.mem
           /\ \E m, g : Outcome(m, g)' /\ Stage(m, g)'
<1>0. /\ call' = c /\ flashBefore' = chip.mem /\ UNCHANGED <<chip, got>>
      /\ chip.mem \in [Addr -> FlashByte]
    BY DEF FlashBegin, ChipTyped
<1>1. /\ c.op \in {"read", "erase", "write", "wblock", "fwrite"}
      /\ c.at \in Nat /\ c.data \in Seq(FlashByte) /\ Len(c.data) \in Nat /\ Size \in Nat
      /\ (c.op = "write" => c.data # <<>>)
      /\ c.op \in {"wblock", "fwrite"} => c.at + Len(c.data) <= Size \/ c.at = Size
    BY FlashSizes DEF IsCall
<1>2. CallTyped'
    BY <1>0, <1>1 DEF CallTyped
<1>3. Untouched(chip.mem)'
    BY <1>0 DEF Untouched
<1>4. PICK m, g, d, a : m = chip.mem /\ g = got /\ d = c.data /\ a = c.at
    OBVIOUS
<1>5. CallEnd' = a + Len(d) /\ \A x : (InCall(x)' <=> a <= x /\ x < a + Len(d))
    BY <1>0, <1>4 DEF CallEnd, InCall
<1>6. Carries(d, a)'
  <2>1. \A i \in 1..Len(d) : a + i - 1 - a + 1 = i
      BY <1>1, <1>4
  <2> QED
      BY <1>0, <1>1, <1>4, <2>1 DEF Carries, DataAt
<1>7. cmds' = cmds => Outcome(m, g)'
    BY <1>0, <1>4 DEF Outcome, NoWork
<1>8. CASE c.op = "write" /\ InDevice(c.at)
  <2>1. StartBlock(a, d) /\ a \in Addr /\ a \in Nat
      BY <1>1, <1>4, <1>8 DEF FlashBegin, InDevice, Addr
  <2>2. PICK b : b = SectorOf(a)
      OBVIOUS
  <2>3. DoneTo(m, b)'
    <3>1. ASSUME NEW x \in Addr PROVE m[x] = IF x < b THEN Goal(x)' ELSE flashBefore'[x]
      <4>1. b \in Nat /\ IsSector(b) /\ b <= a /\ x \in Nat /\ SectorSize \in Nat
          BY <2>1, <2>2, SectorHolds, InRange, FlashSizes
      <4>2. ASSUME x < b PROVE Goal(x)' = flashBefore'[x]
        <5>1. PICK s \in Nat : s = SectorOf(x) /\ s + SectorSize <= b
            BY <4>1, <4>2, SectorEdge, SectorHolds
        <5>2. \A y \in s..(s + SectorSize - 1) : ~InCall(y)'
            BY <1>1, <1>4, <1>5, <4>1, <5>1
        <5>3. Held(s)'
            BY <5>2 DEF Held
        <5> QED
            BY <5>1, <5>3 DEF Goal
      <4> QED
          BY <1>0, <1>4, <4>2
    <3> QED
        BY <3>1 DEF DoneTo
  <2>4. Len(d) > 0
      BY <1>1, <1>4, <1>8
  <2>5. /\ call'.op = "write" /\ call'.at \in Nat /\ a + Len(d) = CallEnd' /\ call'.at <= a
        /\ a = call'.at /\ chip'.mem = chip.mem /\ got' = got /\ m = chip.mem
        /\ m \in [Addr -> FlashByte]
      BY <1>0, <1>1, <1>4, <1>5, <1>8
  <2>6. \E h : Outcome(m, h)' /\ Stage(m, h)'
      BY <1>6, <2>1, <2>2, <2>3, <2>4, <2>5, BlockStarts DEF Carries, DataAt
  <2> QED
      BY <1>0, <1>2, <1>3, <2>6
<1>9. CASE c.op = "write" /\ ~InDevice(c.at)
  <2>1. Return("ok")
      BY <1>9 DEF FlashBegin
  <2>2. phase' = "idle" /\ ret' = "ok" /\ cmds' = cmds
      BY <2>1 DEF Return
  <2>3. ASSUME NEW x \in Addr PROVE m[x] = Goal(x)'
    <3>1. x \in Nat /\ x < Size /\ SectorSize \in Nat /\ IsSector(Size)
        BY InRange, FlashSizes
    <3>2. PICK s \in Nat : s = SectorOf(x) /\ s + SectorSize <= Size
        BY <3>1, SectorEdge, SectorHolds
    <3>3. \A y \in s..(s + SectorSize - 1) : ~InCall(y)'
        BY <1>1, <1>4, <1>5, <1>9, <3>1, <3>2 DEF InDevice
    <3>4. Held(s)'
        BY <3>3 DEF Held
    <3> QED
        BY <1>0, <1>4, <3>2, <3>4 DEF Goal
  <2>4. Result(m, g)'
      BY <1>0, <1>9, <2>2, <2>3 DEF Result
  <2>5. Outcome(m, g)' /\ Stage(m, g)'
      BY <1>7, <2>2, <2>4 DEF Stage
  <2> QED
      BY <1>0, <1>2, <1>3, <2>5
<1>10. CASE c.op = "fwrite"
  <2>1. phase' = "blocks" /\ block' = 0 /\ rest' = d /\ cmds' = cmds
      BY <1>4, <1>10 DEF FlashBegin
  <2>2. CallEnd' - Len(rest') = a
      BY <1>1, <1>4, <1>5, <2>1
  <2>3. Put(m, a)'
    <3>1. \A x \in Addr : ~(InCall(x)' /\ x < a)
        BY <1>1, <1>4, <1>5, InRange
    <3> QED
        BY <1>0, <1>4, <3>1 DEF Put
  <2>4. BetweenBlocks(m)'
    <3>1. CallEnd' <= Size \/ call'.at = Size
        BY <1>0, <1>1, <1>4, <1>5, <1>10
    <3>2. Carries(rest, CallEnd - Len(rest))' /\ Put(m, CallEnd - Len(rest))'
        BY <1>6, <2>1, <2>2, <2>3 DEF Carries, DataAt, Put
    <3>3. block' \in Nat /\ (CallEnd' - Len(rest') >= block') /\ Len(rest') <= Len(call'.data)
        BY <1>0, <1>1, <1>4, <2>1, <2>2
    <3> QED
        BY <1>0, <1>10, <3>1, <3>2, <3>3 DEF BetweenBlocks
  <2>5. Outcome(m, g)' /\ Stage(m, g)'
      BY <1>7, <2>1, <2>4 DEF Stage
  <2> QED
      BY <1>0, <1>2, <1>3, <2>5
<1>11. CASE c.op # "write" /\ c.op # "fwrite" /\ ~InDevice(c.at)
  <2>1. Return("eio")
      BY <1>11 DEF FlashBegin
  <2>2. phase' = "idle" /\ ret' = "eio" /\ cmds' = cmds /\ call'.at >= Size
      BY <1>0, <1>1, <1>11, <2>1 DEF Return, InDevice
  <2>3. Result(m, g)'
      BY <2>2 DEF Result
  <2>4. Outcome(m, g)' /\ Stage(m, g)'
      BY <1>7, <2>2, <2>3 DEF Stage
  <2> QED
      BY <1>0, <1>2, <1>3, <2>4
<1>12. CASE c.op = "wblock" /\ InDevice(c.at)
  <2>1. /\ phase' = "pages" /\ block' = SectorOf(a) /\ at' = a /\ piece' = d /\ rest' = <<>>
        /\ cmds' = cmds
      BY <1>4, <1>12 DEF FlashBegin
  <2>2. CallEnd' <= Size
      BY <1>1, <1>4, <1>5, <1>12 DEF InDevice
  <2>3. Put(m, a)'
    <3>1. \A x \in Addr : ~(InCall(x)' /\ x < a)
        BY <1>1, <1>4, <1>5, InRange
    <3> QED
        BY <1>0, <1>4, <3>1 DEF Put
  <2>4. SplitUp'
    <3>1. Carries(rest, at + Len(piece))' /\ Len(rest') = 0
        BY <2>1 DEF Carries
    <3>2. at' + Len(piece') + Len(rest') = CallEnd'
        BY <1>1, <1>4, <1>5, <2>1, <3>1
    <3>3. Carries(piece, at)'
        BY <1>6, <2>1 DEF Carries, DataAt
    <3> QED
        BY <1>0, <1>1, <1>4, <2>1, <3>1, <3>2, <3>3 DEF SplitUp
  <2>5. Programming(m)'
      BY <1>0, <1>12, <2>1, <2>2, <2>3, <2>4 DEF Programming, Put
  <2>6. Outcome(m, g)' /\ Stage(m, g)'
      BY <1>7, <2>1, <2>5 DEF Stage
  <2> QED
      BY <1>0, <1>2, <1>3, <2>6
<1>13. CASE c.op = "erase" /\ InDevice(c.at)
  <2>1. phase' = "last" /\ cmds' = SectorErase(a)
      BY <1>4, <1>13 DEF FlashBegin
  <2>2. a \in Addr
      BY <1>1, <1>4, <1>13 DEF InDevice, Addr
  <2>3. PICK o : o = EraseOf(chip.mem, a)
      OBVIOUS
  <2>4. Outcome(o, g)'
      BY <1>0, <1>4, <2>1, <2>2, <2>3, EraseBegins
  <2>5. One(o, g)'
      BY <1>0, <1>1, <1>4, <1>13, <2>3 DEF One, InDevice
  <2>6. Stage(o, g)'
      BY <2>1, <2>5 DEF Stage
  <2> QED
      BY <1>0, <1>2, <1>3, <2>4, <2>6
<1>14. CASE c.op = "read" /\ InDevice(c.at)
  <2>1. phase' = "last" /\ cmds' = ReadBuffer(a, Len(d))
      BY <1>4, <1>14 DEF FlashBegin
  <2>2. a \in Addr /\ Len(d) \in Nat
      BY <1>1, <1>4, <1>14 DEF InDevice, Addr
  <2>3. PICK h : h = BytesAt(chip.mem, a, Len(d))
      OBVIOUS
  <2>4. Outcome(m, h)'
      BY <1>0, <1>4, <2>1, <2>2, <2>3, ReadBegins
  <2>5. One(m, h)'
      BY <1>0, <1>1, <1>4, <1>14, <2>3 DEF One, InDevice
  <2>6. Stage(m, h)'
      BY <2>1, <2>5 DEF Stage
  <2> QED
      BY <1>0, <1>2, <1>3, <2>4, <2>6
<1> QED
    BY <1>1, <1>8, <1>9, <1>10, <1>11, <1>12, <1>13, <1>14

(* The sectors, one after the other.                                       *)
LEMMA SectorsInOrder ==
    ASSUME NEW i \in Nat, NEW s, s = i * SectorSize
    PROVE  /\ s \in Nat /\ (i + 1) * SectorSize = s + SectorSize
           /\ i < Sectors => s + SectorSize <= Size
           /\ i = 0 => s = 0
           /\ \A x \in Nat : /\ x \div SectorSize \in Nat /\ x % SectorSize \in 0..(SectorSize - 1)
                             /\ x < s <=> x \div SectorSize < i
                             /\ x \div SectorSize = i => x % SectorSize = x - s
<1>1. SectorSize \in Nat \ {0} /\ Sectors \in Nat
    BY FlashSizes
<1>2. \A a, b, L \in Nat : /\ a * L \in Nat /\ (a + 1) * L = a * L + L
                           /\ a + 1 <= b => a * L + L <= b * L
                           /\ 0 * L = 0
  <2>1. \A a, b, L \in Nat : a * L \in Nat /\ (a + 1) * L = a * L + L /\ 0 * L = 0
      OBVIOUS
  <2>2. \A a, b, L \in Nat : a <= b => a * L <= b * L
      OBVIOUS
  <2>3. \A a \in Nat : a + 1 \in Nat
      OBVIOUS
  <2>4. ASSUME NEW a \in Nat, NEW b \in Nat, NEW L \in Nat, a + 1 <= b PROVE a * L + L <= b * L
    <3>1. PICK c \in Nat : c = a + 1
        BY <2>3
    <3>2. c * L <= b * L
        BY <2>2, <2>4, <3>1
    <3>3. c * L = a * L + L
        BY <2>1, <3>1
    <3> QED
        BY <3>2, <3>3
  <2> QED
      BY <2>1, <2>4
<1>3. s \in Nat /\ (i + 1) * SectorSize = s + SectorSize /\ (i = 0 => s = 0)
    BY <1>1, <1>2
<1>4. ASSUME i < Sectors PROVE s + SectorSize <= Size
  <2>1. i + 1 <= Sectors
      BY <1>1, <1>4
  <2> QED
      BY <1>1, <1>2, <2>1 DEF Size
<1>5. ASSUME NEW x \in Nat
      PROVE  /\ x \div SectorSize \in Nat /\ x % SectorSize \in 0..(SectorSize - 1)
             /\ x < s <=> x \div SectorSize < i
             /\ x \div SectorSize = i => x % SectorSize = x - s
  <2>1. /\ x \div SectorSize \in Int /\ x % SectorSize \in 0..(SectorSize - 1)
        /\ x = (x \div SectorSize) * SectorSize + (x % SectorSize)
    <3>1. x \in Int
        OBVIOUS
    <3> QED
        BY <1>1, <3>1, Quotients
  <2>2. x \div SectorSize \in Nat
      BY <1>1
  <2>3. PICK k \in Nat, r \in 0..(SectorSize - 1) : k = x \div SectorSize /\ r = x % SectorSize
      BY <2>1, <2>2
  <2>4. PICK t \in Nat : t = k * SectorSize
      BY <1>1, <1>2
  <2>5. x = t + r
      BY <2>1, <2>3, <2>4
  <2>6. k < i => x < s
    <3>1. ASSUME k < i PROVE t + SectorSize <= s
      <4>1. k + 1 <= i
          BY <3>1
      <4> QED
          BY <1>1, <1>2, <2>4, <4>1
    <3> QED
        BY <1>1, <1>3, <2>5, <3>1
  <2>7. i < k => s < x
    <3>1. ASSUME i < k PROVE s + SectorSize <= t
      <4>1. i + 1 <= k
          BY <3>1
      <4> QED
          BY <1>1, <1>2, <2>4, <4>1
    <3> QED
        BY <1>1, <1>3, <2>5, <3>1
  <2>8. k = i => t = s /\ s <= x /\ r = x - s
      BY <1>3, <2>4, <2>5
  <2> QED
      BY <1>3, <2>1, <2>2, <2>3, <2>6, <2>7, <2>8
<1> QED
    BY <1>3, <1>4, <1>5

(* The blocks that FLASH_Verify takes are counted up.                      *)
LEMMA RankUp ==
    ASSUME NEW p, InLoop(p), NEW b, b = VerifyBlock(p)
    PROVE  /\ b \in Nat
           /\ b < Sectors => Rank(p.quick, b) = Rank(p.quick, p.i) + 1 /\ Takes(p.quick, b)
           /\ b >= Sectors => p.i = Sectors - 1
           /\ \A k \in Nat : Takes(p.quick, k) => (k < b <=> k <= p.i)
<1>1. /\ p.quick \in BOOLEAN /\ p.i \in 0..(Sectors - 1) /\ (p.quick => p.i = 0 \/ p.i = Sectors - 1)
      /\ Sectors \in Nat /\ Sectors >= 1
    BY FlashSizes DEF InLoop, Takes
<1>2. CASE p.quick /\ p.i < Sectors - 1
    BY <1>1, <1>2 DEF VerifyBlock, Takes, Rank
<1>3. CASE ~(p.quick /\ p.i < Sectors - 1)
  <2>1. b = p.i + 1
      BY <1>3 DEF VerifyBlock
  <2>2. CASE p.quick
    <3>1. p.i = Sectors - 1 /\ b = Sectors
        BY <1>1, <1>3, <2>1, <2>2
    <3>2. b \in Nat /\ ~(b < Sectors) /\ \A k \in Nat : k < b <=> k <= p.i
        BY <1>1, <3>1
    <3> QED
        BY <3>1, <3>2
  <2>3. CASE ~p.quick
      BY <1>1, <2>1, <2>3 DEF Takes, Rank
  <2> QED
      BY <2>2, <2>3
<1> QED
    BY <1>2, <1>3

(* FLASH_Verify goes through its loops.                                    *)
LEMMA VerifyMoves ==
    ASSUME NEW p, InLoop(p), NEW q, q = VerifyAfter(p), NEW n, n = VerifyPart(p),
           NEW a, a = p.i * SectorSize + p.sum
    PROVE  /\ a \in Nat /\ n \in Nat /\ n >= 1 /\ a + n <= Size /\ SectorOf(a) = p.i * SectorSize
           /\ p.pass = "erase" => n = SectorSize /\ a = p.i * SectorSize
           /\ \A x \in Nat : a <= x /\ x < a + n =>
                /\ Takes(p.quick, x \div SectorSize)
                /\ Rank(p.quick, x \div SectorSize) * SectorSize + (x % SectorSize) = p.cnt + (x - a)
           /\ \/ /\ q.pass = p.pass /\ q.quick = p.quick /\ InLoop(q)
                 /\ \A x \in Addr : Takes(p.quick, x \div SectorSize) =>
                                      (x < q.i * SectorSize + q.sum <=> x < a + n)
              \/ /\ q.pass = VerifyPass(p) /\ q.quick = p.quick /\ q.i = 0 /\ q.sum = 0
                 /\ q.pass # "end" => InLoop(q)
                 /\ \A x \in Addr : x < a + n
<1>1. PICK S \in Nat, i \in Nat, u \in Nat, c \in Nat, s \in Nat :
        /\ S = SectorSize /\ i = p.i /\ u = p.sum /\ c = p.cnt /\ s = i * S
  <2>1. SectorSize \in Nat /\ p.i \in Nat /\ p.sum \in Nat /\ p.cnt \in Nat
      BY FlashSizes DEF InLoop
  <2>2. p.i * SectorSize \in Nat
      BY <2>1, SectorsInOrder
  <2> QED
      BY <2>1, <2>2
<1>2. /\ S >= 1 /\ u < S /\ i < Sectors /\ Sectors \in Nat /\ Sectors >= 1 /\ BufSize \in Nat
      /\ BufSize >= 1 /\ Size \in Nat
      /\ p \in [pass : {"erase", "fwrite", "read"}, quick : BOOLEAN, i : 0..(Sectors - 1),
                sum : 0..(SectorSize - 1), cnt : Nat]
      /\ Takes(p.quick, i) /\ (p.pass = "erase" => u = 0)
      /\ c = Rank(p.quick, i) * S + u /\ a = s + u
    BY <1>1, FlashSizes DEF InLoop
<1>3. /\ (i + 1) * S = s + S /\ s + S <= Size
      /\ \A x \in Nat : /\ x \div S \in Nat /\ x % S \in 0..(S - 1)
                        /\ x < s <=> x \div S < i
                        /\ x \div S = i => x % S = x - s
  <2>1. s = i * SectorSize
      BY <1>1
  <2>2. i < Sectors => s + SectorSize <= Size
      BY <1>1, <2>1, SectorsInOrder
  <2>3. /\ (i + 1) * SectorSize = s + SectorSize
        /\ \A x \in Nat : /\ x \div SectorSize \in Nat /\ x % SectorSize \in 0..(SectorSize - 1)
                          /\ x < s <=> x \div SectorSize < i
                          /\ x \div SectorSize = i => x % SectorSize = x - s
      BY <1>1, <2>1, SectorsInOrder
  <2> QED
      BY <1>1, <1>2, <2>2, <2>3
<1>4. \A x \in Nat : x < s + S <=> x \div S < i + 1
  <2>1. PICK k \in Nat : k = i + 1
      OBVIOUS
  <2>2. s + S = k * S
      BY <1>3, <2>1
  <2> QED
      BY <1>1, <2>1, <2>2, SectorsInOrder
<1>5. n \in Nat /\ n >= 1 /\ u + n <= S /\ (p.pass = "erase" => n = S /\ u = 0)
  <2>1. CASE p.pass = "erase"
      BY <1>1, <1>2, <2>1 DEF VerifyPart
  <2>2. CASE p.pass # "erase"
    <3>1. PICK k \in Nat : k = S - u /\ k >= 1
      <4>1. S - u \in Nat /\ S - u >= 1
          BY <1>2
      <4> QED
          BY <4>1
    <3>2. n = Least(BufSize, k)
        BY <1>1, <2>2, <3>1 DEF VerifyPart
    <3>3. n \in Nat /\ n <= k /\ (n = k \/ n = BufSize)
        BY <1>2, <3>1, <3>2, LeastIs
    <3> QED
        BY <1>2, <2>2, <3>1, <3>3
  <2> QED
      BY <2>1, <2>2
<1>6. a \in Nat /\ a + n <= s + S /\ a + n <= Size /\ s <= a /\ a < s + S
    BY <1>2, <1>3, <1>5
<1>7. SectorOf(a) = s
  <2>1. IsSector(s)
      BY <1>1 DEF IsSector
  <2> QED
      BY <1>1, <1>6, <2>1, SectorAt
<1>8. ASSUME NEW x \in Nat, a <= x, x < a + n
      PROVE  /\ Takes(p.quick, x \div S)
             /\ Rank(p.quick, x \div S) * S + (x % S) = c + (x - a)
  <2>1. x \div S = i
    <3>1. PICK k \in Nat : k = x \div S
        BY <1>3
    <3>2. ~(x < s) /\ x < s + S
        BY <1>2, <1>5, <1>6, <1>8
    <3>3. ~(k < i) /\ k < i + 1
        BY <1>3, <1>4, <3>1, <3>2
    <3> QED
        BY <1>1, <3>1, <3>3
  <2>2. x % S = x - s
      BY <1>3, <2>1
  <2>3. PICK k \in Nat : k = Rank(p.quick, i) * S
    <3>1. Rank(p.quick, i) \in Nat
        BY DEF Rank
    <3> QED
        BY <1>1, <3>1, SectorsInOrder
  <2>4. k + (x - s) = c + (x - a)
      BY <1>2, <1>8, <2>3
  <2> QED
      BY <1>2, <2>1, <2>2, <2>3, <2>4
<1>9. PICK b : b = VerifyBlock(p)
    OBVIOUS
<1>10. /\ b \in Nat
       /\ b < Sectors => Rank(p.quick, b) = Rank(p.quick, i) + 1 /\ Takes(p.quick, b)
       /\ b >= Sectors => i = Sectors - 1
       /\ \A k \in Nat : Takes(p.quick, k) => (k < b <=> k <= i)
  <2>1. b \in Nat
      BY <1>2, <1>9, RankUp
  <2> QED
      BY <1>1, <1>9, <2>1, RankUp
<1>11. CASE u + n < S
  <2>1. q = [p EXCEPT !.sum = u + n, !.cnt = c + n] /\ p.pass # "erase"
      BY <1>1, <1>5, <1>11 DEF VerifyAfter
  <2>2. q.pass = p.pass /\ q.quick = p.quick /\ q.i = i /\ q.sum = u + n /\ q.cnt = c + n
      BY <1>1, <1>2, <2>1
  <2>3. InLoop(q)
    <3>1. c + n = Rank(p.quick, i) * S + (u + n)
      <4>1. Rank(p.quick, i) \in Nat
          BY DEF Rank
      <4>2. PICK k \in Nat : k = Rank(p.quick, i) * S
          BY <1>1, <4>1, SectorsInOrder
      <4> QED
          BY <1>2, <1>5, <4>2
    <3>2. q \in [pass : {"erase", "fwrite", "read"}, quick : BOOLEAN, i : 0..(Sectors - 1),
                 sum : 0..(SectorSize - 1), cnt : Nat]
      <4>1. u + n \in 0..(SectorSize - 1) /\ c + n \in Nat
          BY <1>1, <1>5, <1>11
      <4> QED
          BY <1>2, <2>1, <4>1
    <3> QED
        BY <1>1, <1>2, <2>1, <2>2, <3>1, <3>2 DEF InLoop
  <2>4. q.i * SectorSize + q.sum = a + n
      BY <1>1, <1>2, <1>5, <2>2
  <2> QED
      BY <1>1, <1>2, <1>5, <1>6, <1>7, <1>8, <2>2, <2>3, <2>4
<1>12. CASE ~(u + n < S)
  <2>1. u + n = S /\ a + n = s + S
      BY <1>2, <1>5, <1>12
  <2>2. CASE b < Sectors
    <3>1. q = [p EXCEPT !.i = b, !.sum = 0, !.cnt = c + n]
        BY <1>1, <1>9, <1>12, <2>2 DEF VerifyAfter
    <3>2. q.pass = p.pass /\ q.quick = p.quick /\ q.i = b /\ q.sum = 0 /\ q.cnt = c + n
        BY <1>2, <3>1
    <3>3. InLoop(q)
      <4>1. PICK r \in Nat : r = Rank(p.quick, i)
          BY DEF Rank
      <4>2. PICK t \in Nat : t = r * S /\ (r + 1) * S = t + S
          BY <1>1, SectorsInOrder
      <4>3. c + n = Rank(p.quick, b) * S + 0
          BY <1>2, <1>5, <1>10, <2>1, <2>2, <4>1, <4>2
      <4>4. q \in [pass : {"erase", "fwrite", "read"}, quick : BOOLEAN, i : 0..(Sectors - 1),
                   sum : 0..(SectorSize - 1), cnt : Nat]
        <5>1. 0 \in 0..(SectorSize - 1) /\ c + n \in Nat /\ b \in 0..(Sectors - 1)
            BY <1>1, <1>2, <1>5, <1>10, <2>2
        <5> QED
            BY <1>2, <3>1, <5>1
      <4> QED
          BY <1>1, <1>10, <2>2, <3>2, <4>3, <4>4 DEF InLoop
    <3>4. ASSUME NEW x \in Addr, Takes(p.quick, x \div SectorSize)
          PROVE  x < q.i * SectorSize + q.sum <=> x < a + n
      <4>1. PICK t \in Nat : t = b * S
          BY <1>1, <1>10, SectorsInOrder
      <4>2. x \in Nat
          BY InRange
      <4>3. PICK k \in Nat : k = x \div S
          BY <1>3, <4>2
      <4>4. x < t <=> k < b
          BY <1>1, <1>10, <4>1, <4>2, <4>3, SectorsInOrder
      <4>5. x < s + S <=> k < i + 1
          BY <1>4, <4>2, <4>3
      <4>6. k < b <=> k <= i
          BY <1>1, <1>10, <3>4, <4>3
      <4>7. q.i * SectorSize + q.sum = t
          BY <1>1, <3>2, <4>1
      <4> QED
          BY <2>1, <4>4, <4>5, <4>6, <4>7
    <3> QED
        BY <1>1, <1>2, <1>5, <1>6, <1>7, <1>8, <3>2, <3>3, <3>4
  <2>3. CASE ~(b < Sectors)
    <3>1. q = [p EXCEPT !.pass = VerifyPass(p), !.i = 0, !.sum = 0, !.cnt = 0]
        BY <1>1, <1>9, <1>12, <2>3 DEF VerifyAfter
    <3>2. q.pass = VerifyPass(p) /\ q.quick = p.quick /\ q.i = 0 /\ q.sum = 0 /\ q.cnt = 0
        BY <1>2, <3>1
    <3>3. ASSUME q.pass # "end" PROVE InLoop(q)
      <4>1. VerifyPass(p) \in {"erase", "fwrite", "read"}
          BY <1>2, <3>2, <3>3 DEF VerifyPass
      <4>2. q \in [pass : {"erase", "fwrite", "read"}, quick : BOOLEAN, i : 0..(Sectors - 1),
                   sum : 0..(SectorSize - 1), cnt : Nat]
        <5>1. 0 \in 0..(SectorSize - 1) /\ 0 \in 0..(Sectors - 1)
            BY <1>1, <1>2
        <5>2. PICK v : v = VerifyPass(p)
            OBVIOUS
        <5>3. PICK w : w = [p EXCEPT !.pass = v]
            OBVIOUS
        <5>4. w \in [pass : {"erase", "fwrite", "read"}, quick : BOOLEAN, i : 0..(Sectors - 1),
                     sum : 0..(SectorSize - 1), cnt : Nat]
            BY <1>2, <4>1, <5>2, <5>3
        <5>5. PICK z : z = 0
            OBVIOUS
        <5>6. q = [w EXCEPT !.i = z, !.sum = z, !.cnt = z]
            BY <3>1, <5>2, <5>3, <5>5
        <5>7. z \in 0..(SectorSize - 1) /\ z \in 0..(Sectors - 1) /\ z \in Nat
            BY <5>1, <5>5
        <5> QED
            BY <5>4, <5>6, <5>7
      <4>3. 0 * S = 0
          BY <1>1
      <4> QED
          BY <1>1, <3>2, <4>2, <4>3 DEF InLoop, Takes, Rank
    <3>4. ASSUME NEW x \in Addr PROVE x < a + n
      <4>1. x \in Nat /\ x < Size
          BY InRange
      <4>2. (i + 1) * S = Size
        <5>1. i + 1 = Sectors
            BY <1>2, <1>10, <2>3
        <5> QED
            BY <1>1, <5>1 DEF Size
      <4> QED
          BY <1>3, <2>1, <4>1, <4>2
    <3> QED
        BY <1>1, <1>2, <1>5, <1>6, <1>7, <1>8, <3>2, <3>3, <3>4
  <2> QED
      BY <2>2, <2>3
<1> QED
    BY <1>11, <1>12

(* The call for the next buffer.                                           *)
LEMMA BufferIsCall ==
    ASSUME NEW p, InLoop(p), NEW n, n = VerifyPart(p), NEW a, a = p.i * SectorSize + p.sum,
           NEW c, c = BufferCall(p)
    PROVE  /\ IsCall(c) /\ c.op = p.pass /\ c.at = a /\ a < Size
           /\ p.pass = "erase" => c.data = <<>>
           /\ p.pass # "erase" =>
                /\ Len(c.data) = n
                /\ \A x \in Nat : a <= x /\ x < a + n => c.data[x - a + 1] = Count(p.cnt + (x - a))
<1>1. /\ a \in Nat /\ n \in Nat /\ n >= 1 /\ a + n <= Size /\ Size \in Nat
      /\ p.pass = "erase" => n = SectorSize /\ a = p.i * SectorSize
  <2>1. PICK q : q = VerifyAfter(p)
      OBVIOUS
  <2> QED
      BY <2>1, VerifyMoves, FlashSizes
<1>2. p.pass \in {"erase", "fwrite", "read"} /\ p.cnt \in Nat
    BY DEF InLoop
<1>3. c.op = p.pass /\ c.at = a
    BY DEF BufferCall
<1>4. c.data = IF p.pass = "erase" THEN <<>> ELSE [k \in 1..n |-> Count(p.cnt + k - 1)]
    BY DEF BufferCall
<1>5. CASE p.pass = "erase"
    BY <1>1, <1>2, <1>3, <1>4, <1>5 DEF IsCall
<1>6. CASE p.pass # "erase"
  <2>1. c.data = [k \in 1..n |-> Count(p.cnt + k - 1)]
      BY <1>4, <1>6
  <2>2. \A k : Count(k) \in FlashByte
      BY DEF Count, FlashByte
  <2>3. c.data \in Seq(FlashByte) /\ Len(c.data) = n
      BY <1>1, <2>1, <2>2
  <2>4. ASSUME NEW x \in Nat, a <= x, x < a + n PROVE c.data[x - a + 1] = Count(p.cnt + (x - a))
    <3>1. x - a + 1 \in 1..n /\ p.cnt + (x - a + 1) - 1 = p.cnt + (x - a)
        BY <1>1, <1>2, <2>4
    <3> QED
        BY <2>1, <3>1
  <2> QED
      BY <1>1, <1>2, <1>3, <1>6, <2>3, <2>4 DEF IsCall
<1> QED
    BY <1>5, <1>6

(* A buffer further, the passes have reached one buffer more.              *)
LEMMA VerifyReaches ==
    ASSUME CallTyped, NEW p, InLoop(p), Reached(p, flashBefore), call = BufferCall(p),
           NEW m, NEW g, Result(m, g), ret = "ok", NEW q, q = VerifyAfter(p)
    PROVE  /\ Reached(q, m) /\ (q.pass # "end" => InLoop(q))
           /\ p.pass = "read" => g = call.data
<1>1. PICK n, a : n = VerifyPart(p) /\ a = p.i * SectorSize + p.sum
    OBVIOUS
<1>2. /\ a \in Nat /\ n \in Nat /\ n >= 1 /\ a + n <= Size /\ SectorOf(a) = p.i * SectorSize
      /\ p.pass = "erase" => n = SectorSize /\ a = p.i * SectorSize
      /\ \A x \in Nat : a <= x /\ x < a + n =>
           Rank(p.quick, x \div SectorSize) * SectorSize + (x % SectorSize) = p.cnt + (x - a)
      /\ \A x \in Nat : a <= x /\ x < a + n => Takes(p.quick, x \div SectorSize)
    BY <1>1, VerifyMoves
<1>3. \/ /\ q.pass = p.pass /\ q.quick = p.quick /\ InLoop(q)
         /\ \A x \in Addr : Takes(p.quick, x \div SectorSize) =>
                              (x < q.i * SectorSize + q.sum <=> x < a + n)
      \/ /\ q.pass = VerifyPass(p) /\ q.quick = p.quick /\ q.i = 0 /\ q.sum = 0
         /\ q.pass # "end" => InLoop(q)
         /\ \A x \in Addr : x < a + n
    BY <1>1, VerifyMoves
<1>4. /\ call.op = p.pass /\ call.at = a /\ a < Size
      /\ p.pass = "erase" => call.data = <<>>
      /\ p.pass # "erase" =>
           /\ Len(call.data) = n
           /\ \A x \in Nat : a <= x /\ x < a + n => call.data[x - a + 1] = Count(p.cnt + (x - a))
    BY <1>1, BufferIsCall
<1>5. /\ p.pass \in {"erase", "fwrite", "read"} /\ flashBefore \in [Addr -> FlashByte]
      /\ Size \in Nat /\ SectorSize \in Nat /\ 0 * SectorSize + 0 = 0
      /\ p.pass = "erase" => p.sum = 0
    BY FlashSizes DEF InLoop, CallTyped
<1>6. \A x \in Nat : a <= x /\ x < a + n => Counted(p.quick, x) = Count(p.cnt + (x - a))
    BY <1>2 DEF Counted
<1>7. ASSUME NEW x \in Addr, Takes(p.quick, x \div SectorSize)
      PROVE  /\ p.pass = "erase" /\ x < a => flashBefore[x] = Ones
             /\ p.pass = "fwrite" => flashBefore[x] = IF x < a THEN Counted(p.quick, x) ELSE Ones
             /\ p.pass = "read" => flashBefore[x] = Counted(p.quick, x)
  <2>1. p.pass = "erase" => a = p.i * SectorSize
      BY <1>2
  <2> QED
      BY <1>1, <1>7, <2>1 DEF Reached
<1>8. CASE p.pass = "erase"
  <2>1. m = EraseOf(flashBefore, a)
      BY <1>4, <1>8 DEF Result, One
  <2>2. ASSUME NEW x \in Addr, Takes(p.quick, x \div SectorSize), x < a + n PROVE m[x] = Ones
    <3>1. x \in Nat /\ IsSector(a)
        BY <1>2, <1>8, InRange, SectorHolds
    <3>2. SectorOf(x) = SectorOf(a) <=> a <= x /\ x < a + n
      <4>1. SectorOf(a) = a /\ n = SectorSize
          BY <1>2, <1>8
      <4> QED
          BY <3>1, <4>1, SectorAt
    <3>3. m[x] = IF SectorOf(x) = SectorOf(a) THEN Ones ELSE flashBefore[x]
        BY <2>1 DEF EraseOf
    <3>4. CASE x < a
        BY <1>7, <1>8, <2>2, <3>3, <3>4
    <3>5. CASE ~(x < a)
        BY <1>2, <2>2, <3>1, <3>2, <3>3, <3>5
    <3> QED
        BY <3>4, <3>5
  <2>3. CASE /\ q.pass = p.pass /\ q.quick = p.quick /\ InLoop(q)
             /\ \A x \in Addr : Takes(p.quick, x \div SectorSize) =>
                                  (x < q.i * SectorSize + q.sum <=> x < a + n)
    <3>1. PICK t \in Nat : t = q.i * SectorSize
      <4>1. q.i \in Nat
          BY <2>3 DEF InLoop
      <4> QED
          BY <4>1, SectorsInOrder
    <3>2. q.sum = 0 /\ q.i * SectorSize + q.sum = t
        BY <1>8, <2>3, <3>1 DEF InLoop
    <3>3. \A x \in Addr : Takes(q.quick, x \div SectorSize) => (x < q.i * SectorSize => m[x] = Ones)
        BY <2>2, <2>3, <3>1, <3>2
    <3> QED
        BY <1>8, <2>3, <3>3 DEF Reached
  <2>4. CASE /\ q.pass = VerifyPass(p) /\ q.quick = p.quick /\ q.i = 0 /\ q.sum = 0
             /\ q.pass # "end" => InLoop(q)
             /\ \A x \in Addr : x < a + n
    <3>1. q.pass = "fwrite"
        BY <1>8, <2>4 DEF VerifyPass
    <3>2. \A x \in Addr : ~(x < q.i * SectorSize + q.sum)
        BY <1>5, <2>4, InRange
    <3>3. \A x \in Addr : Takes(q.quick, x \div SectorSize) => m[x] = Ones
        BY <2>2, <2>4
    <3> QED
        BY <1>8, <2>4, <3>1, <3>2, <3>3 DEF Reached
  <2> QED
      BY <1>3, <2>3, <2>4
<1>9. CASE p.pass = "fwrite"
  <2>1. Put(m, CallEnd) /\ CallEnd = a + n
      BY <1>4, <1>9 DEF Result, CallEnd
  <2>2. ASSUME NEW x \in Addr, Takes(p.quick, x \div SectorSize)
        PROVE  m[x] = IF x < a + n THEN Counted(p.quick, x) ELSE Ones
    <3>1. x \in Nat
        BY InRange
    <3>2. InCall(x) <=> a <= x /\ x < a + n
        BY <1>4, <2>1 DEF InCall
    <3>3. m[x] = IF a <= x /\ x < a + n THEN flashBefore[x] \intersect DataAt(x) ELSE flashBefore[x]
        BY <2>1, <3>2 DEF Put
    <3>4. flashBefore[x] = IF x < a THEN Counted(p.quick, x) ELSE Ones
        BY <1>7, <1>9, <2>2
    <3>5. CASE x < a
        BY <1>2, <3>1, <3>3, <3>4, <3>5
    <3>6. CASE a <= x /\ x < a + n
      <4>1. DataAt(x) = Count(p.cnt + (x - a)) /\ Counted(p.quick, x) = Count(p.cnt + (x - a))
          BY <1>4, <1>6, <1>9, <3>1, <3>6 DEF DataAt
      <4>2. Count(p.cnt + (x - a)) \subseteq Ones
          BY DEF Count
      <4>3. ~(x < a)
          BY <1>2, <3>1, <3>6
      <4>4. m[x] = Ones \intersect Counted(p.quick, x) /\ Counted(p.quick, x) \subseteq Ones
          BY <3>3, <3>4, <3>6, <4>1, <4>2, <4>3
      <4>5. m[x] = Counted(p.quick, x)
          BY <4>4
      <4> QED
          BY <3>6, <4>5
    <3>7. CASE x >= a + n
        BY <1>2, <3>1, <3>3, <3>4, <3>7
    <3> QED
        BY <1>2, <3>1, <3>5, <3>6, <3>7
  <2>3. CASE /\ q.pass = p.pass /\ q.quick = p.quick /\ InLoop(q)
             /\ \A x \in Addr : Takes(p.quick, x \div SectorSize) =>
                                  (x < q.i * SectorSize + q.sum <=> x < a + n)
    <3>1. ASSUME NEW x \in Addr, Takes(q.quick, x \div SectorSize)
          PROVE  m[x] = IF x < q.i * SectorSize + q.sum THEN Counted(q.quick, x) ELSE Ones
      <4>1. Takes(p.quick, x \div SectorSize) /\ Counted(q.quick, x) = Counted(p.quick, x)
          BY <2>3, <3>1
      <4>2. x < q.i * SectorSize + q.sum <=> x < a + n
          BY <2>3, <4>1
      <4>3. m[x] = IF x < a + n THEN Counted(p.quick, x) ELSE Ones
          BY <2>2, <4>1
      <4> QED
          BY <4>1, <4>2, <4>3
    <3> QED
        BY <1>9, <2>3, <3>1 DEF Reached
  <2>4. CASE /\ q.pass = VerifyPass(p) /\ q.quick = p.quick /\ q.i = 0 /\ q.sum = 0
             /\ q.pass # "end" => InLoop(q)
             /\ \A x \in Addr : x < a + n
    <3>1. q.pass = "read"
        BY <1>9, <2>4 DEF VerifyPass
    <3>2. ASSUME NEW x \in Addr, Takes(q.quick, x \div SectorSize) PROVE m[x] = Counted(q.quick, x)
      <4>1. Takes(p.quick, x \div SectorSize) /\ Counted(q.quick, x) = Counted(p.quick, x)
          BY <2>4, <3>2
      <4> QED
          BY <2>2, <2>4, <4>1
    <3> QED
        BY <1>9, <2>4, <3>1, <3>2 DEF Reached
  <2> QED
      BY <1>3, <2>3, <2>4
<1>10. CASE p.pass = "read"
  <2>1. m = flashBefore /\ g = BytesAt(flashBefore, a, n)
      BY <1>4, <1>10 DEF Result, One
  <2>2. q.pass \in {"read", "end"} /\ q.quick = p.quick /\ (q.pass # "end" => InLoop(q))
      BY <1>3, <1>10 DEF VerifyPass
  <2>3. ASSUME NEW x \in Addr, Takes(q.quick, x \div SectorSize) PROVE m[x] = Counted(q.quick, x)
    <3>1. Takes(p.quick, x \div SectorSize) /\ Counted(q.quick, x) = Counted(p.quick, x)
        BY <2>2, <2>3
    <3> QED
        BY <1>7, <1>10, <2>1, <3>1
  <2>4. Reached(q, m)
      BY <2>2, <2>3 DEF Reached
  <2>5. g = [i \in 1..n |-> flashBefore[a + i - 1]]
    <3>1. PICK f \in [Addr -> FlashByte] : f = flashBefore
        BY <1>5
    <3>2. g = BytesAt(f, a, n)
        BY <2>1, <3>1
    <3>3. g = [i \in 1..n |-> f[a + i - 1]]
        BY <1>2, <3>2, BytesRead
    <3> QED
        BY <3>1, <3>3
  <2>6. call.data = [i \in 1..n |-> call.data[i]]
    <3>1. PICK d \in Seq(FlashByte) : d = call.data
        BY <1>4 DEF CallTyped
    <3>2. Len(d) = n
        BY <1>4, <1>10, <3>1
    <3> QED
        BY <3>1, <3>2
  <2>7. ASSUME NEW i \in 1..n PROVE flashBefore[a + i - 1] = call.data[i]
    <3>1. PICK x \in Nat : x = a + i - 1
      <4>1. a + i - 1 \in Nat
          BY <1>2
      <4> QED
          BY <4>1
    <3>2. a <= x /\ x < a + n /\ x - a + 1 = i /\ x \in Addr
        BY <1>2, <1>5, <3>1 DEF Addr
    <3>3. call.data[x - a + 1] = Count(p.cnt + (x - a))
        BY <1>4, <1>10, <3>2
    <3>4. flashBefore[x] = Count(p.cnt + (x - a))
        BY <1>2, <1>6, <1>7, <1>10, <3>2
    <3> QED
        BY <3>1, <3>2, <3>3, <3>4
  <2>8. g = call.data
      BY <2>5, <2>6, <2>7
  <2> QED
      BY <2>2, <2>4, <2>8
<1> QED
    BY <1>5, <1>8, <1>9, <1>10

(* The next call of FLASH_Verify, or its end.                              *)
LEMMA VerifyStage ==
    ASSUME ModesInv, CallTyped, Verifying, NEW m, NEW g, Outcome(m, g), Stage(m, g), VerifyNext
    PROVE  /\ CallTyped' /\ Untouched(chip.mem)' /\ Verifying'
           /\ \E n, h : Outcome(n, h)' /\ Stage(n, h)'
<1>0. /\ cmds = <<>> /\ phase = "idle" /\ verified = "running" /\ ChipTyped
      /\ chip.mem \in [Addr -> FlashByte]
    BY DEF VerifyNext, ModesInv, ModesRest, ChipTyped
<1>1. m = chip.mem /\ g = got /\ Result(m, g)
    BY <1>0, OutcomeEmpty DEF Stage
<1>2. PICK q : q = program
    OBVIOUS
<1>3. Passed /\ (q.pass # "end" => InLoop(q) /\ Reached(q, chip.mem))
  <2>1. CASE call.op = "none" /\ \E b \in BOOLEAN : program = VerifyAt("erase", b)
    <3>1. Passed
        BY <2>1 DEF Passed
    <3>2. PICK b \in BOOLEAN : q = [pass |-> "erase", quick |-> b, i |-> 0, sum |-> 0, cnt |-> 0]
        BY <1>2, <2>1 DEF VerifyAt
    <3>3. q.pass = "erase" /\ q.quick = b /\ q.i = 0 /\ q.sum = 0 /\ q.cnt = 0
        BY <3>2
    <3>4. 0 * SectorSize = 0 /\ SectorSize \in Nat /\ SectorSize >= 1 /\ Sectors \in Nat /\ Sectors >= 1
        BY FlashSizes
    <3>5. InLoop(q)
      <4>1. q \in [pass : {"erase", "fwrite", "read"}, quick : BOOLEAN, i : 0..(Sectors - 1),
                   sum : 0..(SectorSize - 1), cnt : Nat]
          BY <3>2, <3>4
      <4> QED
          BY <3>3, <3>4, <4>1 DEF InLoop, Takes, Rank
    <3>6. \A x \in Addr : ~(x < q.i * SectorSize)
        BY <3>3, <3>4, InRange
    <3>7. Reached(q, chip.mem)
        BY <3>3, <3>6 DEF Reached
    <3> QED
        BY <3>1, <3>5, <3>7
  <2>2. CASE \E p : InLoop(p) /\ Reached(p, flashBefore) /\ program = VerifyAfter(p)
                      /\ call = BufferCall(p)
    <3>1. PICK p : InLoop(p) /\ Reached(p, flashBefore) /\ q = VerifyAfter(p) /\ call = BufferCall(p)
        BY <1>2, <2>2
    <3>2. call.op = p.pass /\ call.op \in {"erase", "fwrite", "read"} /\ call.at < Size
          /\ call.at \in Nat /\ Size \in Nat
      <4>1. PICK n, a : n = VerifyPart(p) /\ a = p.i * SectorSize + p.sum
          OBVIOUS
      <4>2. call.op = p.pass /\ call.at = a /\ a < Size
          BY <3>1, <4>1, BufferIsCall
      <4> QED
          BY <3>1, <4>2, FlashSizes DEF InLoop, CallTyped
    <3>3. ret = "ok"
        BY <1>0, <1>1, <3>2 DEF Result
    <3>4. Reached(q, m) /\ (q.pass # "end" => InLoop(q)) /\ (p.pass = "read" => g = call.data)
        BY <1>1, <3>1, <3>3, VerifyReaches
    <3>5. Passed
        BY <1>1, <3>2, <3>3, <3>4 DEF Passed
    <3> QED
        BY <1>1, <3>4, <3>5
  <2> QED
      BY <1>0, <2>1, <2>2 DEF Verifying
<1>a. \/ /\ Passed /\ program.pass # "end" /\ program' = VerifyAfter(program)
         /\ FlashBegin(BufferCall(program)) /\ UNCHANGED verified
      \/ /\ ~Passed \/ program.pass = "end"
         /\ program' = NoProgram /\ verified' = IF Passed THEN "ok" ELSE "failed"
         /\ Forget /\ UNCHANGED <<chip, cmds, phase, found, resets>>
    BY DEF VerifyNext
<1>4. CASE /\ Passed /\ program.pass # "end" /\ program' = VerifyAfter(program)
           /\ FlashBegin(BufferCall(program)) /\ UNCHANGED verified
  <2>1. InLoop(q) /\ Reached(q, chip.mem) /\ program' = VerifyAfter(q) /\ verified' = "running"
      BY <1>0, <1>2, <1>3, <1>4
  <2>2. PICK c : c = BufferCall(q)
      OBVIOUS
  <2>3. IsCall(c)
    <3>1. PICK n, a : n = VerifyPart(q) /\ a = q.i * SectorSize + q.sum
        OBVIOUS
    <3> QED
        BY <2>1, <2>2, <3>1, BufferIsCall
  <2>4. FlashBegin(c)
      BY <1>2, <1>4, <2>2
  <2>5. /\ CallTyped' /\ Untouched(chip.mem)' /\ call' = c /\ flashBefore' = chip.mem
        /\ \E n, h : Outcome(n, h)' /\ Stage(n, h)'
      BY <1>0, <2>3, <2>4, BeginStage
  <2>6. Verifying'
    <3>1. InLoop(q) /\ Reached(q, flashBefore') /\ program' = VerifyAfter(q) /\ call' = BufferCall(q)
        BY <2>1, <2>2, <2>5
    <3> QED
        BY <2>1, <3>1 DEF Verifying
  <2> QED
      BY <2>5, <2>6
<1>5. CASE /\ ~Passed \/ program.pass = "end"
           /\ program' = NoProgram /\ verified' = IF Passed THEN "ok" ELSE "failed"
           /\ Forget /\ UNCHANGED <<chip, cmds, phase, found, resets>>
  <2>1. /\ verified' = "ok" /\ call' = Nobody /\ flashBefore' = chip.mem
        /\ UNCHANGED <<chip, cmds, phase>>
      BY <1>3, <1>5 DEF Forget
  <2>2. CallTyped' /\ call'.op = "none"
      BY <1>0, <2>1 DEF CallTyped, Nobody
  <2>3. Untouched(chip.mem)'
      BY <2>1 DEF Untouched
  <2>4. Verifying'
      BY <2>1 DEF Verifying
  <2>5. PICK h : h = got'
      OBVIOUS
  <2>6. Outcome(m, h)'
      BY <1>0, <1>1, <2>1, <2>5 DEF Outcome, NoWork
  <2>7. Stage(m, h)'
      BY <1>0, <2>1, <2>2 DEF Stage, Result
  <2> QED
      BY <2>2, <2>3, <2>4, <2>6, <2>7
<1> QED
    BY <1>a, <1>4, <1>5

(* While nobody calls, the driver's own steps leave the caller's state.    *)
LEMMA ClientKept ==
    ASSUME UNCHANGED <<chip, call, flashBefore, program, verified>>, CallTyped, Verifying,
           Untouched(chip.mem)
    PROVE  CallTyped' /\ Verifying' /\ Untouched(chip.mem)'
<1>1. CallTyped'
    BY DEF CallTyped
<1>2. Verifying'
    BY DEF Verifying, Reached, Takes
<1>3. Untouched(chip.mem)'
  <2>1. Area' = Area
      BY DEF Area
  <2> QED
      BY <2>1 DEF Untouched
<1> QED
    BY <1>1, <1>2, <1>3

(* The caller's state and the driver's place say what stage it is.         *)
LEMMA StageKept ==
    ASSUME UNCHANGED <<phase, ret, block, at, piece, rest, cmp>>,
           UNCHANGED <<call, flashBefore, program, verified>>, NEW m, NEW g, Stage(m, g)
    PROVE  Stage(m, g)'
<1>1. /\ CallEnd' = CallEnd
      /\ \A x : /\ Goal(x)' = Goal(x) /\ Want(x)' = Want(x) /\ Held(x)' = Held(x)
                /\ DataAt(x)' = DataAt(x) /\ InCall(x)' = InCall(x)
    BY SameCall
<1>2. SplitUp' = SplitUp
    BY DEF SplitUp, Carries, CallEnd, DataAt
<1>3. OneBlock' = OneBlock
    BY <1>1, <1>2 DEF OneBlock
<1>4. Comparing(m, g) => Comparing(m, g)'
    BY <1>1, <1>3 DEF Comparing
<1>5. Filling(m) => Filling(m)'
    BY <1>1, <1>3 DEF Filling
<1>6. Programming(m) => Programming(m)'
  <2>1. Put(m, at) => Put(m, at)'
      BY <1>1 DEF Put
  <2> QED
      BY <1>1, <1>2, <2>1 DEF Programming
<1>7. BetweenBlocks(m) => BetweenBlocks(m)'
    BY DEF BetweenBlocks, Carries, Put, InCall, CallEnd, DataAt
<1>8. One(m, g) => One(m, g)'
    BY DEF One
<1>9. Result(m, g) => Result(m, g)'
  <2>1. Put(m, CallEnd) => Put(m, CallEnd)'
      BY <1>1 DEF Put
  <2> QED
      BY <1>1, <1>8, <2>1 DEF Result
<1> QED
    BY <1>4, <1>5, <1>6, <1>7, <1>8, <1>9 DEF Stage

(* A command, and the end of a busy device.                                *)
LEMMA CommandFlash ==
    ASSUME FlashInv, Command \/ Done
    PROVE  /\ CallTyped' /\ Verifying' /\ Untouched(chip.mem)'
           /\ \E m, g : Outcome(m, g)' /\ Stage(m, g)'
<1>1. PICK m, g : /\ ModesInv /\ CallTyped /\ Untouched(chip.mem) /\ Verifying
                  /\ Outcome(m, g) /\ Stage(m, g)
    BY DEF FlashInv
<1>2. /\ UNCHANGED <<phase, ret, block, at, piece, rest, cmp>>
      /\ UNCHANGED <<call, flashBefore, program, verified>>
    BY DEF Command, Done, loop, client
<1>3. Outcome(m, g)' /\ chip'.mem \in {chip.mem, m}
  <2>1. CASE Command
      BY <1>1, <2>1, CommandOutcome
  <2>2. CASE Done
    <3>1. UNCHANGED <<cmds, got>> /\ chip'.mem = chip.mem
        BY <1>1, <2>2 DEF Done, ModesInv, ModesRest, ChipTyped
    <3> QED
        BY <1>1, <3>1, OutcomeStill
  <2> QED
      BY <2>1, <2>2
<1>4. Stage(m, g)'
    BY <1>1, <1>2, StageKept
<1>5. CallTyped'
    BY <1>1, <1>2 DEF CallTyped
<1>6. Verifying'
    BY <1>1, <1>2 DEF Verifying
<1>7. Untouched(chip.mem)'
  <2>1. Untouched(chip'.mem)
    <3>1. CASE chip'.mem = chip.mem
        BY <1>1, <3>1
    <3>2. CASE chip'.mem # chip.mem
      <4>1. cmds # <<>> /\ chip'.mem = m
          BY <1>1, <1>3, <3>2 DEF Command, Done, ModesInv, ModesRest, ChipTyped
      <4>2. phase \in {"compare", "pages", "last"}
          BY <1>1, <4>1 DEF ModesInv, ModesRest
      <4> QED
          BY <1>1, <4>1, <4>2, StageUntouched
    <3> QED
        BY <3>1, <3>2
  <2>2. Area' = Area
      BY <1>2 DEF Area
  <2> QED
      BY <1>2, <2>1, <2>2 DEF Untouched
<1> QED
    BY <1>3, <1>4, <1>5, <1>6, <1>7

(* The driver's steps between two commands.                                *)
LEMMA DriverFlash ==
    ASSUME FlashInv, Compare \/ Pages \/ FlashBlocks \/ OneDone
    PROVE  /\ CallTyped' /\ Verifying' /\ Untouched(chip.mem)'
           /\ \E m, g : Outcome(m, g)' /\ Stage(m, g)'
<1>1. PICK m, g : /\ ModesInv /\ CallTyped /\ Untouched(chip.mem) /\ Verifying
                  /\ Outcome(m, g) /\ Stage(m, g)
    BY DEF FlashInv
<1>2. /\ cmds = <<>> /\ chip.mem \in [Addr -> FlashByte]
      /\ UNCHANGED <<chip, call, flashBefore, program, verified>>
    BY <1>1 DEF Compare, Pages, FlashBlocks, OneDone, client, ModesInv, ModesRest, ChipTyped
<1>3. CallTyped' /\ Verifying' /\ Untouched(chip.mem)'
    BY <1>1, <1>2, ClientKept
<1>4. AtRest(m) /\ g = got
    BY <1>1, <1>2, OutcomeEmpty DEF AtRest
<1>5. CASE Compare
  <2>1. Comparing(m, g)
      BY <1>1, <1>5 DEF Stage, Compare
  <2> QED
      BY <1>1, <1>3, <1>4, <1>5, <2>1, CompareStage
<1>6. CASE Pages
  <2>1. Filling(m) \/ Programming(m)
      BY <1>1, <1>6 DEF Stage, Pages
  <2> QED
      BY <1>1, <1>3, <1>4, <1>6, <2>1, FillingStage, ProgrammingStage
<1>7. CASE FlashBlocks
  <2>1. BetweenBlocks(m)
      BY <1>1, <1>7 DEF Stage, FlashBlocks
  <2> QED
      BY <1>1, <1>3, <1>4, <1>7, <2>1, BlocksStage
<1>8. CASE OneDone
  <2>1. One(m, g)
      BY <1>1, <1>8 DEF Stage, OneDone
  <2> QED
      BY <1>3, <1>4, <1>8, <2>1, OneStage
<1> QED
    BY <1>5, <1>6, <1>7, <1>8

(* The steps of the caller.                                                *)
LEMMA RequestFlash ==
    ASSUME FlashInv, FlashRequest \/ FlashVerify \/ Taken
    PROVE  /\ CallTyped' /\ Verifying' /\ Untouched(chip.mem)'
           /\ \E m, g : Outcome(m, g)' /\ Stage(m, g)'
<1>1. PICK m, g : /\ ModesInv /\ CallTyped /\ Untouched(chip.mem) /\ Verifying
                  /\ Outcome(m, g) /\ Stage(m, g)
    BY DEF FlashInv
<1>2. /\ cmds = <<>> /\ phase = "idle" /\ ChipTyped /\ chip.mem \in [Addr -> FlashByte]
      /\ m = chip.mem /\ g = got
    BY <1>1, OutcomeEmpty DEF FlashRequest, FlashVerify, Taken, ModesInv, ModesRest, ChipTyped
<1>3. CASE FlashRequest
  <2>1. PICK c : IsCall(c) /\ FlashBegin(c)
    <3>1. PICK a \in Starts, n \in FlashLens :
            \/ FlashBegin([op |-> "read", at |-> a, data |-> [i \in 1..n |-> Ones]])
            \/ FlashBegin([op |-> "erase", at |-> a, data |-> <<>>])
            \/ \E d \in [1..n -> FlashByte] :
                 \/ FlashBegin([op |-> "write", at |-> a, data |-> d])
                 \/ /\ a + n <= Size \/ a = Size
                    /\ \E op \in {"wblock", "fwrite"} :
                         FlashBegin([op |-> op, at |-> a, data |-> d])
        BY <1>3 DEF FlashRequest
    <3>2. a \in Nat /\ n \in Nat /\ n >= 1
        BY FlashAssumption, FlashSizes
    <3>3. ASSUME NEW d \in [1..n -> FlashByte] PROVE d \in Seq(FlashByte) /\ Len(d) = n /\ d # <<>>
        BY <3>2, <3>3
    <3>4. CASE FlashBegin([op |-> "read", at |-> a, data |-> [i \in 1..n |-> Ones]])
      <4>1. PICK c : c = [op |-> "read", at |-> a, data |-> [i \in 1..n |-> Ones]]
          OBVIOUS
      <4>2. [i \in 1..n |-> Ones] \in [1..n -> FlashByte]
          BY DEF FlashByte
      <4>3. c.op = "read" /\ c.at = a /\ c.data \in Seq(FlashByte)
          BY <3>3, <4>1, <4>2
      <4>4. IsCall(c)
          BY <3>2, <4>3 DEF IsCall
      <4> QED
          BY <3>4, <4>1, <4>4
    <3>5. CASE FlashBegin([op |-> "erase", at |-> a, data |-> <<>>])
      <4>1. PICK c : c = [op |-> "erase", at |-> a, data |-> <<>>]
          OBVIOUS
      <4>2. IsCall(c)
          BY <3>2, <4>1 DEF IsCall
      <4> QED
          BY <3>5, <4>1, <4>2
    <3>6. ASSUME NEW d \in [1..n -> FlashByte], FlashBegin([op |-> "write", at |-> a, data |-> d])
          PROVE  \E c : IsCall(c) /\ FlashBegin(c)
      <4>1. PICK c : c = [op |-> "write", at |-> a, data |-> d]
          OBVIOUS
      <4>2. IsCall(c)
          BY <3>2, <3>3, <4>1 DEF IsCall
      <4> QED
          BY <3>6, <4>1, <4>2
    <3>7. ASSUME NEW d \in [1..n -> FlashByte], NEW op \in {"wblock", "fwrite"},
                 a + n <= Size \/ a = Size, FlashBegin([op |-> op, at |-> a, data |-> d])
          PROVE  \E c : IsCall(c) /\ FlashBegin(c)
      <4>1. PICK c : c = [op |-> op, at |-> a, data |-> d]
          OBVIOUS
      <4>2. IsCall(c)
          BY <3>2, <3>3, <3>7, <4>1 DEF IsCall
      <4> QED
          BY <3>7, <4>1, <4>2
    <3> QED
        BY <3>1, <3>4, <3>5, <3>6, <3>7
  <2>2. verified' = "none"
      BY <1>3 DEF FlashRequest
  <2>3. Verifying'
      BY <2>2 DEF Verifying
  <2>4. /\ CallTyped' /\ Untouched(chip.mem)'
        /\ \E n, h : Outcome(n, h)' /\ Stage(n, h)'
      BY <1>2, <2>1, BeginStage
  <2> QED
      BY <2>3, <2>4
<1>4. CASE FlashVerify
  <2>1. /\ call.op = "none" /\ verified' = "running"
        /\ \E b \in BOOLEAN : program' = VerifyAt("erase", b)
        /\ UNCHANGED <<chip, cmds, got, phase, call, flashBefore>>
      BY <1>4 DEF FlashVerify
  <2>2. CallTyped'
      BY <1>1, <2>1 DEF CallTyped
  <2>3. Untouched(chip.mem)'
    <3>1. Area' = Area
        BY <2>1 DEF Area
    <3> QED
        BY <1>1, <2>1, <3>1 DEF Untouched
  <2>4. Verifying'
      BY <2>1 DEF Verifying
  <2>5. Outcome(m, g)' /\ Stage(m, g)'
      BY <1>2, <2>1 DEF Outcome, NoWork, Stage, Result
  <2> QED
      BY <2>2, <2>3, <2>4, <2>5
<1>5. CASE Taken
  <2>1. /\ verified # "running" /\ call' = Nobody /\ flashBefore' = chip.mem
        /\ UNCHANGED <<chip, cmds, phase, program, verified>>
      BY <1>5 DEF Taken, Forget
  <2>2. CallTyped' /\ call'.op = "none"
      BY <1>2, <2>1 DEF CallTyped, Nobody
  <2>3. Untouched(chip.mem)'
      BY <2>1 DEF Untouched
  <2>4. Verifying'
      BY <1>1, <2>1 DEF Verifying
  <2>5. PICK h : h = got'
      OBVIOUS
  <2>6. Outcome(m, h)' /\ Stage(m, h)'
      BY <1>2, <2>1, <2>2, <2>5 DEF Outcome, NoWork, Stage, Result
  <2> QED
      BY <2>2, <2>3, <2>4, <2>6
<1> QED
    BY <1>3, <1>4, <1>5

(* Finding the device, and the reset.                                      *)
LEMMA OtherFlash ==
    ASSUME FlashInv, QueryRes \/ QueryId \/ FlashReset \/ FlashOpenFails \/ UNCHANGED flashVars
    PROVE  /\ CallTyped' /\ Verifying' /\ Untouched(chip.mem)'
           /\ \E m, g : Outcome(m, g)' /\ Stage(m, g)'
<1>1. PICK m, g : /\ ModesInv /\ CallTyped /\ Untouched(chip.mem) /\ Verifying
                  /\ Outcome(m, g) /\ Stage(m, g)
    BY DEF FlashInv
<1>2. CASE QueryRes \/ QueryId
  <2>1. /\ phase \in {"res", "rdid"} /\ phase' \in {"idle", "rdid"}
        /\ UNCHANGED <<chip, call, flashBefore, program, verified, ret, cmds, got>>
      BY <1>2 DEF QueryRes, QueryId, client
  <2>2. CallTyped' /\ Verifying' /\ Untouched(chip.mem)'
      BY <1>1, <2>1, ClientKept
  <2>3. Outcome(m, g)'
      BY <1>1, <2>1, OutcomeStill
  <2>4. Stage(m, g)'
      BY <1>1, <2>1 DEF Stage, Result
  <2> QED
      BY <2>2, <2>3, <2>4
<1>3. CASE FlashReset
  <2>1. /\ phase' = "res" /\ ret' = "none" /\ verified' = "none" /\ cmds' = <<>>
        /\ UNCHANGED <<chip, got, call, flashBefore>>
      BY <1>3 DEF FlashReset
  <2>2. CallTyped' /\ Verifying'
      BY <1>1, <2>1 DEF CallTyped, Verifying
  <2>3. Untouched(chip.mem)'
    <3>1. Area' = Area
        BY <2>1 DEF Area
    <3> QED
        BY <1>1, <2>1, <3>1 DEF Untouched
  <2>4. PICK n, h : n = chip.mem /\ h = got
      OBVIOUS
  <2>5. Outcome(n, h)' /\ Stage(n, h)'
      BY <2>1, <2>4 DEF Outcome, NoWork, Stage
  <2> QED
      BY <2>2, <2>3, <2>5
<1>4. CASE FlashOpenFails \/ UNCHANGED flashVars
  <2>1. /\ UNCHANGED <<chip, call, flashBefore, program, verified, ret, cmds, got, phase>>
        /\ UNCHANGED <<block, at, piece, rest, cmp>>
      BY <1>4 DEF FlashOpenFails, flashVars, loop, client
  <2>2. CallTyped' /\ Verifying' /\ Untouched(chip.mem)'
      BY <1>1, <2>1, ClientKept
  <2>3. Outcome(m, g)'
      BY <1>1, <2>1, OutcomeStill
  <2>4. Stage(m, g)'
      BY <1>1, <2>1, StageKept
  <2> QED
      BY <2>2, <2>3, <2>4
<1> QED
    BY <1>2, <1>3, <1>4

(* What is under way says what the contents are when it is done.           *)
LEMMA FlashTrue == FlashInv => ContentsTrue
<1> SUFFICES ASSUME FlashInv PROVE ContentsTrue
    OBVIOUS
<1>1. PICK m, g : /\ ModesInv /\ CallTyped /\ Untouched(chip.mem) /\ Verifying
                  /\ Outcome(m, g) /\ Stage(m, g)
    BY DEF FlashInv
<1>2. phase = "idle" => m = chip.mem /\ g = got /\ Result(m, g) /\ chip.mem \in [Addr -> FlashByte]
    BY <1>1, OutcomeEmpty DEF ModesInv, ModesRest, ChipTyped, Stage
<1>3. SectorSize \in Nat /\ Size \in Nat /\ call.at \in Nat /\ CallEnd \in Nat
    BY <1>1, FlashSizes DEF CallTyped, CallEnd
<1>4. WriteLands
  <2> SUFFICES ASSUME phase = "idle", call.op = "write", ret = "ok",
                      call.at + Len(call.data) <= Size, NEW y \in Area
               PROVE  LET s == SectorOf(y)
                          held == \A a \in Area : SectorOf(a) = s =>
                                                    flashBefore[a] = call.data[a - call.at + 1]
                      IN \A a \in s..(s + SectorSize - 1) :
                           chip.mem[a] = IF held THEN flashBefore[a]
                                         ELSE IF a \in Area THEN call.data[a - call.at + 1] ELSE Ones
      BY DEF WriteLands
  <2>1. \A x \in Addr : chip.mem[x] = Goal(x)
      BY <1>2 DEF Result
  <2>2. \A x \in Nat : InCall(x) <=> x \in Area
      BY <1>1, InArea
  <2>3. Area \subseteq Nat
    <3>1. \A i \in 1..Len(call.data) : call.at + i - 1 \in Nat
        BY <1>1, <1>3 DEF CallTyped
    <3> QED
        BY <3>1 DEF Area
  <2>4. y \in Nat /\ y < Size
      BY <1>3, <2>2, <2>3 DEF InCall, CallEnd
  <2>5. PICK s \in Nat : s = SectorOf(y) /\ IsSector(s) /\ s < Size
      BY <1>3, <2>4, SectorHolds
  <2>6. s + SectorSize <= Size
      BY <2>5, SectorEnds
  <2>7. \A x \in Nat : SectorOf(x) = s <=> x \in s..(s + SectorSize - 1)
      BY <1>3, <2>5, SectorAt
  <2>8. Held(s) <=> \A a \in Area : SectorOf(a) = s => flashBefore[a] = call.data[a - call.at + 1]
    <3>1. \A x \in s..(s + SectorSize - 1) : x \in Nat
        BY <1>3, <2>5
    <3>2. \A x : x \in s..(s + SectorSize - 1) /\ InCall(x) <=> x \in Area /\ SectorOf(x) = s
        BY <2>2, <2>3, <2>7, <3>1
    <3> QED
        BY <3>2 DEF Held, DataAt
  <2>9. ASSUME NEW a \in s..(s + SectorSize - 1)
        PROVE  chip.mem[a] = IF Held(s) THEN flashBefore[a]
                             ELSE IF a \in Area THEN call.data[a - call.at + 1] ELSE Ones
    <3>1. a \in Nat /\ a \in Addr /\ SectorOf(a) = s
        BY <1>3, <2>5, <2>6, <2>7 DEF Addr
    <3> QED
        BY <2>1, <2>2, <3>1 DEF Goal, Want, DataAt
  <2> QED
      BY <2>5, <2>8, <2>9
<1>5. CallTrue
  <2> SUFFICES ASSUME phase = "idle", ret = "ok" PROVE CallTrue
      BY DEF CallTrue
  <2>1. ASSUME call.op \in {"wblock", "fwrite"} PROVE chip.mem = Programmed
    <3>1. Put(chip.mem, CallEnd)
        BY <1>2, <2>1 DEF Result
    <3>2. ASSUME NEW x \in Addr
          PROVE  chip.mem[x] = flashBefore[x] \intersect
                                 IF x \in Area THEN call.data[x - call.at + 1] ELSE Ones
      <4>1. x \in Nat /\ (InCall(x) <=> x \in Area) /\ flashBefore[x] \subseteq Ones
          BY <1>1, InRange, InArea DEF CallTyped, FlashByte
      <4>2. InCall(x) => x < CallEnd
          BY DEF InCall
      <4> QED
          BY <3>1, <4>1, <4>2 DEF Put, DataAt
    <3>3. chip.mem = [x \in Addr |-> chip.mem[x]]
        BY <1>2
    <3> QED
        BY <3>2, <3>3 DEF Programmed
  <2>2. call.op = "read" =>
            chip.mem = flashBefore /\ got = BytesAt(flashBefore, call.at, Len(call.data))
      BY <1>2 DEF Result, One
  <2>3. call.op = "erase" => \A a \in Addr : SectorOf(a) = SectorOf(call.at) => chip.mem[a] = Ones
      BY <1>2 DEF Result, One, EraseOf
  <2> QED
      BY <2>1, <2>2, <2>3 DEF CallTrue
<1>6. OthersKept
    BY <1>1 DEF OthersKept, Untouched
<1>7. VerifyPasses
    BY <1>1 DEF VerifyPasses, Verifying
<1> QED
    BY <1>4, <1>5, <1>6, <1>7 DEF ContentsTrue

(* The start.                                                              *)
LEMMA FlashInitInv == FlashInit => FlashInv
<1> SUFFICES ASSUME FlashInit PROVE FlashInv
    OBVIOUS
<1>1. ModesInv
    BY ModesInitInv
<1>2. /\ cmds = <<>> /\ got = <<>> /\ phase = "res" /\ ret = "none" /\ call = Nobody
      /\ flashBefore = chip.mem /\ verified = "none"
    BY DEF FlashInit
<1>3. CallTyped
    BY <1>1, <1>2 DEF CallTyped, Nobody, ModesInv, ModesRest, ChipTyped
<1>4. Untouched(chip.mem) /\ Verifying
    BY <1>2 DEF Untouched, Verifying
<1>5. PICK m, g : m = chip.mem /\ g = got
    OBVIOUS
<1>6. Outcome(m, g) /\ Stage(m, g)
    BY <1>2, <1>5, OutcomeEmpty DEF Stage
<1> QED
    BY <1>1, <1>3, <1>4, <1>6 DEF FlashInv

(* Every step keeps it.                                                    *)
LEMMA FlashStepInv == ASSUME FlashInv, [FlashNext]_flashVars PROVE FlashInv'
<1>1. ModesInv'
    BY CommandModes, DoneModes, DriverModes, OtherModes DEF FlashInv, FlashNext, Driver
<1>2. /\ CallTyped' /\ Verifying' /\ Untouched(chip.mem)'
      /\ \E m, g : Outcome(m, g)' /\ Stage(m, g)'
  <2>1. CASE Command \/ Done
      BY <2>1, CommandFlash
  <2>2. CASE Compare \/ Pages \/ FlashBlocks \/ OneDone
      BY <2>2, DriverFlash
  <2>3. CASE FlashRequest \/ FlashVerify \/ Taken
      BY <2>3, RequestFlash
  <2>4. CASE QueryRes \/ QueryId \/ FlashReset \/ FlashOpenFails \/ UNCHANGED flashVars
      BY <2>4, OtherFlash
  <2>5. CASE VerifyNext
      BY <2>5, VerifyStage DEF FlashInv
  <2> QED
      BY <2>1, <2>2, <2>3, <2>4, <2>5 DEF FlashNext, Driver
<1> QED
    BY <1>1, <1>2 DEF FlashInv

(* After every call the flash holds what the call's description says: the  *)
(* data of a write that succeeded and nothing else in a sector that had to *)
(* be erased for it, exactly the data of a block write and of Flash_Write, *)
(* what it held before a read; no sector outside the call's range changes, *)
(* not even when a reset cuts the call short; and FLASH_Verify passes.     *)
(* For every geometry of the device, every kind of it, any contents at the *)
(* start, any calls and any number of resets.                              *)
THEOREM ContentsTrueAlways == FlashSpec => []ContentsTrue
BY FlashTrue, FlashInitInv, FlashStepInv, PTL DEF FlashSpec
-----------------------------------------------------------------------------
(* The types of the flash's variables.                                     *)

(* The driver's place in its loops, and the bytes read.                    *)
LoopTyped ==
    /\ at \in 0..Size /\ block \in 0..Size /\ IsSector(block) /\ cmp \in 0..SectorSize
    /\ piece \in Seq(FlashByte) /\ rest \in Seq(FlashByte) /\ ret \in {"none", "ok", "eio"}
GotTyped == \A i \in DOMAIN got : got[i] \in FlashByte

LEMMA SectorZero == IsSector(0) /\ 0 \in 0..Size /\ 0 \in 0..SectorSize
<1>1. SectorSize \in Nat /\ Size \in Nat /\ 0 * SectorSize = 0
    BY FlashSizes
<1> QED
    BY <1>1 DEF IsSector

LEMMA StartTyped ==
    ASSUME NEW a \in Nat, a < Size, NEW d \in Seq(FlashByte), StartBlock(a, d),
           ret \in {"none", "ok", "eio"}
    PROVE  LoopTyped'
<1>1. /\ SectorSize \in Nat /\ SectorSize >= 1 /\ Size \in Nat
      /\ SectorOf(a) \in Nat /\ IsSector(SectorOf(a)) /\ SectorOf(a) <= a
      /\ a < SectorOf(a) + SectorSize
    BY FlashSizes, SectorHolds
<1>2. PICK l \in Nat : l = Len(d)
    BY LenProperties
<1>3. PICK n \in Nat : n = BlockPart(a, l) /\ n <= l
  <2>1. SectorOf(a) + SectorSize - a \in Nat
      BY <1>1
  <2> QED
      BY <1>2, <2>1, LeastIs DEF BlockPart
<1>4. Cut(d, l, n, SubSeq(d, 1, n), SubSeq(d, n + 1, l))
    BY <1>2, <1>3, SeqCut
<1>5. /\ block' = SectorOf(a) /\ at' = a /\ cmp' = 0 /\ ret' = ret
      /\ piece' = SubSeq(d, 1, n) /\ rest' = SubSeq(d, n + 1, l)
    BY <1>2, <1>3 DEF StartBlock
<1>6. piece' \in Seq(FlashByte) /\ rest' \in Seq(FlashByte)
    BY <1>4, <1>5 DEF Cut
<1>7. at' \in 0..Size /\ block' \in 0..Size /\ cmp' \in 0..SectorSize
    BY <1>1, <1>5
<1>8. IsSector(block)'
    BY <1>1, <1>5 DEF IsSector
<1> QED
    BY <1>5, <1>6, <1>7, <1>8 DEF LoopTyped

LEMMA NextBlockTyped ==
    ASSUME LoopTyped, NextBlock
    PROVE  LoopTyped'
<1>1. CASE call.op = "write" /\ rest # <<>> /\ NextOffset(block) < Size
  <2>1. StartBlock(NextOffset(block), rest)
      BY <1>1 DEF NextBlock
  <2>2. NextOffset(block) \in Nat
      BY FlashSizes DEF LoopTyped, NextOffset
  <2> QED
      BY <1>1, <2>1, <2>2, StartTyped DEF LoopTyped
<1>2. CASE ~(call.op = "write" /\ rest # <<>> /\ NextOffset(block) < Size)
  <2>1. /\ UNCHANGED <<block, at, piece, rest, cmp>> /\ (ret' = ret \/ ret' = "ok")
      BY <1>2 DEF NextBlock, Return, loop
  <2> QED
      BY <2>1 DEF LoopTyped
<1> QED
    BY <1>1, <1>2

LEMMA CommandGot ==
    ASSUME FlashInv, GotTyped, Command
    PROVE  GotTyped'
<1>1. PICK m, g : ModesInv /\ Outcome(m, g)
    BY DEF FlashInv
<1>2. PICK c : c = Head(cmds)
    OBVIOUS
<1>3. /\ cmds # <<>> /\ IsCommands(cmds) /\ chip.mem \in [Addr -> FlashByte]
      /\ c.cmd \notin Works => got' = got
      /\ IsWork(c) => got' = GotOf(chip.mem, got, c)
    BY <1>1, <1>2, CommandWorks DEF ModesInv, ModesRest, ChipTyped
<1>4. CASE c.cmd \notin Works
    BY <1>3, <1>4 DEF GotTyped
<1>5. CASE c.cmd \in Works
  <2>1. PICK S : cmds \in Seq(S)
      BY <1>3 DEF IsCommands
  <2>2. Len(cmds) \in Nat /\ Len(cmds) >= 1 /\ cmds[1] = c
      BY <1>2, <1>3, <2>1, LenProperties, EmptySeq, HeadTailProperties
  <2>3. IsWork(c)
      BY <1>1, <1>5, <2>2 DEF Outcome, NoWork, OneWork
  <2>4. CASE c.cmd = "read"
    <3>1. PICK a \in Nat, n \in Nat : a = c.at /\ n = c.n
        BY <2>3, <2>4, InRange DEF IsWork
    <3>2. got' = [i \in 1..n |-> chip.mem[(a + i - 1) % Size]]
        BY <1>3, <2>3, <2>4, <3>1 DEF GotOf, BytesAt
    <3>3. ASSUME NEW i \in 1..n PROVE (a + i - 1) % Size \in Addr
      <4>1. PICK x \in Nat, L \in Nat \ {0} : x = a + i - 1 /\ L = Size
          BY <3>1, FlashSizes
      <4>2. x % L \in 0..(L - 1)
          BY <4>1
      <4> QED
          BY <4>1, <4>2 DEF Addr
    <3> QED
        BY <1>3, <3>2, <3>3 DEF GotTyped
  <2>5. CASE c.cmd # "read"
      BY <1>3, <2>3, <2>5 DEF GotOf, GotTyped
  <2> QED
      BY <2>4, <2>5
<1> QED
    BY <1>4, <1>5
LEMMA CompareTyped ==
    ASSUME FlashInv, LoopTyped, Compare
    PROVE  LoopTyped' /\ got' = got
<1>1. /\ got' = got /\ cmds = <<>> /\ phase = "compare"
      /\ \/ UNCHANGED <<block, at, piece, rest, cmp, ret>>
         \/ /\ cmp + Len(got) < Len(piece) /\ cmp' = cmp + Len(got)
            /\ UNCHANGED <<block, at, piece, rest, ret>>
         \/ NextBlock
    BY DEF Compare, loop
<1>2. PICK m, g : Outcome(m, g) /\ Stage(m, g)
    BY DEF FlashInv
<1>3. Comparing(m, g) /\ g = got
    BY <1>1, <1>2, OutcomeEmpty DEF Stage
<1>4. CASE /\ cmp + Len(got) < Len(piece) /\ cmp' = cmp + Len(got)
           /\ UNCHANGED <<block, at, piece, rest, ret>>
  <2>1. PICK l \in Nat : l = Len(piece)
      BY LenProperties DEF LoopTyped
  <2>2. PICK e \in Nat : e = CallEnd /\ at + l = Least(e, block + SectorSize) /\ block <= at
    <3>1. CallEnd \in Nat
        BY LenProperties DEF FlashInv, CallTyped, CallEnd
    <3> QED
        BY <1>3, <2>1, <3>1 DEF Comparing, OneBlock
  <2>3. SectorSize \in Nat /\ block \in Nat /\ at \in Nat /\ block + SectorSize \in Nat
      BY FlashSizes DEF LoopTyped
  <2>4. at + l <= block + SectorSize
      BY <2>2, <2>3, LeastIs
  <2>5. l <= SectorSize
      BY <2>1, <2>2, <2>3, <2>4
  <2>6. PICK k \in Nat : k = Len(got)
    <3>1. /\ cmp \in Nat /\ cmp < l /\ l \in Nat /\ ChunkSize \in Nat /\ ChunkSize >= 1
        BY <1>3, <2>1, FlashSizes DEF Comparing
    <3>2. l - cmp \in Nat /\ l - cmp >= 1
        BY <3>1
    <3>3. PICK n \in Nat : n = Least(ChunkSize, l - cmp)
        BY <3>1, <3>2, LeastIs
    <3>4. got = [i \in 1..n |-> m[(at + cmp + i - 1) % Size]]
        BY <1>3, <2>1, <3>3 DEF Comparing, BytesAt
    <3>5. Len(got) = n
        BY <3>3, <3>4
    <3> QED
        BY <3>3, <3>5
  <2>7. cmp' \in 0..SectorSize
      BY <1>4, <2>1, <2>3, <2>5, <2>6 DEF LoopTyped
  <2> QED
      BY <1>1, <1>4, <2>7 DEF LoopTyped
<1>5. CASE UNCHANGED <<block, at, piece, rest, cmp, ret>>
    BY <1>1, <1>5 DEF LoopTyped
<1> QED
    BY <1>1, <1>4, <1>5, NextBlockTyped

LEMMA PagesTyped ==
    ASSUME FlashInv, LoopTyped, Pages
    PROVE  LoopTyped' /\ got' = got
<1>1. /\ got' = got /\ cmds = <<>> /\ phase = "pages"
      /\ \/ /\ piece # <<>>
            /\ piece' = SubSeq(piece, PagePart(at, Len(piece)) + 1, Len(piece))
            /\ at' = at + PagePart(at, Len(piece)) /\ UNCHANGED <<block, rest, cmp, ret>>
         \/ NextBlock
    BY DEF Pages
<1>2. PICK m, g : Stage(m, g)
    BY DEF FlashInv
<1>3. CASE piece # <<>> /\ piece' = SubSeq(piece, PagePart(at, Len(piece)) + 1, Len(piece))
           /\ at' = at + PagePart(at, Len(piece)) /\ UNCHANGED <<block, rest, cmp, ret>>
  <2>1. PICK l \in Nat : l = Len(piece) /\ l > 0
      BY <1>3, LenProperties, EmptySeq DEF LoopTyped
  <2>2. PICK e \in Nat, k \in Nat : e = CallEnd /\ k = Len(rest)
      BY LenProperties DEF FlashInv, CallTyped, CallEnd, LoopTyped
  <2>3. SectorSize \in Nat /\ block \in Nat /\ at \in Nat /\ Size \in Nat /\ block + SectorSize \in Nat
      BY FlashSizes DEF LoopTyped
  <2>4. at + l <= Size
    <3>1. CASE Filling(m)
      <4>1. IsSector(block) /\ block < Size /\ at + l = Least(e, block + SectorSize)
          BY <2>1, <2>2, <3>1 DEF Filling, OneBlock
      <4>2. block + SectorSize <= Size /\ at + l <= block + SectorSize
          BY <2>2, <2>3, <4>1, SectorEnds, LeastIs
      <4> QED
          BY <2>1, <2>3, <4>2
    <3>2. CASE Programming(m)
      <4>1. e <= Size /\ at + l + k = e
          BY <2>1, <2>2, <3>2 DEF Programming, SplitUp
      <4> QED
          BY <2>1, <2>2, <2>3, <4>1
    <3> QED
        BY <1>1, <1>2, <3>1, <3>2 DEF Stage
  <2>5. PICK n : n = PagePart(at, l)
      OBVIOUS
  <2>6. n \in Nat /\ n <= l
      BY <2>1, <2>3, <2>4, <2>5, PageTaken DEF LoopTyped
  <2>7. Cut(piece, l, n, SubSeq(piece, 1, n), SubSeq(piece, n + 1, l))
      BY <2>1, <2>6, SeqCut DEF LoopTyped
  <2>8. piece' \in Seq(FlashByte) /\ at' \in 0..Size
    <3>1. piece' = SubSeq(piece, n + 1, l) /\ at' = at + n
        BY <1>3, <2>1, <2>5
    <3> QED
        BY <2>1, <2>3, <2>4, <2>6, <2>7, <3>1 DEF Cut
  <2> QED
      BY <1>1, <1>3, <2>8 DEF LoopTyped
<1> QED
    BY <1>1, <1>3, NextBlockTyped

LEMMA BlocksTyped ==
    ASSUME FlashInv, LoopTyped, FlashBlocks
    PROVE  LoopTyped' /\ got' = got
<1>1. PICK off, room, n :
        /\ off = call.at + Len(call.data) - Len(rest)
        /\ room = (IF Len(rest) # Len(call.data) THEN SectorSize
                   ELSE IF block + SectorSize >= call.at THEN block + SectorSize - call.at
                   ELSE Len(rest))
        /\ n = Least(room, Len(rest))
    OBVIOUS
<1>2. /\ got' = got /\ phase = "blocks"
      /\ \/ UNCHANGED <<block, at, piece, rest, cmp>> /\ (ret' = "ok" \/ ret' = "eio")
         \/ block < Size /\ block' = NextOffset(block) /\ UNCHANGED <<at, piece, rest, cmp, ret>>
         \/ /\ block < Size /\ rest # <<>> /\ off < Size
            /\ block' = NextOffset(block) /\ at' = off /\ piece' = SubSeq(rest, 1, n)
            /\ rest' = SubSeq(rest, n + 1, Len(rest)) /\ UNCHANGED <<cmp, ret>>
    BY <1>1 DEF FlashBlocks, Return, loop, InDevice
<1>3. block < Size => NextOffset(block) \in 0..Size /\ IsSector(NextOffset(block))
  <2>1. SectorSize \in Nat /\ Size \in Nat /\ block \in Nat /\ IsSector(block)
      BY FlashSizes DEF LoopTyped
  <2>2. IsSector(block + SectorSize)
      BY <2>1, SectorEdge
  <2> QED
      BY <2>1, <2>2, SectorEnds DEF NextOffset
<1>4. CASE UNCHANGED <<block, at, piece, rest, cmp>> /\ (ret' = "ok" \/ ret' = "eio")
    BY <1>2, <1>4 DEF LoopTyped
<1>5. CASE block < Size /\ block' = NextOffset(block) /\ UNCHANGED <<at, piece, rest, cmp, ret>>
    BY <1>2, <1>3, <1>5 DEF LoopTyped
<1>6. CASE /\ block < Size /\ rest # <<>> /\ off < Size
           /\ block' = NextOffset(block) /\ at' = off /\ piece' = SubSeq(rest, 1, n)
           /\ rest' = SubSeq(rest, n + 1, Len(rest)) /\ UNCHANGED <<cmp, ret>>
  <2>1. PICK l \in Nat, k \in Nat : l = Len(rest) /\ k = Len(call.data)
      BY LenProperties DEF FlashInv, CallTyped, LoopTyped
  <2>2. call.at \in Nat /\ SectorSize \in Nat /\ block \in Nat /\ Size \in Nat
      BY FlashSizes DEF FlashInv, CallTyped, LoopTyped
  <2>3. l <= k
      BY <1>2, <2>1 DEF FlashInv, Stage, BetweenBlocks
  <2>4. off \in 0..Size
      BY <1>1, <1>6, <2>1, <2>2, <2>3
  <2>5. room \in Nat
    <3>1. CASE Len(rest) # Len(call.data)
        BY <1>1, <2>2, <3>1
    <3>2. CASE Len(rest) = Len(call.data) /\ block + SectorSize >= call.at
      <4>1. room = block + SectorSize - call.at
          BY <1>1, <3>2
      <4> QED
          BY <2>2, <3>2, <4>1
    <3>3. CASE Len(rest) = Len(call.data) /\ ~(block + SectorSize >= call.at)
        BY <1>1, <2>1, <3>3
    <3> QED
        BY <3>1, <3>2, <3>3
  <2>6. n \in Nat /\ n <= l
      BY <1>1, <2>1, <2>5, LeastIs
  <2>7. Cut(rest, l, n, SubSeq(rest, 1, n), SubSeq(rest, n + 1, l))
      BY <2>1, <2>6, SeqCut DEF LoopTyped
  <2>8. piece' \in Seq(FlashByte) /\ rest' \in Seq(FlashByte)
      BY <1>6, <2>1, <2>7 DEF Cut
  <2> QED
      BY <1>2, <1>3, <1>6, <2>4, <2>8 DEF LoopTyped
<1> QED
    BY <1>2, <1>4, <1>5, <1>6

(* A call begins; the caller forgets the one that is over.                 *)
LEMMA BeginTyped ==
    ASSUME LoopTyped, NEW c, c.at \in Nat, c.data \in Seq(FlashByte), FlashBegin(c)
    PROVE  LoopTyped' /\ got' = got
<1>1. /\ got' = got
      /\ \/ c.at < Size /\ StartBlock(c.at, c.data)
         \/ UNCHANGED <<block, at, piece, rest, cmp>> /\ ret' \in {"ok", "eio", ret}
         \/ block' = 0 /\ rest' = c.data /\ UNCHANGED <<at, piece, cmp, ret>>
         \/ /\ c.at < Size /\ block' = SectorOf(c.at) /\ at' = c.at
            /\ piece' = c.data /\ rest' = <<>> /\ UNCHANGED <<cmp, ret>>
    BY DEF FlashBegin, Return, loop, InDevice
<1>2. CASE c.at < Size /\ StartBlock(c.at, c.data)
    BY <1>1, <1>2, StartTyped DEF LoopTyped
<1>3. CASE UNCHANGED <<block, at, piece, rest, cmp>> /\ ret' \in {"ok", "eio", ret}
    BY <1>1, <1>3 DEF LoopTyped
<1>4. CASE block' = 0 /\ rest' = c.data /\ UNCHANGED <<at, piece, cmp, ret>>
    BY <1>1, <1>4, SectorZero DEF LoopTyped
<1>5. CASE /\ c.at < Size /\ block' = SectorOf(c.at) /\ at' = c.at
           /\ piece' = c.data /\ rest' = <<>> /\ UNCHANGED <<cmp, ret>>
  <2>1. /\ SectorOf(c.at) \in Nat /\ IsSector(SectorOf(c.at)) /\ SectorOf(c.at) <= c.at
        /\ Size \in Nat /\ c.at \in Nat
      BY FlashSizes, SectorHolds
  <2>2. block' \in 0..Size /\ IsSector(block)' /\ at' \in 0..Size
      BY <1>5, <2>1 DEF IsSector
  <2> QED
      BY <1>1, <1>5, <2>2, EmptySeq DEF LoopTyped
<1> QED
    BY <1>1, <1>2, <1>3, <1>4, <1>5

LEMMA ForgetTyped == ASSUME Forget PROVE LoopTyped' /\ GotTyped'
BY SectorZero DEF Forget, LoopTyped, GotTyped

LEMMA FlashTypesStep ==
    ASSUME FlashInv, LoopTyped, GotTyped, [FlashNext]_flashVars, CallTyped'
    PROVE  LoopTyped' /\ GotTyped'
<1>1. got' = got => GotTyped'
    BY DEF GotTyped
<1>2. UNCHANGED loop /\ ret' \in {ret, "ok", "none"} => LoopTyped'
    BY DEF LoopTyped, IsSector, loop
<1>3. CASE Command
    BY <1>2, <1>3, CommandGot DEF Command
<1>4. CASE Compare \/ Pages \/ FlashBlocks
    BY <1>1, <1>4, CompareTyped, PagesTyped, BlocksTyped
<1>5. CASE OneDone \/ Done \/ FlashVerify \/ QueryRes \/ QueryId \/ FlashOpenFails \/ FlashReset
           \/ UNCHANGED flashVars
    BY <1>1, <1>2, <1>5 DEF OneDone, Return, Done, FlashVerify, QueryRes, QueryId, FlashOpenFails,
                            FlashReset, flashVars
<1>6. ASSUME NEW c, FlashBegin(c) PROVE LoopTyped' /\ GotTyped'
  <2>1. call' = c
      BY <1>6 DEF FlashBegin
  <2>2. c.at \in Nat /\ c.data \in Seq(FlashByte)
      BY <2>1 DEF CallTyped
  <2> QED
      BY <1>1, <1>6, <2>2, BeginTyped
<1>7. CASE FlashRequest
    BY <1>6, <1>7 DEF FlashRequest
<1>8. CASE Taken
    BY <1>8, ForgetTyped DEF Taken
<1>9. CASE VerifyNext
    BY <1>6, <1>9, ForgetTyped DEF VerifyNext
<1> QED
    BY <1>3, <1>4, <1>5, <1>7, <1>8, <1>9 DEF FlashNext, Driver

LEMMA FlashTypesRight == ASSUME FlashInv, LoopTyped, GotTyped PROVE FlashTypeOK
<1>1. ChipTyped /\ phase \in {"idle", "compare", "pages", "blocks", "last", "res", "rdid"}
    BY DEF FlashInv, ModesInv, ModesRest
<1>2. ASSUME NEW d \in {piece, rest} PROVE \A i \in DOMAIN d : d[i] \in FlashByte
  <2>1. d \in Seq(FlashByte)
      BY DEF LoopTyped
  <2> QED
      BY <2>1, LenProperties, ElementOfSeq
<1>3. \A d \in {piece, rest, got} : \A i \in DOMAIN d : d[i] \in FlashByte
    BY <1>2 DEF GotTyped
<1> QED
    BY <1>1, <1>3 DEF FlashTypeOK, ChipTyped, LoopTyped

LEMMA FlashTypesInit == FlashInit => LoopTyped /\ GotTyped
BY SectorZero, EmptySeq DEF FlashInit, LoopTyped, GotTyped
==============================================================================
