------------------------------- MODULE EpcsFlash -------------------------------
(***************************************************************************)
(* The EPCS serial flash: the device, the driver of the flash controller   *)
(* (query, write, read, erase_block, write_block) and the demonstration's  *)
(* flash library on it (Flash_Write, FLASH_Verify).                        *)
(*                                                                         *)
(* A function of epcs_commands.c is a script of SPI commands, each of them *)
(* one step (SpiCommand says how one is carried out).  The device is busy  *)
(* for a while after an erase or a program and ignores what it is sent     *)
(* then; the processor may be reset between any two commands, the device   *)
(* keeps its state.  A byte is the set of its bits that are 1: erasing     *)
(* sets them all, programming can only clear some.                         *)
(***************************************************************************)
EXTENDS Integers, Sequences

CONSTANTS
    Sectors, SectorSize, PageSize,  \* the device
    Ones,                           \* bits of a byte
    Kinds,                          \* the devices there are: [long, byId]; the first needs four
                                    \* address bytes, the second is known by RDID, not by RES
    ChunkSize,                      \* bytes compared at a time; 32
    BufSize,                        \* buffer of FLASH_Verify; 8192
    FlashLens,                      \* bound: lengths of a call's data
    FlashMem0,                      \* bound: contents at the start
    Starts,                         \* bound: offsets of the calls
    MaxResets                       \* bound: resets of the processor

Size == Sectors * SectorSize
Addr == 0..(Size - 1)
FlashByte == SUBSET Ones
ASSUME FlashAssumption ==
    /\ {Sectors, SectorSize, PageSize, ChunkSize, BufSize} \subseteq Nat \ {0}
    /\ SectorSize % PageSize = 0 /\ FlashLens \subseteq Nat \ {0} /\ Starts \subseteq 0..Size
    /\ FlashMem0 \subseteq [Addr -> FlashByte]
    /\ Kinds \subseteq [long : BOOLEAN, byId : BOOLEAN] /\ MaxResets \in Nat

VARIABLES
    chip,         \* device: [mem, wip, wel, four, long, byId]
    cmds, got,    \* commands left of the function that runs; the bytes read
    phase,        \* where the driver is
    call, ret,    \* the call, [op, at, data], and what it returned
    block, at,    \* current_offset or block_offset; offset or data_offset
    piece, rest,  \* data left for this block, and for the blocks after it
    cmp,          \* bytes of the block found equal
    found,        \* the device is registered
    program,      \* FLASH_Verify: its loops, [pass, quick, i, sum, cnt]; cnt is Cnt
    verified,     \* FLASH_Verify: its result
    flashBefore,  \* history: contents when the call began
    resets        \* history: number of resets

loop == <<block, at, piece, rest, cmp>>
client == <<call, flashBefore, program, verified>>
flashVars == <<chip, cmds, got, phase, ret, loop, client, found, resets>>
-----------------------------------------------------------------------------
(* The functions of epcs_commands.c.                                       *)
Cmd(c) == <<[cmd |-> c, at |-> 0, data |-> <<>>, n |-> 0]>>
At(c, a, d, n) == <<[cmd |-> c, at |-> a, data |-> d, n |-> n]>>
WriteEnable == Cmd("wren")
Await == Cmd("rdsr")

Enter4 == IF chip.long THEN WriteEnable \o Cmd("en4b") ELSE <<>>
Exit4 == IF chip.long THEN WriteEnable \o Cmd("dis4b") ELSE <<>>

(* The first is a mutant: it returns while the device is busy.             *)
SectorErase_noWait(a) == Enter4 \o WriteEnable \o At("se", a, <<>>, 0) \o Exit4
SectorErase(a) == Enter4 \o WriteEnable \o At("se", a, <<>>, 0) \o Await \o Exit4

ReadBuffer(a, n) == Enter4 \o Await \o At("read", a, <<>>, n) \o Exit4
WriteBuffer(a, d) == Enter4 \o WriteEnable \o At("pp", a, d, 0) \o Await \o Exit4
-----------------------------------------------------------------------------
(* The device.  With the wrong number of address bytes it acts anywhere.   *)
FlashHit(c) == IF chip.four = chip.long THEN {c.at % Size} ELSE Addr
SectorOf(a) == a - (a % SectorSize)
PageOf(a) == a - (a % PageSize)
ErasedAt(a) == [x \in Addr |-> IF SectorOf(x) = SectorOf(a) THEN Ones ELSE chip.mem[x]]
ProgrammedAt(a, d) ==
    [x \in Addr |-> chip.mem[x] \intersect
        {b \in Ones : \A i \in 1..Len(d) : PageOf(a) + ((a + i - 1) % PageSize) = x => b \in d[i]}]
BytesAt(m, a, n) == [i \in 1..n |-> m[(a + i - 1) % Size]]

(* Ready for a command that needs the write enable latch.                  *)
Latched == ~chip.wip /\ chip.wel
Mode(four) == chip' = IF Latched THEN [chip EXCEPT !.four = four, !.wel = FALSE] ELSE chip
Busy(mem) == chip' = [chip EXCEPT !.mem = mem, !.wip = TRUE]

Command ==
    /\ cmds # <<>>
    /\ LET c == Head(cmds) IN
         /\ c.cmd = "rdsr" => ~chip.wip
         /\ cmds' = Tail(cmds)
         /\ \/ c.cmd = "rdsr" /\ UNCHANGED <<chip, got>>
            \/ c.cmd = "wren" /\ chip' = [chip EXCEPT !.wel = @ \/ ~chip.wip] /\ UNCHANGED got
            \/ c.cmd = "en4b" /\ Mode(TRUE) /\ UNCHANGED got
            \/ c.cmd = "dis4b" /\ Mode(FALSE) /\ UNCHANGED got
            \/ /\ c.cmd = "se" /\ UNCHANGED got
               /\ IF Latched THEN \E a \in FlashHit(c) : Busy(ErasedAt(a)) ELSE UNCHANGED chip
            \/ /\ c.cmd = "pp" /\ UNCHANGED got
               /\ IF Latched THEN \E a \in FlashHit(c) : Busy(ProgrammedAt(a, c.data))
                  ELSE UNCHANGED chip
            \/ /\ c.cmd = "read" /\ UNCHANGED chip
               /\ \E a \in FlashHit(c) : got' = IF chip.wip THEN [i \in 1..c.n |-> Ones]
                                                ELSE BytesAt(chip.mem, a, c.n)
    /\ UNCHANGED <<phase, ret, loop, client, found, resets>>

Done == /\ chip.wip /\ chip' = [chip EXCEPT !.wip = FALSE, !.wel = FALSE]
        /\ UNCHANGED <<cmds, got, phase, ret, loop, client, found, resets>>
-----------------------------------------------------------------------------
(* The driver's functions.  The lengths a block and a page leave, the      *)
(* check of an offset.                                                     *)
Least(a, b) == IF a < b THEN a ELSE b
PagePart(a, n) == Least(n, PageOf(a + PageSize) - a)
BlockPart(a, n) == Least(n, SectorOf(a) + SectorSize - a)

InDevice(a) == a < Size

(* The block after this one.                                               *)
NextOffset(b) == b + SectorSize

Return(r) == /\ phase' = "idle" /\ ret' = r /\ UNCHANGED <<loop, cmds>>

(* Start writing d at a: the first block of it is compared first.          *)
StartBlock(a, d) ==
    LET n == BlockPart(a, Len(d)) IN
      /\ phase' = "compare" /\ block' = SectorOf(a) /\ at' = a /\ cmp' = 0
      /\ piece' = SubSeq(d, 1, n) /\ rest' = SubSeq(d, n + 1, Len(d))
      /\ cmds' = ReadBuffer(a, Least(ChunkSize, n))
      /\ UNCHANGED ret

(* The next block, or the end of the call.  The first is a mutant: the     *)
(* data after the first block are forgotten.                               *)
NextBlock_no == Return("ok")
NextBlock ==
    IF call.op = "write" /\ rest # <<>> /\ NextOffset(block) < Size
    THEN StartBlock(NextOffset(block), rest)
    ELSE IF call.op = "fwrite"
    THEN phase' = "blocks" /\ UNCHANGED <<loop, cmds, ret>>
    ELSE Return("ok")

(* alt_epcs_flash_memcmp, and what its result leads to: a sector that does *)
(* not hold the data is erased.                                            *)
EraseFirst(b) == SectorErase(b)
Compare ==
    /\ phase = "compare" /\ cmds = <<>>
    /\ LET upTo == cmp + Len(got)
       IN \/ /\ got # SubSeq(piece, cmp + 1, upTo)
             /\ phase' = "pages" /\ cmds' = EraseFirst(block) /\ UNCHANGED <<loop, ret>>
          \/ /\ got = SubSeq(piece, cmp + 1, upTo) /\ upTo < Len(piece)
             /\ cmp' = upTo /\ cmds' = ReadBuffer(at + upTo, Least(ChunkSize, Len(piece) - upTo))
             /\ UNCHANGED <<phase, block, at, piece, rest, ret>>
          \/ got = SubSeq(piece, cmp + 1, upTo) /\ upTo = Len(piece) /\ NextBlock
    /\ UNCHANGED <<chip, got, client, found, resets>>

(* alt_epcs_flash_write_block: page by page.                               *)
Pages ==
    /\ phase = "pages" /\ cmds = <<>>
    /\ \/ /\ piece # <<>>
          /\ LET n == PagePart(at, Len(piece)) IN
               /\ cmds' = WriteBuffer(at, SubSeq(piece, 1, n))
               /\ piece' = SubSeq(piece, n + 1, Len(piece)) /\ at' = at + n
          /\ UNCHANGED <<phase, block, rest, cmp, ret>>
       \/ piece = <<>> /\ NextBlock
    /\ UNCHANGED <<chip, got, client, found, resets>>

(* Flash_Write: for each block a call of write_block, with block the next  *)
(* one and rest the data not yet written.  An offset past a block makes    *)
(* the unsigned room in it huge: all the data go at once.                  *)
FlashBlocks ==
    /\ phase = "blocks" /\ cmds = <<>>
    /\ LET first == Len(rest) = Len(call.data)
           off == call.at + Len(call.data) - Len(rest)
           room == IF ~first THEN SectorSize
                   ELSE IF block + SectorSize >= call.at THEN block + SectorSize - call.at
                   ELSE Len(rest)
           n == Least(room, Len(rest))
       IN \/ block >= Size /\ Return("ok")
          \/ /\ block < Size /\ (off < block \/ rest = <<>>)
             /\ block' = NextOffset(block) /\ UNCHANGED <<at, piece, rest, cmp, phase, cmds, ret>>
          \/ /\ block < Size /\ off >= block /\ rest # <<>> /\ InDevice(off)
             /\ block' = NextOffset(block) /\ at' = off /\ piece' = SubSeq(rest, 1, n)
             /\ rest' = SubSeq(rest, n + 1, Len(rest)) /\ phase' = "pages"
             /\ UNCHANGED <<cmp, cmds, ret>>
          \/ block < Size /\ off >= block /\ rest # <<>> /\ ~InDevice(off) /\ Return("eio")
    /\ UNCHANGED <<chip, got, client, found, resets>>

(* alt_epcs_flash_read and alt_epcs_flash_erase_block have one function.   *)
OneDone == /\ phase = "last" /\ cmds = <<>> /\ Return("ok")
        /\ UNCHANGED <<chip, got, client, found, resets>>
-----------------------------------------------------------------------------
FlashBegin(c) ==
    /\ call' = c /\ flashBefore' = chip.mem
    /\ CASE c.op = "write" /\ InDevice(c.at) -> StartBlock(c.at, c.data)
         [] c.op = "write" /\ ~InDevice(c.at) -> Return("ok")
         [] c.op = "fwrite" ->
              /\ phase' = "blocks" /\ block' = 0 /\ rest' = c.data
              /\ UNCHANGED <<at, piece, cmp, cmds, ret>>
         [] c.op # "write" /\ c.op # "fwrite" /\ ~InDevice(c.at) -> Return("eio")
         [] c.op = "wblock" /\ InDevice(c.at) ->
              /\ phase' = "pages" /\ block' = SectorOf(c.at) /\ at' = c.at
              /\ piece' = c.data /\ rest' = <<>> /\ UNCHANGED <<cmp, cmds, ret>>
         [] c.op = "erase" /\ InDevice(c.at) ->
              phase' = "last" /\ cmds' = SectorErase(c.at) /\ UNCHANGED <<loop, ret>>
         [] OTHER ->
              phase' = "last" /\ cmds' = ReadBuffer(c.at, Len(c.data)) /\ UNCHANGED <<loop, ret>>
    /\ UNCHANGED <<chip, got, found, resets>>

(* The caller takes the result.                                            *)
Nobody == [op |-> "none", at |-> 0, data |-> <<>>]
Forget == /\ call' = Nobody /\ flashBefore' = chip.mem /\ got' = <<>> /\ ret' = "none"
          /\ block' = 0 /\ at' = 0 /\ piece' = <<>> /\ rest' = <<>> /\ cmp' = 0
Taken ==
    /\ phase = "idle" /\ call.op # "none" /\ verified # "running" /\ Forget
    /\ UNCHANGED <<chip, cmds, phase, program, verified, found, resets>>

(* FLASH_Verify at the start of a pass, and not running.                   *)
VerifyAt(pass, quick) == [pass |-> pass, quick |-> quick, i |-> 0, sum |-> 0, cnt |-> 0]
NoProgram == VerifyAt("end", FALSE)

(* A program calls the driver or the library.  A single block write keeps  *)
(* to the device, as its description asks for.                             *)
FlashRequest ==
    /\ phase = "idle" /\ found /\ call.op = "none" /\ verified # "running"
    /\ program' = NoProgram /\ verified' = "none"
    /\ \E a \in Starts, n \in FlashLens :
         \/ FlashBegin([op |-> "read", at |-> a, data |-> [i \in 1..n |-> Ones]])
         \/ FlashBegin([op |-> "erase", at |-> a, data |-> <<>>])
         \/ \E d \in [1..n -> FlashByte] :
              \/ FlashBegin([op |-> "write", at |-> a, data |-> d])
              \/ /\ a + n <= Size \/ a = Size
                 /\ \E op \in {"wblock", "fwrite"} : FlashBegin([op |-> op, at |-> a, data |-> d])

(* FLASH_Verify: a pass that erases, one that fills with a running count   *)
(* and one that reads and compares.  Each takes the blocks in order - the  *)
(* quick one only the first and the last - and a block a buffer at a time. *)
Count(k) == {b \in Ones : (k \div 2^b) % 2 = 1}
VerifyPart(p) == IF p.pass = "erase" THEN SectorSize ELSE Least(BufSize, SectorSize - p.sum)
BufferCall(p) ==
    [op |-> p.pass, at |-> p.i * SectorSize + p.sum,
     data |-> IF p.pass = "erase" THEN <<>> ELSE [k \in 1..VerifyPart(p) |-> Count(p.cnt + k - 1)]]

VerifyBlock(p) == IF p.quick /\ p.i < Sectors - 1 THEN Sectors - 1 ELSE p.i + 1
VerifyPass(p) == IF p.pass = "erase" THEN "fwrite" ELSE IF p.pass = "fwrite" THEN "read" ELSE "end"
VerifyAfter(p) ==
    LET n == VerifyPart(p)
    IN IF p.sum + n < SectorSize THEN [p EXCEPT !.sum = @ + n, !.cnt = @ + n]
       ELSE IF VerifyBlock(p) < Sectors
       THEN [p EXCEPT !.i = VerifyBlock(p), !.sum = 0, !.cnt = @ + n]
       ELSE [p EXCEPT !.pass = VerifyPass(p), !.i = 0, !.sum = 0, !.cnt = 0]

FlashVerify ==
    /\ phase = "idle" /\ found /\ call.op = "none" /\ verified # "running"
    /\ \E quick \in BOOLEAN : program' = VerifyAt("erase", quick)
    /\ verified' = "running"
    /\ UNCHANGED <<chip, cmds, got, phase, ret, loop, call, flashBefore, found, resets>>
Passed == /\ call.op # "none" => ret = "ok"
          /\ call.op = "read" => got = call.data
VerifyNext ==
    /\ phase = "idle" /\ verified = "running"
    /\ \/ /\ Passed /\ program.pass # "end" /\ program' = VerifyAfter(program)
          /\ FlashBegin(BufferCall(program)) /\ UNCHANGED verified
       \/ /\ ~Passed \/ program.pass = "end"
          /\ program' = NoProgram /\ verified' = IF Passed THEN "ok" ELSE "failed"
          /\ Forget /\ UNCHANGED <<chip, cmds, phase, found, resets>>
-----------------------------------------------------------------------------
(* alt_epcs_flash_query: RES, then RDID; a busy device answers neither.    *)
QueryRes ==
    /\ phase = "res"
    /\ IF chip.byId \/ chip.wip THEN phase' = "rdid" /\ UNCHANGED found
       ELSE phase' = "idle" /\ found' = TRUE
    /\ UNCHANGED <<chip, cmds, got, ret, loop, client, resets>>
QueryId ==
    /\ phase = "rdid" /\ phase' = "idle" /\ found' = (chip.byId /\ ~chip.wip)
    /\ UNCHANGED <<chip, cmds, got, ret, loop, client, resets>>

(* alt_flash_open_dev finds no device.                                     *)
FlashOpenFails == phase = "idle" /\ ~found /\ UNCHANGED flashVars

FlashReset ==
    /\ phase # "res" /\ resets < MaxResets /\ resets' = resets + 1
    /\ phase' = "res" /\ found' = FALSE /\ cmds' = <<>> /\ ret' = "none"
    /\ program' = NoProgram /\ verified' = "none"
    /\ UNCHANGED <<chip, got, loop, call, flashBefore>>

FlashInit ==
    /\ chip \in {[mem |-> m, wip |-> FALSE, wel |-> FALSE, four |-> FALSE,
                  long |-> k.long, byId |-> k.byId] :
                      m \in FlashMem0, k \in Kinds}
    /\ cmds = <<>> /\ got = <<>> /\ phase = "res" /\ ret = "none" /\ found = FALSE
    /\ call = Nobody /\ flashBefore = chip.mem
    /\ block = 0 /\ at = 0 /\ piece = <<>> /\ rest = <<>> /\ cmp = 0
    /\ program = NoProgram /\ verified = "none" /\ resets = 0

Driver == Command \/ Compare \/ Pages \/ FlashBlocks \/ OneDone \/ VerifyNext \/ QueryRes \/ QueryId
FlashNext == Driver \/ Done \/ Taken \/ FlashRequest \/ FlashVerify \/ FlashOpenFails \/ FlashReset
FlashSpec == FlashInit /\ [][FlashNext]_flashVars
-----------------------------------------------------------------------------
FlashTypeOK ==
    /\ chip \in [mem : [Addr -> FlashByte], wip : BOOLEAN, wel : BOOLEAN, four : BOOLEAN,
                   long : BOOLEAN, byId : BOOLEAN]
    /\ phase \in {"res", "rdid", "idle", "compare", "pages", "blocks", "last"}
    /\ ret \in {"none", "ok", "eio"} /\ at \in 0..Size /\ block \in 0..Size /\ cmp \in 0..SectorSize
    /\ \A d \in {piece, rest, got} : \A i \in DOMAIN d : d[i] \in FlashByte

(* A device that was found is never sent a command it would ignore or take *)
(* for another: not while it is busy, not without the latch it needs, not  *)
(* with the wrong number of address bytes - also after a reset.            *)
CommandsTaken ==
    found /\ cmds # <<>> =>
      LET c == Head(cmds).cmd IN
        /\ c # "rdsr" => ~chip.wip
        /\ c \in {"en4b", "dis4b", "se", "pp"} => chip.wel
        /\ c \in {"se", "pp", "read"} => chip.four = chip.long

(* What a call does to the contents, in the words of its description.      *)
Area == {call.at + i - 1 : i \in 1..Len(call.data)}
Programmed == [a \in Addr |-> flashBefore[a] \intersect
                               IF a \in Area THEN call.data[a - call.at + 1] ELSE Ones]

(* A write that succeeds has put all its data there, and in a sector it    *)
(* had to erase nothing else is left; a sector that held the data already  *)
(* keeps all its contents.                                                 *)
WriteLands ==
    phase = "idle" /\ call.op = "write" /\ ret = "ok" /\ call.at + Len(call.data) <= Size =>
      \A s \in {SectorOf(a) : a \in Area} :
        LET held == \A a \in Area : SectorOf(a) = s => flashBefore[a] = call.data[a - call.at + 1]
        IN \A a \in s..(s + SectorSize - 1) :
             chip.mem[a] = IF held THEN flashBefore[a]
                           ELSE IF a \in Area THEN call.data[a - call.at + 1] ELSE Ones

(* No call touches a sector outside its range, not even one that a reset   *)
(* cut short.                                                              *)
OthersKept ==
    call.op # "none" =>
      \A a \in Addr : SectorOf(a) \notin {SectorOf(x) : x \in Area \union {call.at}} =>
        chip.mem[a] = flashBefore[a]

(* write_block and Flash_Write program exactly their data, read returns    *)
(* the contents, from the start again past the end.                        *)
CallTrue ==
    phase = "idle" /\ ret = "ok" =>
      /\ call.op \in {"wblock", "fwrite"} => chip.mem = Programmed
      /\ call.op = "read" =>
           chip.mem = flashBefore /\ got = BytesAt(flashBefore, call.at, Len(call.data))
      /\ call.op = "erase" => \A a \in Addr : SectorOf(a) = SectorOf(call.at) => chip.mem[a] = Ones

(* Between calls the device is back in the three byte mode that the other  *)
(* users of it expect.                                                     *)
ThreeByteAtRest == phase = "idle" /\ resets = 0 => ~chip.four

(* FLASH_Verify passes on a device that works.                             *)
VerifyPasses == verified # "failed"

(* Driver and device agree on the mode the device is in.                   *)
ModesKept == CommandsTaken /\ ThreeByteAtRest

(* The contents after each call are those its description gives, in its    *)
(* range and outside it.                                                   *)
ContentsTrue == WriteLands /\ CallTrue /\ OthersKept /\ VerifyPasses
=============================================================================
