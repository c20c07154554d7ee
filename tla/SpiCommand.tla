------------------------------- MODULE SpiCommand -------------------------------
(***************************************************************************)
(* alt_avalon_spi_command, the polling driver of the SPI core through      *)
(* which every command to the EPCS flash goes, and the core: a holding     *)
(* register, a shift register and one register for what was received.      *)
(* The core shifts at its own pace while the driver polls.  A slave        *)
(* answers the n-th byte of a transaction with n.  The toggle flag, which  *)
(* nobody passes, is left out.                                             *)
(***************************************************************************)
EXTENDS Integers, Sequences, SequencesExt

CONSTANTS
    Bytes,      \* bytes of a command
    Writes,     \* bound: lengths of the written part
    Reads,      \* bound: lengths of the read part
    MaxMerged   \* bound: bytes on the wire after a call that merges

ASSUME SpiAssumption ==
    /\ Bytes \subseteq Nat /\ Writes \subseteq Nat /\ Reads \subseteq Nat /\ MaxMerged \in Nat

VARIABLES
    pc,                      \* where the driver is
    call,                    \* its arguments: [write, read, merge]
    spiSent, zeros, ignore,     \* write_data, write_zeros, read_ignore
    credits, status, got,    \* bytes it may send, status word, read_data
    tx, shift, rx, roe,      \* core: the three registers, receive overrun
    sso,                     \* core: chip select is forced
    wire,                    \* slave: bytes of the transaction
    expected                 \* history: bytes the callers asked for in it

driver == <<pc, call, spiSent, zeros, ignore, credits, status, got>>
spiCore == <<tx, shift, rx, roe, sso, wire>>
spiVars == <<driver, spiCore, expected>>

Trdy == tx = <<>>
Rrdy == rx # <<>>
Tmt == tx = <<>> /\ shift = <<>>
Stale == 0    \* what an interrupted transaction left in the receive register
Zero == 0
Zeros(n) == [i \in 1..n |-> Zero]

SpiInit ==
    /\ pc = "idle" /\ call = [write |-> <<>>, read |-> 0, merge |-> FALSE]
    /\ spiSent = 0 /\ zeros = 0 /\ ignore = 0 /\ credits = 0 /\ got = <<>>
    /\ status = [trdy |-> TRUE, rrdy |-> FALSE]
    /\ tx = <<>> /\ shift = <<>> /\ rx \in {<<>>, <<Stale>>} /\ roe = FALSE /\ sso = FALSE
    /\ wire = <<>> /\ expected = <<>>
-----------------------------------------------------------------------------
(* How many bytes may be on their way.  The first is a mutant.             *)
Credits_two == 2
Credits == 1

(* How many zeros are sent for the bytes to read.  The first two are       *)
(* mutants: one more, one less.                                            *)
ZerosFor_more(r) == r + 1
ZerosFor_less(r) == IF r > 0 THEN r - 1 ELSE 0
ZerosFor(r) == r

(* A command: chip select, and what is left in RXDATA is read and dropped. *)
(* The first of the two is a mutant: it stays.                             *)
Discarded_not == rx
Discarded == <<>>
Command ==
    /\ pc = "idle"
    /\ \E n \in Writes, r \in Reads, m \in BOOLEAN : \E w \in [1..n -> Bytes] :
         /\ n + r > 0 /\ (m => Len(wire) + n + r <= MaxMerged)
         /\ call' = [write |-> w, read |-> r, merge |-> m]
         /\ zeros' = ZerosFor(r) /\ ignore' = n /\ expected' = expected \o w \o Zeros(r)
    /\ spiSent' = 0 /\ credits' = Credits /\ got' = <<>> /\ sso' = TRUE
    /\ rx' = Discarded /\ pc' = "poll"
    /\ UNCHANGED <<status, tx, shift, roe, wire>>

(* The status word, until there is something to do.                        *)
SpiPoll ==
    /\ pc = "poll" /\ status' = [trdy |-> Trdy, rrdy |-> Rrdy]
    /\ pc' = IF (~Trdy \/ credits = 0) /\ ~Rrdy THEN "poll" ELSE "send"
    /\ UNCHANGED <<call, spiSent, zeros, ignore, credits, got, spiCore, expected>>

(* One byte, or the end of sending, as the status word just read allows.   *)
Send ==
    /\ pc = "send" /\ pc' = "receive"
    /\ IF ~status.trdy \/ credits <= 0 THEN UNCHANGED <<spiSent, zeros, credits, tx>>
       ELSE LET more == spiSent < Len(call.write) IN
            /\ credits' = IF more \/ zeros > 0 THEN credits - 1 ELSE -1024
            /\ tx' = IF more THEN <<call.write[spiSent + 1]>>
                     ELSE IF zeros > 0 THEN <<Zero>> ELSE tx
            /\ spiSent' = IF more THEN spiSent + 1 ELSE spiSent
            /\ zeros' = IF ~more /\ zeros > 0 THEN zeros - 1 ELSE zeros
    /\ UNCHANGED <<call, ignore, status, got, shift, rx, roe, sso, wire, expected>>

Receive ==
    /\ pc = "receive"
    /\ IF ~status.rrdy THEN pc' = "poll" /\ UNCHANGED <<ignore, credits, got, rx>>
       ELSE /\ rx' = <<>> /\ credits' = credits + 1
            /\ IF ignore > 0 THEN ignore' = ignore - 1 /\ UNCHANGED got
               ELSE got' = got \o rx /\ UNCHANGED ignore
            /\ pc' = IF ignore' = 0 /\ Len(got') = call.read THEN "finish" ELSE "poll"
    /\ UNCHANGED <<call, spiSent, zeros, status, tx, shift, roe, sso, wire, expected>>

(* Chip select goes, once the core has finished and unless the caller goes *)
(* on.                                                                     *)
Keeps == call.merge
Finish ==
    /\ pc = "finish" /\ Tmt /\ pc' = "idle"
    /\ sso' = Keeps
    /\ wire' = IF Keeps THEN wire ELSE <<>>
    /\ expected' = IF call.merge THEN expected ELSE <<>>
    /\ UNCHANGED <<call, spiSent, zeros, ignore, credits, status, got, tx, shift, rx, roe>>
-----------------------------------------------------------------------------
(* The core.  A byte received over one that was not read is an overrun.    *)
Load == /\ tx # <<>> /\ shift = <<>> /\ shift' = tx /\ tx' = <<>>
        /\ UNCHANGED <<driver, rx, roe, sso, wire, expected>>
Shifted == /\ shift # <<>> /\ shift' = <<>> /\ wire' = wire \o shift
           /\ rx' = <<Len(wire')>> /\ roe' = (roe \/ rx # <<>>)
           /\ UNCHANGED <<driver, tx, sso, expected>>

SpiDriver == Command \/ SpiPoll \/ Send \/ Receive \/ Finish
SpiNext == SpiDriver \/ Load \/ Shifted
SpiSpec == SpiInit /\ [][SpiNext]_spiVars

(* The driver runs on, the core shifts; nobody has to call.                *)
SpiFairSpec == SpiSpec /\ WF_spiVars(SpiPoll \/ Send \/ Receive \/ Finish) /\ WF_spiVars(Load \/ Shifted)
-----------------------------------------------------------------------------
SpiTypeOK ==
    /\ pc \in {"idle", "poll", "send", "receive", "finish"} /\ roe \in BOOLEAN /\ sso \in BOOLEAN
    /\ spiSent \in 0..Len(call.write) /\ zeros \in 0..call.read /\ ignore \in 0..Len(call.write)
    /\ Len(got) <= call.read /\ credits \in -1024..Credits
    /\ \A r \in {tx, shift, rx} : Len(r) <= 1

(* However slowly the driver polls, the core never has to drop a byte it   *)
(* received: what the credits are for.                                     *)
NoOverrun == ~roe

(* When a command is done the slave has got all its bytes and no other, in *)
(* one transaction together with the commands it was merged with, and the  *)
(* bytes returned are the slave's answers to the zeros.                    *)
Delivered ==
    pc = "finish" => /\ wire = expected /\ Tmt
                     /\ got = [i \in 1..call.read |-> Len(wire) - call.read + i]

(* Every command returns: the driver and the core never wait for each      *)
(* other.                                                                  *)
CommandReturns == pc = "poll" ~> pc = "idle"

(* A command on the SPI core: nothing overrun, everything delivered.       *)
CommandTrue == NoOverrun /\ Delivered
=============================================================================
