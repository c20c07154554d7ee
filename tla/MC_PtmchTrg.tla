----------------------------- MODULE MC_PtmchTrg -----------------------------
(* TLC instances of the front end: four-bit instructions (two bits of      *)
(* opcode, two of address) and two command classes, one of them with two   *)
(* opcodes, so that one opcode (zero) belongs to no class.                 *)
EXTENDS PtmchTrgObserved, TLC

CONSTANTS prgexct, rdstat

Bits2(h, l) == 0 :> l @@ 1 :> h

MC_Channels == {prgexct, rdstat}
MC_CmdOf == prgexct :> {Bits2(0, 1)} @@ rdstat :> {Bits2(1, 0), Bits2(1, 1)}

MC_Setup == {[ch |-> rdstat, side |-> "low",  addr |-> Bits2(0, 1)],
             [ch |-> rdstat, side |-> "high", addr |-> Bits2(1, 0)]}
=============================================================================
