---------------------------- MODULE MC_PtmchTrgInv ----------------------------
(* TLC instance for the inductive invariant: three-bit instructions, two   *)
(* command classes of one opcode bit would leave no opcode without a       *)
(* class, so two bits of opcode and one of address; resets at any time.    *)
EXTENDS PtmchTrgInv, TLC

CONSTANTS prgexct, rdstat

Bits2(h, l) == 0 :> l @@ 1 :> h

MC_Channels == {prgexct, rdstat}
MC_CmdOf == prgexct :> {Bits2(0, 1)} @@ rdstat :> {Bits2(1, 0)}
MC_NoWrites == {}
=============================================================================
