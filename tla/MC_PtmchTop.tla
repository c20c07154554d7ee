----------------------------- MODULE MC_PtmchTop -----------------------------
(* A TLC instance of the whole detector: one class, instructions of one    *)
(* opcode bit and two page bits.                                           *)
EXTENDS PtmchTop, TLC

MC_Channels == {"prgexct"}
MC_CmdOf == "prgexct" :> {0 :> 1}
=============================================================================
