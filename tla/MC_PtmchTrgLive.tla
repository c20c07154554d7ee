--------------------------- MODULE MC_PtmchTrgLive ---------------------------
(* TLC instance of the front end for a host that rewrites a window while   *)
(* frames run: the smallest with two-bit addresses and one command class.  *)
(* 01 and 10 differ in both bits, so that a torn 00 or 11 would be an      *)
(* address that was never written.                                         *)
EXTENDS PtmchTrg, TLC

CONSTANT prgexct

Bits2(h, l) == 0 :> l @@ 1 :> h

MC_Channels == {prgexct}
MC_CmdOf == prgexct :> {0 :> 1}
MC_Writes == {[ch |-> prgexct, side |-> "low", addr |-> Bits2(0, 1)],
              [ch |-> prgexct, side |-> "low", addr |-> Bits2(1, 0)]}
=============================================================================
