----------------------------- MODULE MC_PtmchCnt -----------------------------
(* The counters for TLC: three of the five classes, two-bit counters and   *)
(* one pulse more than they can count.                                     *)
EXTENDS PtmchCnt

MC_Channels == {"prgexct", "rdstat", "blkers"}
=============================================================================
