----------------------------- MODULE MC_PtmchReg -----------------------------
(* The CLK100M half for TLC, with three of the five classes and two-bit    *)
(* counters.  Four behaviours side by side, named by part, so that the    *)
(* states are the sum and not the product of theirs:                       *)
(*   count  ptmch_cnt alone, up to one pulse more than it can count, with  *)
(*          resets; the page path rests;                                   *)
(*   log    two classes between which the host selects, and a log of two   *)
(*          entries behind an index that counts modulo 3: the third        *)
(*          command of prgexct wraps to index 0, which is not logged, and  *)
(*          a new selection reuses the entries of the other class;         *)
(*   port   one class, and a host that reads the count and the entries,    *)
(*          with resets;                                                   *)
(*   write  one command, and a host that writes a window.                  *)
EXTENDS PtmchReg, TLC

VARIABLE part  \* what this behaviour is about

MC_Channels == {"prgexct", "rdstat", "blkers"}
MC_Pages == {0 :> 1 @@ 1 :> 0, 0 :> 1 @@ 1 :> 1}
Op(k, r, d) == [kind |-> k, reg |-> r, data |-> d]
MC_Selects == {Op("write", <<"sel">>, 0), Op("write", <<"sel">>, 1)}
MC_Reads == {Op("read", <<"count", "prgexct">>, 0)}
                \union {Op("read", <<"paddr", k>>, 0) : k \in LogIndex}
MC_Window == {Op("write", <<"window", "prgexct", "low">>, 0 :> 1 @@ 1 :> 1)}
MC_HostOps == MC_Selects \union MC_Reads \union MC_Window

Init == RegInit /\ part \in {"count", "log", "port", "write"}

(* RegNext for the transfers of a part, with at most pulses[c] pulses of   *)
(* class c; a reset only where the part has them.                          *)
Bounded(pulses, ops) ==
    \/ RegTick100 \/ ChangePage \/ ChangePageAtTick \/ Fall \/ RegResetRelease
    \/ \E c \in DOMAIN pulses : seen[c] < pulses[c] /\ Raise(c)
    \/ \E op \in ops : Start(op)

Next ==
    \/ /\ part = "count" /\ CntNext
       /\ UNCHANGED <<part, PAGE_ADDR, pageRegs, portRegs, bus, regEnv, countRead>>
    \/ /\ part = "log" /\ Bounded([prgexct |-> 3, rdstat |-> 2], MC_Selects)
       /\ UNCHANGED part
    \/ /\ part = "port" /\ (RegResetAssert \/ Bounded([prgexct |-> 2], MC_Reads))
       /\ UNCHANGED part
    \/ /\ part = "write" /\ Bounded([prgexct |-> 1], MC_Window)
       /\ UNCHANGED part

Spec == Init /\ [][Next]_<<part, regVars>>
=============================================================================
