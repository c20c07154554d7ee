------------------------------ MODULE PtmchBits ------------------------------
(***************************************************************************)
(* Vocabulary shared by the modules of the detector: bit vectors, the      *)
(* synchronisers' view of them and the order the address windows use.      *)
(*                                                                         *)
(* A register of n bits is a function from 0..n-1 to Bit, bit 0 being the  *)
(* least significant one, as in the Verilog range [n-1:0].                 *)
(***************************************************************************)
EXTENDS Integers, Sequences

Bit == {0, 1}

Vector(n) == [0..(n - 1) -> Bit]
AllZero(n) == [i \in 0..(n - 1) |-> 0]
AllOne(n)  == [i \in 0..(n - 1) |-> 1]

(* {w[n-2:0], b}: one more bit enters at the least significant end.        *)
ShiftIn(w, b) == [i \in DOMAIN w |-> IF i = 0 THEN b ELSE w[i - 1]]

(* The n-bit register after the bits of the sequence s were shifted into   *)
(* it from all zeros, the first bit of s being the most significant.       *)
Received(s, n) ==
    [i \in 0..(n - 1) |-> IF i < Len(s) THEN s[Len(s) - i] ELSE 0]

(* Bits lo..lo+n-1 of w, that is w[lo+n-1:lo].                             *)
Slice(w, lo, n) == [i \in 0..(n - 1) |-> w[i + lo]]

(* Unsigned a >= b: equal, or the highest bit that differs is set in a.    *)
Geq(a, b) ==
    \/ a = b
    \/ \E i \in DOMAIN a : /\ a[i] > b[i]
                           /\ \A j \in DOMAIN a : j > i => a[j] = b[j]

(* What a flip-flop bank may capture when its clock edge coincides with    *)
(* the edge that changes its input from old to new: every bit falls to     *)
(* either side on its own.                                                 *)
Torn(old, new) ==
    {w \in [DOMAIN old -> Bit] : \A i \in DOMAIN old : w[i] \in {old[i], new[i]}}

(* Mutants of DiffDetect: a third synchroniser flip-flop without the       *)
(* comparison, and the comparison the wrong way round.                     *)
DiffDetect_plain(d2, d3, sync) == d2
DiffDetect_inverted(d2, d3, sync) == IF d2 # d3 THEN d3 ELSE sync

(* A difference-detect stage: the registered value changes only when two   *)
(* successive samples agree.                                               *)
DiffDetect(d2, d3, sync) == IF d2 = d3 THEN d3 ELSE sync

(* An age in clock edges, capped at top.                                   *)
Older(age, top) == IF age < top THEN age + 1 ELSE age

=============================================================================
