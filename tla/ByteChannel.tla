------------------------------ MODULE ByteChannel ------------------------------
(***************************************************************************)
(* What one direction of a character device promises: the bytes leave in   *)
(* the order they were put in, none is lost and none appears twice.  The   *)
(* k-th byte of the stream is k modulo Numbers, so that a lost, repeated   *)
(* or overtaken byte shows as a wrong number.                              *)
(***************************************************************************)
EXTENDS Integers, Sequences

CONSTANTS Numbers,    \* bytes are numbered modulo this, greater than Capacity
          Capacity    \* the bytes the channel can hold

VARIABLES sent,    \* the number of the next byte to be put in
          queue,   \* the bytes under way
          taken    \* the bytes the last Take handed over

vars == <<sent, queue, taken>>

Init == sent = 0 /\ queue = <<>> /\ taken = <<>>

Put(n) ==
    /\ Len(queue) + n <= Capacity
    /\ queue' = queue \o [i \in 1..n |-> (sent + i - 1) % Numbers]
    /\ sent' = (sent + n) % Numbers
    /\ UNCHANGED taken

Take(n) ==
    /\ n <= Len(queue)
    /\ taken' = SubSeq(queue, 1, n)
    /\ queue' = SubSeq(queue, n + 1, Len(queue))
    /\ UNCHANGED sent

Next == \E n \in 1..Capacity : Put(n) \/ Take(n)

Spec == Init /\ [][Next]_vars
=============================================================================
