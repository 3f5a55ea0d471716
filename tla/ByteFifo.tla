------------------------------ MODULE ByteFifo ------------------------------
(***************************************************************************)
(* What a serial buffer promises: bytes come out once, in the order they   *)
(* went in, and at most Capacity of them wait.  A flush forgets the oldest *)
(* bytes.                                                                  *)
(***************************************************************************)
EXTENDS Naturals, Sequences

CONSTANTS Bytes, Capacity

VARIABLES
  queue, \* the bytes waiting
  last   \* the byte that came out last

Init == queue = << >> /\ last \in Bytes

Put == /\ Len(queue) < Capacity
       /\ \E b \in Bytes : queue' = Append(queue, b)
       /\ UNCHANGED last

Get == /\ queue # << >>
       /\ last' = Head(queue)
       /\ queue' = Tail(queue)

Flush == /\ \E n \in 1..Len(queue) : queue' = SubSeq(queue, n + 1, Len(queue))
         /\ UNCHANGED last

(* A buffer that is never flushed, and one that may be.                    *)
Spec == Init /\ [][Put \/ Get]_<<queue, last>>
FlushSpec == Init /\ [][Put \/ Get \/ Flush]_<<queue, last>>
=============================================================================
