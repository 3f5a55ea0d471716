-------------------------------- MODULE Ring --------------------------------
(***************************************************************************)
(* The index arithmetic of Grbl's rings (serial.c): `head' is where the    *)
(* next element goes, `tail' the oldest one, head = tail means empty, and  *)
(* one slot always stays free.                                             *)
(***************************************************************************)
EXTENDS Integers, Sequences

(* The index after i.                                                      *)
NextIndexLate(i, size) == IF i = size THEN 0 ELSE i + 1      \* mutant
NextIndex(i, size) == IF i + 1 = size THEN 0 ELSE i + 1

(* serial_get_rx_buffer_count().                                           *)
Count(head, tail, size) ==
  IF head >= tail THEN head - tail ELSE size - (tail - head)

(* The slot of the k-th oldest element, and the elements, oldest first.    *)
Slot(tail, k, size) ==
  IF tail + k - 1 < size THEN tail + k - 1 ELSE tail + k - 1 - size

Contents(buf, head, tail, size) ==
  [k \in 1..Count(head, tail, size) |-> buf[Slot(tail, k, size)]]
=============================================================================
