-------------------------- MODULE SerialProperties --------------------------
(* What serial.c promises.                                                 *)
EXTENDS Serial

rxQueue == Contents(rxBuf, rxHead, rxTail, RxSize)
txQueue == Contents(txBuf, txHead, txTail, TxSize)

(* Both rings are byte queues that lose, duplicate and reorder nothing,    *)
(* whatever step of the main program an interrupt comes at.                *)
Rx == INSTANCE ByteFifo WITH Capacity <- RxSize - 1, queue <- rxQueue, last <- got
Tx == INSTANCE ByteFifo WITH Capacity <- TxSize - 1, queue <- txQueue, last <- wire
RxIsFifo == Rx!FlushSpec
TxIsFifo == Tx!Spec

(* Every variable stays within its type, and every index within its ring.  *)
TypeOK ==
  /\ at \in Labels
  /\ rxBuf \in [0..(RxSize - 1) -> Bytes]
  /\ rxHead \in 0..(RxSize - 1) /\ rxTail \in 0..(RxSize - 1)
  /\ txBuf \in [0..(TxSize - 1) -> Bytes]
  /\ txHead \in 0..(TxSize - 1) /\ txTail \in 0..(TxSize - 1)
  /\ got \in Bytes /\ wire \in Bytes /\ data \in Bytes
  /\ udrie \in BOOLEAN /\ reset \in BOOLEAN
  /\ sentNow \in 0..1
  /\ tmp \in 0..(RxSize - 1)

(* The transmit interrupt is enabled exactly while there is something to   *)
(* send: enabled on an empty ring it would send the whole ring again, and  *)
(* disabled on a full one it would leave serial_write() waiting for ever.  *)
UdrieIffWork ==
  IF at = "enable"
    THEN txHead # txTail
         /\ (udrie <=> Count(txHead, txTail, TxSize) + sentNow > 1)
    ELSE udrie <=> txHead # txTail

(* A write never waits for ever, with or without a reset.                  *)
WriteReturns == (at = "wait") ~> (at # "wait")
=============================================================================
