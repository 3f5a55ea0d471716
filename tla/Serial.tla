------------------------------- MODULE Serial -------------------------------
(***************************************************************************)
(* serial.c: the receive ring, filled by the RX interrupt and emptied by   *)
(* the main program, and the transmit ring, filled by the main program and *)
(* emptied by the data-register-empty (UDRE) interrupt.  The main program  *)
(* is one thread, at label `at'; an interrupt runs between its labels.     *)
(* The software flow control (ENABLE_XONXOFF) is not compiled by default   *)
(* and is left out.                                                        *)
(***************************************************************************)
EXTENDS Ring

CONSTANTS
  Bytes,        \* the bytes that are not realtime commands
  RxSize,       \* RX_BUFFER_SIZE
  TxSize,       \* TX_BUFFER_SIZE
  Burst         \* UDRE interrupts between the two last stores of a write

ASSUME BytesAssumption == Bytes # {}
ASSUME RxSizeAssumption == RxSize \in Nat /\ RxSize > 1
ASSUME TxSizeAssumption == TxSize \in Nat /\ TxSize > 1
(* A byte takes 87 us on the line; the two stores are a few cycles apart.  *)
ASSUME BurstAssumption == Burst \in 0..1

VARIABLES
  at,                     \* where the main program is
  rxBuf, rxHead, rxTail,  \* the receive ring
  got,                    \* the byte serial_read() returned last
  txBuf, txHead, txTail,  \* the transmit ring
  wire,                   \* UDR0: the byte sent last
  udrie,                  \* the UDRE interrupt is enabled
  sentNow,                \* UDRE interrupts since txHead was advanced
  tmp, data,              \* local variables of the running function
  reset                   \* EXEC_RESET is raised

rx == <<rxBuf, rxHead, rxTail>>
tx == <<txBuf, txHead, txTail>>
vars == <<at, rx, got, tx, wire, udrie, sentNow, tmp, data, reset>>

Labels == {"idle", "fetch", "advance", "wait", "store", "publish", "enable",
           "flush"}

Init ==
  /\ at = "idle"
  /\ \E zero \in Bytes :
       /\ rxBuf = [i \in 0..(RxSize - 1) |-> zero]
       /\ txBuf = [i \in 0..(TxSize - 1) |-> zero]
       /\ got = zero /\ wire = zero /\ data = zero
  /\ rxHead = 0 /\ rxTail = 0 /\ txHead = 0 /\ txTail = 0
  /\ udrie = FALSE /\ sentNow = 0 /\ tmp = 0
  /\ reset = FALSE

-----------------------------------------------------------------------------
(* The RX interrupt.                                                       *)

(* Mutant of RxByte: a byte that finds the ring full overwrites.           *)
RxByteOverrun ==
  /\ \E b \in Bytes : rxBuf' = [rxBuf EXCEPT ![rxHead] = b]
  /\ rxHead' = NextIndex(rxHead, RxSize)
  /\ UNCHANGED <<at, rxTail, got, tx, wire, udrie, sentNow, tmp, data, reset>>

(* A byte for the main program is stored, or dropped if the ring is full.  *)
RxByte ==
  /\ NextIndex(rxHead, RxSize) # rxTail
  /\ \E b \in Bytes : rxBuf' = [rxBuf EXCEPT ![rxHead] = b]
  /\ rxHead' = NextIndex(rxHead, RxSize)
  /\ UNCHANGED <<at, rxTail, got, tx, wire, udrie, sentNow, tmp, data, reset>>

(* A realtime command never enters the ring; the one that matters here is  *)
(* the reset, which serial_write() looks at.                               *)
RxReset ==
  /\ reset' = TRUE
  /\ UNCHANGED <<at, rx, got, tx, wire, udrie, sentNow, tmp, data>>

-----------------------------------------------------------------------------
(* serial_read() of a ring that is not empty; otherwise it returns         *)
(* SERIAL_NO_DATA and changes nothing.                                     *)

Read ==
  /\ at = "idle" /\ rxHead # rxTail
  /\ at' = "fetch" /\ tmp' = rxTail
  /\ UNCHANGED <<rx, got, tx, wire, udrie, sentNow, data, reset>>

ReadFetch ==
  /\ at = "fetch"
  /\ at' = "advance" /\ data' = rxBuf[tmp]
  /\ UNCHANGED <<rx, got, tx, wire, udrie, sentNow, tmp, reset>>

ReadAdvance ==
  /\ at = "advance"
  /\ at' = "idle" /\ rxTail' = NextIndex(tmp, RxSize) /\ got' = data
  /\ UNCHANGED <<rxBuf, rxHead, tx, wire, udrie, sentNow, tmp, data, reset>>

(* serial_reset_read_buffer(), in main()'s re-initialization; the pending  *)
(* reset is cleared with it.                                               *)
FlushRead ==
  /\ at = "idle" /\ reset
  /\ at' = "flush" /\ tmp' = rxHead
  /\ UNCHANGED <<rx, got, tx, wire, udrie, sentNow, data, reset>>

FlushStore ==
  /\ at = "flush"
  /\ at' = "idle" /\ rxTail' = tmp /\ reset' = FALSE
  /\ UNCHANGED <<rxBuf, rxHead, got, tx, wire, udrie, sentNow, tmp, data>>

-----------------------------------------------------------------------------
(* serial_write() and the UDRE interrupt.                                  *)

Write ==
  /\ at = "idle"
  /\ at' = "wait" /\ data' \in Bytes
  /\ UNCHANGED <<rx, got, tx, wire, udrie, sentNow, tmp, reset>>

Full == NextIndex(txHead, TxSize) = txTail

(* Wait for room; a reset abandons the byte.                               *)
WriteWait ==
  /\ at = "wait"
  /\ \/ ~Full /\ at' = "store"
     \/ Full /\ reset /\ at' = "idle"
  /\ UNCHANGED <<rx, got, tx, wire, udrie, sentNow, tmp, data, reset>>

WriteStore ==
  /\ at = "store"
  /\ at' = "publish" /\ txBuf' = [txBuf EXCEPT ![txHead] = data]
  /\ UNCHANGED <<rx, got, txHead, txTail, wire, udrie, sentNow, tmp, data,
                 reset>>

(* Mutant of WritePublish: the interrupt is not enabled after it.          *)
WritePublishLast ==
  /\ at = "publish"
  /\ at' = "idle" /\ txHead' = NextIndex(txHead, TxSize) /\ sentNow' = 0
  /\ UNCHANGED <<rx, got, txBuf, txTail, wire, udrie, tmp, data, reset>>

WritePublish ==
  /\ at = "publish"
  /\ at' = "enable" /\ txHead' = NextIndex(txHead, TxSize) /\ sentNow' = 0
  /\ UNCHANGED <<rx, got, txBuf, txTail, wire, udrie, tmp, data, reset>>

WriteEnable ==
  /\ at = "enable"
  /\ at' = "idle" /\ udrie' = TRUE
  /\ UNCHANGED <<rx, got, tx, wire, sentNow, tmp, data, reset>>

(* Mutant of Udre: the interrupt is left enabled on an empty ring.         *)
UdreNeverOff ==
  /\ udrie
  /\ wire' = txBuf[txTail]
  /\ txTail' = NextIndex(txTail, TxSize)
  /\ UNCHANGED <<at, rx, got, txBuf, txHead, udrie, sentNow, tmp, data, reset>>

(* Send the oldest byte, and turn the interrupt off with the last one.     *)
Udre ==
  /\ udrie
  /\ at = "enable" => sentNow < Burst
  /\ wire' = txBuf[txTail]
  /\ txTail' = NextIndex(txTail, TxSize)
  /\ udrie' = (txTail' # txHead)
  /\ sentNow' = IF at = "enable" THEN sentNow + 1 ELSE sentNow
  /\ UNCHANGED <<at, rx, got, txBuf, txHead, tmp, data, reset>>

-----------------------------------------------------------------------------
Main == \/ Read \/ ReadFetch \/ ReadAdvance \/ FlushRead \/ FlushStore
        \/ Write \/ WriteWait \/ WriteStore \/ WritePublish \/ WriteEnable

Next == Main \/ RxByte \/ RxReset \/ Udre

Spec == Init /\ [][Next]_vars

(* A started function runs on, and an enabled transmit interrupt fires     *)
(* when the data register is empty.  The main program need not call any    *)
(* function, and nothing need be received.                                 *)
FairSpec == Spec /\ WF_vars(Main /\ at # "idle") /\ WF_vars(Udre)
=============================================================================
