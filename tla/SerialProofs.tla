---------------------------- MODULE SerialProofs ----------------------------
(***************************************************************************)
(* Machine-checked proofs that the two rings of serial.c are byte queues,  *)
(* for every ring size and every set of bytes, and that the transmit       *)
(* interrupt is enabled exactly while there is something to send.          *)
(***************************************************************************)
EXTENDS SerialProperties, TLAPS

-----------------------------------------------------------------------------
(* The ring's index arithmetic.                                            *)

(* Advancing an index keeps it in the ring.                                *)
LEMMA NextIndexRange ==
  ASSUME NEW size \in Nat, size > 1, NEW i \in 0..(size - 1)
  PROVE  NextIndex(i, size) \in 0..(size - 1)
  BY DEF NextIndex

(* A ring with room has fewer than size - 1 elements; one more element     *)
(* adds one to the count, at the slot the head pointed to.                 *)
LEMMA CountPut ==
  ASSUME NEW size \in Nat, size > 1,
         NEW head \in 0..(size - 1), NEW tail \in 0..(size - 1),
         NextIndex(head, size) # tail
  PROVE  /\ Count(head, tail, size) \in 0..(size - 2)
         /\ Count(NextIndex(head, size), tail, size) = Count(head, tail, size) + 1
         /\ Slot(tail, Count(head, tail, size) + 1, size) = head
  BY DEF NextIndex, Count, Slot

(* The slots of the waiting elements are in the ring, and are not the free *)
(* slot the head points to.                                                *)
LEMMA SlotRange ==
  ASSUME NEW size \in Nat, size > 1,
         NEW head \in 0..(size - 1), NEW tail \in 0..(size - 1),
         NEW k \in 1..Count(head, tail, size)
  PROVE  Slot(tail, k, size) \in 0..(size - 1) /\ Slot(tail, k, size) # head
  BY DEF Count, Slot

(* A ring that is not empty has one element less once the tail advances,   *)
(* and its k-th slot then is what its (k + 1)-th was.                      *)
LEMMA CountGet ==
  ASSUME NEW size \in Nat, size > 1,
         NEW head \in 0..(size - 1), NEW tail \in 0..(size - 1), head # tail
  PROVE  /\ Count(head, tail, size) \in 1..(size - 1)
         /\ Count(head, NextIndex(tail, size), size) = Count(head, tail, size) - 1
         /\ Slot(tail, 1, size) = tail
         /\ \A k \in 1..(Count(head, tail, size) - 1) :
              Slot(NextIndex(tail, size), k, size) = Slot(tail, k + 1, size)
  BY DEF NextIndex, Count, Slot

(* A ring is empty when head and tail meet, and only then.                 *)
LEMMA CountZero ==
  ASSUME NEW size \in Nat, size > 1,
         NEW head \in 0..(size - 1), NEW tail \in 0..(size - 1)
  PROVE  Count(head, tail, size) > 0 <=> head # tail
  BY DEF Count

(* Append() as a function.                                                 *)
LEMMA AppendElements ==
  ASSUME NEW B, NEW q \in Seq(B), NEW b
  PROVE  Append(q, b) = [k \in 1..(Len(q) + 1) |-> IF k = Len(q) + 1 THEN b ELSE q[k]]
<1> DEFINE r == Append(q, b)
<1>1. q \in Seq(B \cup {b})
  OBVIOUS
<1>2. r \in Seq(B \cup {b}) /\ Len(r) = Len(q) + 1
  BY <1>1
<1>3. \A k \in 1..(Len(q) + 1) : r[k] = IF k = Len(q) + 1 THEN b ELSE q[k]
  BY <1>1
<1>4. r = [k \in 1..Len(r) |-> r[k]]
  <2> HIDE DEF r
  <2> QED
    BY <1>2
<1> HIDE DEF r
<1>5. r = [k \in 1..(Len(q) + 1) |-> IF k = Len(q) + 1 THEN b ELSE q[k]]
  BY <1>2, <1>3, <1>4
<1> QED
  BY <1>5 DEF r

(* Storing a byte in the free slot and advancing the head appends it.      *)
LEMMA ContentsPut ==
  ASSUME NEW size \in Nat, size > 1, NEW buf,
         NEW head \in 0..(size - 1), NEW tail \in 0..(size - 1),
         NextIndex(head, size) # tail,
         NEW new, \A i \in 0..(size - 1) : i # head => new[i] = buf[i]
  PROVE  /\ Len(Contents(buf, head, tail, size)) < size - 1
         /\ Contents(new, NextIndex(head, size), tail, size)
              = Append(Contents(buf, head, tail, size), new[head])
<1> DEFINE B == {buf[i] : i \in 0..(size - 1)}
           b == new[head]
           c == Count(head, tail, size)
           q == Contents(buf, head, tail, size)
           r == Contents(new, NextIndex(head, size), tail, size)
<1>1. c \in 0..(size - 2) /\ Count(NextIndex(head, size), tail, size) = c + 1
      /\ Slot(tail, c + 1, size) = head
  BY CountPut
<1>2. \A k \in 1..c : Slot(tail, k, size) \in 0..(size - 1) /\ Slot(tail, k, size) # head
  BY SlotRange
<1>3. q = [k \in 1..c |-> buf[Slot(tail, k, size)]]
  BY DEF Contents
<1>4. r = [k \in 1..(c + 1) |-> new[Slot(tail, k, size)]]
  BY <1>1 DEF Contents
<1> HIDE DEF b, c, q, r
<1>5. q \in Seq(B) /\ Len(q) = c
  BY <1>1, <1>2, <1>3
<1>6. \A k \in 1..c : r[k] = q[k]
  BY <1>1, <1>2, <1>3, <1>4
<1>7. r[c + 1] = b
  BY <1>1, <1>4 DEF b
<1>8. Append(q, b) = [k \in 1..(c + 1) |-> IF k = c + 1 THEN b ELSE q[k]]
  BY <1>5, AppendElements
<1>9. r = Append(q, b)
  <2>1. \A k \in 1..(c + 1) : r[k] = IF k = c + 1 THEN b ELSE q[k]
    BY <1>1, <1>6, <1>7
  <2>2. r = [k \in 1..(c + 1) |-> r[k]]
    BY <1>4
  <2> QED
    BY <1>8, <2>1, <2>2
<1>10. Len(q) < size - 1
  BY <1>1, <1>5
<1> QED
  BY <1>9, <1>10 DEF b, q, r

(* Advancing the tail takes the oldest byte off.                           *)
LEMMA ContentsGet ==
  ASSUME NEW B, NEW size \in Nat, size > 1, NEW buf \in [0..(size - 1) -> B],
         NEW head \in 0..(size - 1), NEW tail \in 0..(size - 1), head # tail
  PROVE  /\ Contents(buf, head, tail, size) # << >>
         /\ Head(Contents(buf, head, tail, size)) = buf[tail]
         /\ Contents(buf, head, NextIndex(tail, size), size)
              = Tail(Contents(buf, head, tail, size))
<1> DEFINE c == Count(head, tail, size)
           q == Contents(buf, head, tail, size)
           r == Contents(buf, head, NextIndex(tail, size), size)
<1>1. /\ c \in 1..(size - 1) /\ Count(head, NextIndex(tail, size), size) = c - 1
      /\ Slot(tail, 1, size) = tail
      /\ \A k \in 1..(c - 1) :
           Slot(NextIndex(tail, size), k, size) = Slot(tail, k + 1, size)
  BY CountGet
<1>2. \A k \in 1..c : Slot(tail, k, size) \in 0..(size - 1)
  BY SlotRange
<1>3. q = [k \in 1..c |-> buf[Slot(tail, k, size)]]
  BY DEF Contents
<1>4. r = [k \in 1..(c - 1) |-> buf[Slot(NextIndex(tail, size), k, size)]]
  BY <1>1 DEF Contents
<1> HIDE DEF c, q, r
<1>5. q \in Seq(B) /\ Len(q) = c /\ q # << >> /\ q[1] = buf[tail]
  BY <1>1, <1>2, <1>3
<1>6. Tail(q) = [k \in 1..(c - 1) |-> q[k + 1]]
  BY <1>1, <1>5
<1>7. r = Tail(q)
  BY <1>1, <1>3, <1>4, <1>6
<1> QED
  BY <1>5, <1>7 DEF c, q, r

(* A byte stored in the free slot does not show before the head advances.  *)
LEMMA ContentsStore ==
  ASSUME NEW size \in Nat, size > 1, NEW buf,
         NEW head \in 0..(size - 1), NEW tail \in 0..(size - 1),
         NEW new, \A i \in 0..(size - 1) : i # head => new[i] = buf[i]
  PROVE  Contents(new, head, tail, size) = Contents(buf, head, tail, size)
<1>1. \A k \in 1..Count(head, tail, size) :
        Slot(tail, k, size) \in 0..(size - 1) /\ Slot(tail, k, size) # head
  BY SlotRange
<1>2. \A k \in 1..Count(head, tail, size) :
        new[Slot(tail, k, size)] = buf[Slot(tail, k, size)]
  BY <1>1
<1> QED
  BY <1>2 DEF Contents

(* Moving the tail up to an index on the way to the head takes the oldest  *)
(* bytes off.                                                              *)
LEMMA ContentsFlush ==
  ASSUME NEW B, NEW size \in Nat, size > 1, NEW buf \in [0..(size - 1) -> B],
         NEW head \in 0..(size - 1), NEW tail \in 0..(size - 1),
         NEW to \in 0..(size - 1),
         Count(to, tail, size) <= Count(head, tail, size)
  PROVE  /\ Count(to, tail, size) \in 0..Len(Contents(buf, head, tail, size))
         /\ Contents(buf, head, to, size)
              = SubSeq(Contents(buf, head, tail, size),
                       Count(to, tail, size) + 1,
                       Len(Contents(buf, head, tail, size)))
<1> DEFINE c == Count(head, tail, size)
           n == Count(to, tail, size)
           q == Contents(buf, head, tail, size)
           r == Contents(buf, head, to, size)
<1>1. /\ c \in 0..(size - 1) /\ n \in 0..c /\ Count(head, to, size) = c - n
      /\ \A k \in 1..(c - n) : Slot(to, k, size) = Slot(tail, n + k, size)
  BY DEF Count, Slot
<1>2. \A k \in 1..c : Slot(tail, k, size) \in 0..(size - 1)
  BY SlotRange
<1>3. q = [k \in 1..c |-> buf[Slot(tail, k, size)]]
  BY DEF Contents
<1>4. r = [k \in 1..(c - n) |-> buf[Slot(to, k, size)]]
  BY <1>1 DEF Contents
<1> HIDE DEF c, n, q, r
<1>5. q \in Seq(B) /\ Len(q) = c
  BY <1>1, <1>2, <1>3
<1>6. SubSeq(q, n + 1, c) = [k \in 1..(c - n) |-> q[n + k]]
  BY <1>1, <1>5
<1>7. r = SubSeq(q, n + 1, c)
  BY <1>1, <1>3, <1>4, <1>6
<1> QED
  BY <1>1, <1>5, <1>7 DEF n, q, r

-----------------------------------------------------------------------------
(* The inductive invariant.                                                *)

USE DEF vars, rx, tx

(* What the main program's local variables stand for while an interrupt    *)
(* may move the other end of the ring.                                     *)
LocalInv ==
  /\ at \in {"fetch", "advance"} => tmp = rxTail /\ rxHead # rxTail
  /\ at = "advance" => data = rxBuf[rxTail]
  /\ at = "flush" => Count(tmp, rxTail, RxSize) <= Count(rxHead, rxTail, RxSize)
  /\ at \in {"store", "publish"} => NextIndex(txHead, TxSize) # txTail
  /\ at = "publish" => txBuf[txHead] = data

Inv == TypeOK /\ UdrieIffWork /\ LocalInv

(* The program starts with the invariant.                                  *)
LEMMA InvInit == Init => Inv
<1> SUFFICES ASSUME Init PROVE Inv
  OBVIOUS
<1>1. TypeOK
  <2>1. PICK zero \in Bytes :
          /\ rxBuf = [i \in 0..(RxSize - 1) |-> zero]
          /\ txBuf = [i \in 0..(TxSize - 1) |-> zero]
          /\ got = zero /\ wire = zero /\ data = zero
    BY DEF Init
  <2>2. rxBuf \in [0..(RxSize - 1) -> Bytes] /\ txBuf \in [0..(TxSize - 1) -> Bytes]
        /\ got \in Bytes /\ wire \in Bytes /\ data \in Bytes
    BY <2>1
  <2>3. /\ rxHead \in 0..(RxSize - 1) /\ rxTail \in 0..(RxSize - 1)
        /\ txHead \in 0..(TxSize - 1) /\ txTail \in 0..(TxSize - 1)
        /\ tmp \in 0..(RxSize - 1) /\ sentNow \in 0..1
    BY RxSizeAssumption, TxSizeAssumption DEF Init
  <2>4. at \in Labels /\ udrie \in BOOLEAN /\ reset \in BOOLEAN
    BY DEF Init, Labels
  <2> QED
    BY <2>2, <2>3, <2>4 DEF TypeOK
<1>2. UdrieIffWork /\ LocalInv
  BY DEF Init, UdrieIffWork, LocalInv
<1> QED
  BY <1>1, <1>2 DEF Inv

(* Every step keeps every variable within its type.                        *)
LEMMA TypeStep == Inv /\ [Next]_vars => TypeOK'
<1> SUFFICES ASSUME Inv, [Next]_vars PROVE TypeOK'
  OBVIOUS
<1> USE RxSizeAssumption, TxSizeAssumption, BurstAssumption, NextIndexRange
    DEF Inv, TypeOK, Labels
<1>1. CASE RxByte
  BY <1>1 DEF RxByte
<1>2. CASE RxReset
  BY <1>2 DEF RxReset
<1>3. CASE Read
  BY <1>3 DEF Read
<1>4. CASE ReadFetch
  BY <1>4 DEF ReadFetch
<1>5. CASE ReadAdvance
  BY <1>5 DEF ReadAdvance
<1>6. CASE FlushRead
  BY <1>6 DEF FlushRead
<1>7. CASE FlushStore
  BY <1>7 DEF FlushStore
<1>8. CASE Write
  BY <1>8 DEF Write
<1>9. CASE WriteWait
  BY <1>9 DEF WriteWait
<1>10. CASE WriteStore
  BY <1>10 DEF WriteStore
<1>11. CASE WritePublish
  BY <1>11 DEF WritePublish
<1>12. CASE WriteEnable
  BY <1>12 DEF WriteEnable
<1>13. CASE Udre
  BY <1>13 DEF Udre
<1>14. CASE UNCHANGED vars
  BY <1>14 DEF vars
<1> QED
  BY <1>1, <1>2, <1>3, <1>4, <1>5, <1>6, <1>7,
     <1>8, <1>9, <1>10, <1>11, <1>12, <1>13, <1>14
     DEF Next, Main

(* Every step keeps the transmit interrupt enabled exactly while there is  *)
(* something to send.                                                      *)
LEMMA UdrieStep == Inv /\ [Next]_vars => UdrieIffWork'
<1> SUFFICES ASSUME Inv, [Next]_vars PROVE UdrieIffWork'
  OBVIOUS
<1> USE TxSizeAssumption DEF Inv, UdrieIffWork
<1>1. CASE RxByte
  BY <1>1 DEF RxByte
<1>2. CASE RxReset
  BY <1>2 DEF RxReset
<1>3. CASE Read
  BY <1>3 DEF Read
<1>4. CASE ReadFetch
  BY <1>4 DEF ReadFetch
<1>5. CASE ReadAdvance
  BY <1>5 DEF ReadAdvance
<1>6. CASE FlushRead
  BY <1>6 DEF FlushRead
<1>7. CASE FlushStore
  BY <1>7 DEF FlushStore
<1>8. CASE Write
  BY <1>8 DEF Write
<1>9. CASE WriteWait
  BY <1>9 DEF WriteWait
<1>10. CASE WriteStore
  BY <1>10 DEF WriteStore
<1>11. CASE WritePublish
  <2>1. /\ txHead \in 0..(TxSize - 1) /\ txTail \in 0..(TxSize - 1)
        /\ NextIndex(txHead, TxSize) # txTail /\ (udrie <=> txHead # txTail)
    BY <1>11 DEF WritePublish, TypeOK, LocalInv
  <2>2. /\ Count(txHead', txTail', TxSize) = Count(txHead, txTail, TxSize) + 1
        /\ Count(txHead, txTail, TxSize) \in 0..(TxSize - 2)
    BY <2>1, <1>11, CountPut DEF WritePublish
  <2>3. Count(txHead, txTail, TxSize) > 0 <=> txHead # txTail
    BY <2>1, CountZero
  <2> QED
    BY <1>11, <2>1, <2>2, <2>3 DEF WritePublish
<1>12. CASE WriteEnable
  BY <1>12 DEF WriteEnable
<1>13. CASE Udre
  <2>1. /\ txHead \in 0..(TxSize - 1) /\ txTail \in 0..(TxSize - 1)
        /\ txHead # txTail /\ sentNow \in 0..1 /\ (at = "enable" => sentNow = 0)
    BY <1>13, BurstAssumption DEF Udre, TypeOK
  <2>2. /\ Count(txHead', txTail', TxSize) = Count(txHead, txTail, TxSize) - 1
        /\ Count(txHead, txTail, TxSize) \in 1..(TxSize - 1)
    BY <2>1, <1>13, CountGet DEF Udre
  <2>3. txTail' \in 0..(TxSize - 1)
    BY <2>1, <1>13, NextIndexRange DEF Udre
  <2>4. Count(txHead, txTail', TxSize) > 0 <=> txHead # txTail'
    BY <2>1, <2>3, CountZero
  <2>5. CASE at = "enable"
    <3>1. udrie /\ Count(txHead, txTail, TxSize) > 1
      BY <2>1, <2>2, <2>5, <1>13 DEF Udre
    <3>2. at' = "enable" /\ sentNow' = 1 /\ txHead' = txHead /\ txHead # txTail'
      BY <3>1, <2>1, <2>2, <2>4, <2>5, <1>13 DEF Udre
    <3>3. udrie'
      BY <3>2, <1>13 DEF Udre
    <3>4. Count(txHead', txTail', TxSize) + sentNow' > 1
      BY <3>1, <3>2, <2>2
    <3> QED
      BY <3>2, <3>3, <3>4
  <2>6. CASE at # "enable"
    BY <2>6, <1>13 DEF Udre
  <2> QED
    BY <2>5, <2>6
<1>14. CASE UNCHANGED vars
  BY <1>14 DEF vars
<1> QED
  BY <1>1, <1>2, <1>3, <1>4, <1>5, <1>6, <1>7,
     <1>8, <1>9, <1>10, <1>11, <1>12, <1>13, <1>14
     DEF Next, Main

(* Every step keeps what the local variables stand for.                    *)
LEMMA LocalStep == Inv /\ [Next]_vars => LocalInv'
<1> SUFFICES ASSUME Inv, [Next]_vars PROVE LocalInv'
  OBVIOUS
<1> USE RxSizeAssumption, TxSizeAssumption DEF Inv, TypeOK, LocalInv
<1>1. CASE RxByte
  <2>1. Count(rxHead', rxTail, RxSize) = Count(rxHead, rxTail, RxSize) + 1
        /\ Count(rxHead, rxTail, RxSize) \in 0..(RxSize - 2)
    BY <1>1, CountPut DEF RxByte
  <2>2. at = "flush" => Count(tmp, rxTail, RxSize) \in Nat
    BY DEF Count
  <2> QED
    BY <1>1, <2>1, <2>2 DEF RxByte
<1>2. CASE RxReset
  BY <1>2 DEF RxReset
<1>3. CASE Read
  BY <1>3 DEF Read
<1>4. CASE ReadFetch
  BY <1>4 DEF ReadFetch
<1>5. CASE ReadAdvance
  BY <1>5 DEF ReadAdvance
<1>6. CASE FlushRead
  BY <1>6 DEF FlushRead, Count
<1>7. CASE FlushStore
  BY <1>7 DEF FlushStore
<1>8. CASE Write
  BY <1>8 DEF Write
<1>9. CASE WriteWait
  BY <1>9 DEF WriteWait, Full
<1>10. CASE WriteStore
  BY <1>10 DEF WriteStore
<1>11. CASE WritePublish
  BY <1>11 DEF WritePublish
<1>12. CASE WriteEnable
  BY <1>12 DEF WriteEnable
<1>13. CASE Udre
  BY <1>13 DEF Udre, UdrieIffWork, NextIndex
<1>14. CASE UNCHANGED vars
  BY <1>14 DEF vars
<1> QED
  BY <1>1, <1>2, <1>3, <1>4, <1>5, <1>6, <1>7,
     <1>8, <1>9, <1>10, <1>11, <1>12, <1>13, <1>14
     DEF Next, Main

(* The invariant holds in every reachable state.                           *)
THEOREM Invariance == Spec => []Inv
<1>1. Inv /\ [Next]_vars => Inv'
  BY TypeStep, UdrieStep, LocalStep DEF Inv
<1> QED
  BY <1>1, InvInit, PTL DEF Spec
(* Every index stays in its ring.                                          *)
THEOREM TypeCorrect == Spec => []TypeOK
<1>1. Inv => TypeOK
  BY DEF Inv
<1> QED
  BY <1>1, Invariance, PTL

(* No transmit interrupt on an empty ring, and none missing on another.    *)
THEOREM UdrieTheorem == Spec => []UdrieIffWork
<1>1. Inv => UdrieIffWork
  BY DEF Inv
<1> QED
  BY <1>1, Invariance, PTL

-----------------------------------------------------------------------------
(* Refinement.                                                             *)

(* A ring whose head and tail meet has no contents.                        *)
LEMMA ContentsEmpty ==
  ASSUME NEW size \in Nat, size > 1, NEW buf, NEW i \in 0..(size - 1)
  PROVE  Contents(buf, i, i, size) = << >>
  BY DEF Contents, Count

(* Every step of the program is a put, a get or a flush of the receive     *)
(* queue, or leaves it alone.                                              *)
LEMMA RxStep ==
  Inv /\ [Next]_vars => [Rx!Put \/ Rx!Get \/ Rx!Flush]_<<rxQueue, got>>
<1> SUFFICES ASSUME Inv, [Next]_vars
             PROVE  Rx!Put \/ Rx!Get \/ Rx!Flush \/ UNCHANGED <<rxQueue, got>>
  OBVIOUS
<1> USE RxSizeAssumption
<1>0. /\ rxHead \in 0..(RxSize - 1) /\ rxTail \in 0..(RxSize - 1)
      /\ rxBuf \in [0..(RxSize - 1) -> Bytes] /\ tmp \in 0..(RxSize - 1)
  BY DEF Inv, TypeOK
<1>1. CASE RxByte
  <2>1. PICK b \in Bytes : rxBuf' = [rxBuf EXCEPT ![rxHead] = b]
    BY <1>1 DEF RxByte
  <2>2. Len(rxQueue) < RxSize - 1 /\ rxQueue' = Append(rxQueue, b)
    <3>1. NextIndex(rxHead, RxSize) # rxTail
      BY <1>1 DEF RxByte
    <3>2. /\ rxBuf'[rxHead] = b
          /\ \A i \in 0..(RxSize - 1) : i # rxHead => rxBuf'[i] = rxBuf[i]
      BY <1>0, <2>1
    <3>3. /\ Len(Contents(rxBuf, rxHead, rxTail, RxSize)) < RxSize - 1
          /\ Contents(rxBuf', NextIndex(rxHead, RxSize), rxTail, RxSize)
               = Append(Contents(rxBuf, rxHead, rxTail, RxSize), rxBuf'[rxHead])
      BY <1>0, <3>1, <3>2, ContentsPut
    <3> QED
      BY <1>1, <3>2, <3>3 DEF RxByte, rxQueue
  <2> QED
    BY <1>1, <2>2 DEF RxByte, Rx!Put
<1>2. CASE ReadAdvance
  <2>1. rxHead # rxTail /\ tmp = rxTail /\ data = rxBuf[rxTail]
    BY <1>2 DEF ReadAdvance, Inv, LocalInv
  <2>2. /\ rxQueue # << >> /\ Head(rxQueue) = rxBuf[rxTail]
        /\ rxQueue' = Tail(rxQueue)
    BY <1>0, <1>2, <2>1, ContentsGet DEF ReadAdvance, rxQueue
  <2> QED
    BY <1>2, <2>1, <2>2 DEF ReadAdvance, Rx!Get
<1>3. CASE FlushStore
  <2> DEFINE n == Count(tmp, rxTail, RxSize)
  <2>1. /\ n \in 0..Len(rxQueue)
        /\ rxQueue' = SubSeq(rxQueue, n + 1, Len(rxQueue))
    <3>1. n <= Count(rxHead, rxTail, RxSize)
      BY <1>3 DEF FlushStore, Inv, LocalInv
    <3> QED
      BY <1>0, <1>3, <3>1, ContentsFlush DEF FlushStore, rxQueue
  <2>2. CASE n = 0
    <3>1. rxTail' = rxTail
      BY <1>0, <1>3, <2>2, CountZero DEF FlushStore, Count
    <3> QED
      BY <1>3, <3>1 DEF FlushStore, rxQueue
  <2>3. CASE n # 0
    <3> HIDE DEF n
    <3> QED
      BY <1>3, <2>1, <2>3 DEF FlushStore, Rx!Flush
  <2> QED
    BY <2>2, <2>3
<1>4. CASE UNCHANGED <<rxBuf, rxHead, rxTail, got>>
  BY <1>4 DEF rxQueue
<1> QED
  BY <1>1, <1>2, <1>3, <1>4
     DEF Next, Main, RxReset, Read, ReadFetch, FlushRead, Write, WriteWait,
         WriteStore, WritePublish, WriteEnable, Udre

(* Every step of the program is a put or a get of the transmit queue, or   *)
(* leaves it alone.                                                        *)
LEMMA TxStep == Inv /\ [Next]_vars => [Tx!Put \/ Tx!Get]_<<txQueue, wire>>
<1> SUFFICES ASSUME Inv, [Next]_vars
             PROVE  Tx!Put \/ Tx!Get \/ UNCHANGED <<txQueue, wire>>
  OBVIOUS
<1> USE TxSizeAssumption
<1>0. /\ txHead \in 0..(TxSize - 1) /\ txTail \in 0..(TxSize - 1)
      /\ txBuf \in [0..(TxSize - 1) -> Bytes] /\ data \in Bytes
  BY DEF Inv, TypeOK
<1>1. CASE WriteStore
  <2>1. txQueue' = txQueue
    <3>1. \A i \in 0..(TxSize - 1) : i # txHead => txBuf'[i] = txBuf[i]
      BY <1>0, <1>1 DEF WriteStore
    <3>2. Contents(txBuf', txHead, txTail, TxSize)
            = Contents(txBuf, txHead, txTail, TxSize)
      BY <1>0, <3>1, ContentsStore
    <3> QED
      BY <1>1, <3>2 DEF WriteStore, txQueue
  <2> QED
    BY <1>1, <2>1 DEF WriteStore
<1>2. CASE WritePublish
  <2>1. NextIndex(txHead, TxSize) # txTail /\ txBuf[txHead] = data
    BY <1>2 DEF WritePublish, Inv, LocalInv
  <2>2. Len(txQueue) < TxSize - 1 /\ txQueue' = Append(txQueue, data)
    <3>1. /\ Len(Contents(txBuf, txHead, txTail, TxSize)) < TxSize - 1
          /\ Contents(txBuf, NextIndex(txHead, TxSize), txTail, TxSize)
               = Append(Contents(txBuf, txHead, txTail, TxSize), txBuf[txHead])
      BY <1>0, <2>1, ContentsPut
    <3> QED
      BY <1>2, <2>1, <3>1 DEF WritePublish, txQueue
  <2> QED
    BY <1>0, <1>2, <2>2 DEF WritePublish, Tx!Put
<1>3. CASE Udre
  <2>1. txHead # txTail
    BY <1>3, BurstAssumption DEF Udre, Inv, UdrieIffWork
  <2>2. /\ txQueue # << >> /\ Head(txQueue) = txBuf[txTail]
        /\ txQueue' = Tail(txQueue)
    BY <1>0, <1>3, <2>1, ContentsGet DEF Udre, txQueue
  <2> QED
    BY <1>3, <2>2 DEF Udre, Tx!Get
<1>4. CASE UNCHANGED <<txBuf, txHead, txTail, wire>>
  BY <1>4 DEF txQueue
<1> QED
  BY <1>1, <1>2, <1>3, <1>4
     DEF Next, Main, RxByte, RxReset, Read, ReadFetch, ReadAdvance, FlushRead,
         FlushStore, Write, WriteWait, WriteEnable

(* The receive ring implements a byte queue that may be flushed.           *)
THEOREM RxRefines == Spec => RxIsFifo
<1>1. Init => Rx!Init
  <2> SUFFICES ASSUME Init PROVE rxQueue = << >> /\ got \in Bytes
    BY DEF Rx!Init
  <2>1. 0 \in 0..(RxSize - 1)
    BY RxSizeAssumption
  <2> QED
    BY <2>1, RxSizeAssumption, ContentsEmpty DEF Init, rxQueue
<1>2. Inv /\ [Next]_vars => [Rx!Put \/ Rx!Get \/ Rx!Flush]_<<rxQueue, got>>
  BY RxStep
<1> QED
  BY <1>1, <1>2, Invariance, PTL DEF Spec, RxIsFifo, Rx!FlushSpec

(* The transmit ring implements a byte queue.                              *)
THEOREM TxRefines == Spec => TxIsFifo
<1>1. Init => Tx!Init
  <2> SUFFICES ASSUME Init PROVE txQueue = << >> /\ wire \in Bytes
    BY DEF Tx!Init
  <2>1. 0 \in 0..(TxSize - 1)
    BY TxSizeAssumption
  <2> QED
    BY <2>1, TxSizeAssumption, ContentsEmpty DEF Init, txQueue
<1>2. Inv /\ [Next]_vars => [Tx!Put \/ Tx!Get]_<<txQueue, wire>>
  BY TxStep
<1> QED
  BY <1>1, <1>2, Invariance, PTL DEF Spec, TxIsFifo, Tx!Spec
=============================================================================
