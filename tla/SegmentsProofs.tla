---------------------------- MODULE SegmentsProofs ----------------------------
(***************************************************************************)
(* Machine-checked proofs about the segment buffer, for every ring size,   *)
(* smoothing level, set of axes and of moves, and any number of moves:     *)
(* block data in use is not overwritten, the motors receive what is        *)
(* counted, every counter keeps its type and width, no segment is without  *)
(* steps, and all that was queued is traced, to the step; the second as    *)
(* long as no '~' restarts a motion that a probe ended, the last two as    *)
(* long as no hold is starved.                                             *)
(***************************************************************************)
EXTENDS SegmentsProperties, FiniteSetTheorems, WellFoundedInduction, TLAPS

-----------------------------------------------------------------------------
(* The arithmetic of the two rings.                                        *)

N == SegmentBufferSize
Waiting == Count(head, tail, N)

(* The blocks loaded since the one at i, with the one at j loaded last.    *)
Distance(j, i) == Count(j, i, N - 1)

LEMMA NextSlotRange ==
  ASSUME NEW i \in 0 .. N - 1
  PROVE  NextSlot(i) \in 0 .. N - 1
  BY SegmentsAssumption DEF NextSlot, NextIndex, N, SegmentsAssumption

LEMMA NextBlockRange ==
  ASSUME NEW i \in Slots
  PROVE  NextBlock(i) \in Slots
  BY SegmentsAssumption DEF NextBlock, NextIndex, Slots, SegmentsAssumption

(* Loading a block puts every other one at most one further away.          *)
LEMMA DistanceNext ==
  ASSUME NEW i \in Slots, NEW j \in Slots
  PROVE  Distance(NextBlock(j), i) <= Distance(j, i) + 1 /\ Distance(j, i) \in Nat
  BY SegmentsAssumption
     DEF NextBlock, NextIndex, Slots, SegmentsAssumption, Distance, Count, N

LEMMA DistanceSelf ==
  ASSUME NEW i \in Slots
  PROVE  Distance(i, i) = 0
  BY SegmentsAssumption DEF Slots, SegmentsAssumption, Distance, Count, N

(* The slot loaded next is the one furthest away.                          *)
LEMMA DistanceReused ==
  ASSUME NEW j \in Slots
  PROVE  Distance(j, NextBlock(j)) = N - 2
  BY SegmentsAssumption
     DEF NextBlock, NextIndex, Slots, SegmentsAssumption, Distance, Count, N

LEMMA WaitingRange ==
  ASSUME NEW h \in 0 .. N - 1, NEW t \in 0 .. N - 1
  PROVE  /\ Count(h, t, N) \in 0 .. N - 1
         /\ h = t <=> Count(h, t, N) = 0
         /\ NextSlot(h) # t <=> Count(h, t, N) <= N - 2
  BY SegmentsAssumption DEF NextSlot, NextIndex, Count, SegmentsAssumption, N

(* Publishing a segment adds one at the slot of the head.                  *)
LEMMA WaitingPut ==
  ASSUME NEW h \in 0 .. N - 1, NEW t \in 0 .. N - 1, NextSlot(h) # t
  PROVE  /\ Count(NextSlot(h), t, N) = Count(h, t, N) + 1
         /\ Slot(t, Count(h, t, N) + 1, N) = h
         /\ \A k \in 1 .. Count(h, t, N) : Slot(t, k, N) \in 0 .. N - 1 /\ Slot(t, k, N) # h
  BY SegmentsAssumption DEF NextSlot, NextIndex, Count, Slot, SegmentsAssumption, N

(* Popping one takes away the oldest.                                      *)
LEMMA WaitingGet ==
  ASSUME NEW h \in 0 .. N - 1, NEW t \in 0 .. N - 1, h # t
  PROVE  /\ Count(h, NextSlot(t), N) = Count(h, t, N) - 1
         /\ Slot(t, 1, N) = t
         /\ \A k \in 1 .. Count(h, t, N) - 1 : Slot(NextSlot(t), k, N) = Slot(t, k + 1, N)
  BY SegmentsAssumption DEF NextSlot, NextIndex, Count, Slot, SegmentsAssumption, N

LEMMA SlotRange ==
  ASSUME NEW h \in 0 .. N - 1, NEW t \in 0 .. N - 1, NEW k \in 1 .. Count(h, t, N)
  PROVE  Slot(t, k, N) \in 0 .. N - 1
  BY SegmentsAssumption DEF Count, Slot, SegmentsAssumption, N

-----------------------------------------------------------------------------
(* The inductive invariant.                                                *)

ShapeInv ==
  /\ DOMAIN prep = DOMAIN EmptyPrep /\ prep.index \in Slots
  /\ DOMAIN st = DOMAIN EmptyStepper
  /\ DOMAIN blocks = Slots
  /\ DOMAIN ring = 0 .. N - 1 /\ \A i \in 0 .. N - 1 : ring[i].index \in Slots
  /\ head \in 0 .. N - 1 /\ tail \in 0 .. N - 1
  /\ position \in [Axis -> Int] /\ motor \in [Axis -> Int]

(* Between its loading and its segment a block is loaded and has room.     *)
StageInv == prep.at \in {"loaded", "startLoaded"} => prep.loaded /\ NextSlot(head) # tail

(* A block is loaded when the one before has all its segments published,   *)
(* so the k-th oldest segment is of one of the last blocks loaded: of no   *)
(* more of them than there are segments after it, and of the one before    *)
(* them if the last one has none yet.                                      *)
Unpublished == IF prep.loaded \/ prep.partial THEN 1 ELSE 0
OrderInv ==
  \A k \in 1 .. Waiting :
    Distance(prep.index, ring[Slot(tail, k, N)].index) <= Waiting - k + Unpublished

(* The segment being traced is the oldest one.                             *)
TracedInv ==
  st.segment => head # tail /\ ring[tail].index = st.index
                /\ st.dir = blocks[st.index].dir

(* The timer runs only in a state that waits for the end of the motion,    *)
(* which comes once it is off; it is off while the ring is first filled.   *)
Starting == prep.at \in {"start", "startLoaded"}
Running == state \in {"CYCLE", "MOTION_CANCEL"} \/ (state = "HOLD" /\ ~ready)
TimerInv ==
  /\ timer \/ cycleStop => Running /\ ~Starting
  /\ ~(timer /\ cycleStop)
  /\ Starting => state = "CYCLE"
  /\ state = "MOTION_CANCEL" => ~ready

(* In the last checkpoint of a probing cycle the timer runs only if that   *)
(* checkpoint started it.                                                  *)
RestartInv == job = "finish" /\ state = "CYCLE" => restarted

(* sys.position is one tick ahead of the motors.                           *)
PulseInv ==
  /\ ~timer => ~st.segment
  /\ ~restarted => position = IF timer THEN Moved(motor, st.out, st.dir) ELSE motor

SlotInv == ShapeInv /\ StageInv /\ OrderInv /\ TracedInv

LEMMA SlotInit == Init => SlotInv
<1> SUFFICES ASSUME Init PROVE SlotInv
  OBVIOUS
<1>1. 0 \in 0 .. N - 1 /\ 0 \in Slots
  BY SegmentsAssumption DEF N, Slots, SegmentsAssumption
<1>2. ShapeInv
  BY <1>1 DEF Init, ShapeInv, EmptyPrep, EmptySegment, Zero, N
<1>3. Waiting = 0
  BY DEF Init, Waiting, Count
<1> QED
  BY <1>2, <1>3 DEF Init, SlotInv, StageInv, OrderInv, TracedInv, EmptyPrep, EmptyStepper

(* The block data that is loaded next is not used by any segment.          *)
LEMMA NextIsFree ==
  ASSUME SlotInv, NextSlot(head) # tail, ~prep.loaded, ~prep.partial
  PROVE  \A k \in 1 .. Waiting : ring[Slot(tail, k, N)].index # NextBlock(prep.index)
<1> SUFFICES ASSUME NEW k \in 1 .. Waiting,
                    ring[Slot(tail, k, N)].index = NextBlock(prep.index)
             PROVE  FALSE
  OBVIOUS
<1>1. Waiting \in 0 .. N - 2
  BY WaitingRange DEF SlotInv, ShapeInv, Waiting
<1>2. Distance(prep.index, NextBlock(prep.index)) <= Waiting - k
  BY <1>1 DEF SlotInv, OrderInv, Unpublished
<1>3. Distance(prep.index, NextBlock(prep.index)) = N - 2
  BY DistanceReused DEF SlotInv, ShapeInv
<1> QED
  BY <1>1, <1>2, <1>3, SegmentsAssumption DEF N, SegmentsAssumption

(* Reloading the block in hand keeps its data where it is.                 *)
LEMMA ReplannedKeeps ==
  ASSUME DOMAIN prep = DOMAIN EmptyPrep
  PROVE  /\ DOMAIN Replanned(prep) = DOMAIN EmptyPrep
         /\ Replanned(prep).index = prep.index /\ Replanned(prep).at = prep.at
         /\ (prep.loaded \/ prep.partial) <=> (Replanned(prep).loaded \/ Replanned(prep).partial)
  BY DEF Replanned, EmptyPrep

(* Steps that touch neither the ring nor what is loaded.                   *)
LEMMA SlotKept ==
  ASSUME SlotInv, UNCHANGED <<blocks, ring, head, tail, st, position, motor>>,
         DOMAIN prep' = DOMAIN EmptyPrep, prep'.index = prep.index,
         (prep.loaded \/ prep.partial) <=> (prep'.loaded \/ prep'.partial),
         prep'.at \notin {"loaded", "startLoaded"}
  PROVE  SlotInv'
<1>1. ShapeInv' /\ StageInv' /\ TracedInv'
  BY DEF SlotInv, ShapeInv, StageInv, TracedInv
<1>2. OrderInv'
  <2>1. Waiting' = Waiting /\ Waiting \in Nat
    BY WaitingRange DEF Waiting, SlotInv, ShapeInv
  <2> QED
    BY <2>1 DEF SlotInv, OrderInv, Unpublished
<1> QED
  BY <1>1, <1>2 DEF SlotInv

LEMMA MovedRange ==
  ASSUME NEW v \in [Axis -> Int], NEW axes, NEW negative
  PROVE  /\ Moved(v, axes, negative) \in [Axis -> Int]
         /\ Moved(v, {}, negative) = v
  BY DEF Moved

Inv == SlotInv /\ TimerInv /\ RestartInv /\ PulseInv

LEMMA InvInit == Init => Inv
  BY SlotInit DEF Init, Inv, TimerInv, RestartInv, PulseInv, Starting, EmptyPrep, EmptyStepper

LEMMA QueueInv == Inv /\ (Queue \/ Probe) => Inv'
<1> SUFFICES ASSUME Inv, Queue \/ Probe PROVE Inv'
  OBVIOUS
<1>1. prep.at = "main" /\ (prep' = Replanned(prep) \/ prep' = prep)
      /\ UNCHANGED <<state, ready, timer, cycleStop, restarted>> /\ job' # "finish"
  BY DEF Queue, Probe, BufferLine, AtMain, rest, interrupt
<1>2. UNCHANGED <<blocks, ring, head, tail, st, position, motor>>
  BY DEF Queue, Probe, BufferLine, rest, interrupt, buffer
<1>3. /\ DOMAIN prep' = DOMAIN EmptyPrep
      /\ prep'.index = prep.index /\ prep'.at = "main"
      /\ (prep.loaded \/ prep.partial) <=> (prep'.loaded \/ prep'.partial)
  BY <1>1, ReplannedKeeps DEF Inv, SlotInv, ShapeInv
<1>4. SlotInv'
  BY <1>2, <1>3, SlotKept DEF Inv
<1> QED
  BY <1>1, <1>2, <1>3, <1>4 DEF Inv, TimerInv, RestartInv, PulseInv, Starting, Running

LEMMA CycleStartInv == Inv /\ CycleStart => Inv'
<1> SUFFICES ASSUME Inv, CycleStart PROVE Inv'
  OBVIOUS
<1>1. prep.at = "main" /\ ~Running /\ ~ready'
  BY DEF CycleStart, Checkpoint, AtMain, Holding, Running, Inv, TimerInv
<1>2. UNCHANGED <<blocks, ring, head, tail, st, position, motor, timer, cycleStop>>
  BY DEF CycleStart, buffer
<1>3. \/ prep' = prep /\ state' = "IDLE" /\ UNCHANGED restarted
      \/ /\ prep' = [prep EXCEPT !.at = "start"] /\ state' = "CYCLE"
         /\ restarted' = (restarted \/ job = "finish")
         /\ job' = IF job = "begin" THEN "probe" ELSE job
  BY DEF CycleStart
<1>4. /\ DOMAIN prep' = DOMAIN EmptyPrep
      /\ prep'.index = prep.index /\ prep'.at \in {"main", "start"}
      /\ prep'.at = "start" => state' = "CYCLE"
      /\ prep.loaded = prep'.loaded /\ prep.partial = prep'.partial
  BY <1>1, <1>3 DEF Inv, SlotInv, ShapeInv, EmptyPrep
<1>5. SlotInv'
  BY <1>2, <1>4, SlotKept DEF Inv
<1>6. ~timer /\ ~cycleStop
  BY <1>1 DEF Inv, TimerInv
<1>7. TimerInv' /\ RestartInv'
  BY <1>1, <1>2, <1>3, <1>4, <1>6 DEF TimerInv, RestartInv, Starting
<1>8. PulseInv'
  BY <1>2, <1>3, <1>6 DEF Inv, PulseInv
<1> QED
  BY <1>5, <1>7, <1>8 DEF Inv

LEMMA HoldInv == Inv /\ Hold => Inv'
<1> SUFFICES ASSUME Inv, Hold PROVE Inv'
  OBVIOUS
<1>1. prep.at = "main" /\ (prep' = Replanned(prep) \/ prep' = prep)
  BY DEF Hold, Checkpoint, AtMain
<1>2. UNCHANGED <<blocks, ring, head, tail, st, position, motor, timer, cycleStop, restarted>>
  BY DEF Hold, buffer
<1>3. /\ DOMAIN prep' = DOMAIN EmptyPrep
      /\ prep'.index = prep.index /\ prep'.at = "main"
      /\ (prep.loaded \/ prep.partial) <=> (prep'.loaded \/ prep'.partial)
  BY <1>1, ReplannedKeeps DEF Inv, SlotInv, ShapeInv
<1>4. SlotInv'
  BY <1>2, <1>3, SlotKept DEF Inv
<1>5. /\ state' = "HOLD" \/ (state = "CYCLE" /\ state' = "MOTION_CANCEL")
         \/ (state # "CYCLE" /\ state' = state)
      /\ ready' = (state = "IDLE" \/ (state # "CYCLE" /\ ready))
  BY DEF Hold
<1>6. Running => Running'
  BY <1>5 DEF Running, Inv, TimerInv
<1>7. state' = "MOTION_CANCEL" => ~ready'
  BY <1>5 DEF Inv, TimerInv
<1>8. TimerInv' /\ RestartInv'
  BY <1>2, <1>3, <1>5, <1>6, <1>7 DEF Inv, TimerInv, RestartInv, Starting
<1>9. PulseInv'
  BY <1>2 DEF Inv, PulseInv
<1> QED
  BY <1>4, <1>8, <1>9 DEF Inv

LEMMA CycleStopInv == Inv /\ CycleStop => Inv'
<1> SUFFICES ASSUME Inv, CycleStop PROVE Inv'
  OBVIOUS
<1>1. /\ prep.at = "main" /\ ~timer /\ cycleStop' = FALSE
      /\ UNCHANGED <<prep, st, head, tail, timer, blocks, ring, position, motor, restarted>>
      /\ state' \in {"HOLD", "IDLE"}
  BY DEF CycleStop, Checkpoint, AtMain, interrupt, buffer, Inv, TimerInv
<1>2. SlotInv'
  BY <1>1, SlotKept DEF Inv, SlotInv, ShapeInv
<1>3. PulseInv'
  BY <1>1 DEF Inv, PulseInv
<1> QED
  BY <1>1, <1>2, <1>3 DEF Inv, TimerInv, RestartInv, Starting

(* The end of a probing cycle: an empty ring, and a timer that runs only   *)
(* if the rest of the motion has been started again.                       *)
LEMMA ProbeFinishInv == Inv /\ ProbeFinish => Inv'
<1> SUFFICES ASSUME Inv, ProbeFinish PROVE Inv'
  OBVIOUS
<1>1. /\ job = "finish" /\ state \in {"IDLE", "CYCLE"} /\ job' = "lines"
      /\ prep' = EmptyPrep /\ st' = EmptyStepper
      /\ head' = 0 /\ tail' = 0 /\ timer' = FALSE
      /\ UNCHANGED <<blocks, ring, position, motor, state, ready, cycleStop, restarted>>
  BY DEF ProbeFinish
<1>2. 0 \in 0 .. N - 1 /\ 0 \in Slots
  BY SegmentsAssumption DEF N, Slots, SegmentsAssumption
<1>3. Waiting' = 0
  BY <1>1 DEF Waiting, Count
<1>4. ShapeInv'
  BY <1>1, <1>2 DEF Inv, SlotInv, ShapeInv, EmptyPrep
<1>5. StageInv' /\ OrderInv' /\ TracedInv' /\ ~st'.segment /\ prep'.at = "main"
  BY <1>1, <1>3 DEF StageInv, OrderInv, TracedInv, EmptyPrep, EmptyStepper
<1>6. TimerInv' /\ RestartInv'
  BY <1>1, <1>5 DEF Inv, TimerInv, RestartInv, Starting, Running
<1>7. PulseInv'
  <2>1. timer => restarted
    BY <1>1 DEF Inv, TimerInv, RestartInv, Running
  <2> QED
    BY <1>1, <1>5, <2>1 DEF Inv, PulseInv
<1> QED
  BY <1>4, <1>5, <1>6, <1>7 DEF Inv, SlotInv

LEMMA EnterLeaveInv == Inv /\ (Enter \/ Leave) => Inv'
<1> SUFFICES ASSUME Inv, Enter \/ Leave PROVE Inv'
  OBVIOUS
<1>1. /\ prep.at \in {"main", "prep"}
      /\ prep' = [prep EXCEPT !.at = "prep"] \/ prep' = [prep EXCEPT !.at = "main"]
  BY DEF Enter, Leave, AtMain
<1>2. UNCHANGED <<blocks, ring, head, tail, st, position, motor, timer, cycleStop, state, ready, job, restarted>>
  BY DEF Enter, Leave, rest, interrupt, buffer, control
<1>3. /\ DOMAIN prep' = DOMAIN EmptyPrep
      /\ prep'.index = prep.index /\ prep'.at \in {"main", "prep"}
      /\ prep.loaded = prep'.loaded /\ prep.partial = prep'.partial
  BY <1>1 DEF Inv, SlotInv, ShapeInv, EmptyPrep
<1>4. SlotInv'
  BY <1>2, <1>3, SlotKept DEF Inv
<1> QED
  BY <1>2, <1>3, <1>4 DEF Inv, TimerInv, RestartInv, PulseInv, Starting, Running

(* A block loaded afresh takes a slot no segment uses; a block reloaded    *)
(* keeps its own.                                                          *)
LEMMA LoadInv == Inv /\ Load => Inv'
<1> SUFFICES ASSUME Inv, Load PROVE Inv'
  OBVIOUS
<1> DEFINE i == IF prep.partial THEN prep.index ELSE NextBlock(prep.index)
<1>1. /\ prep.at \in {"prep", "start"} /\ NextSlot(head) # tail /\ ~prep.loaded
      /\ UNCHANGED <<ring, head, tail, st, position, motor, timer, cycleStop, state, ready, job, restarted>>
  BY DEF Load, CanPrepare, Room, rest, interrupt, buffer, control
<1>2. \E moving, p : prep' = [prep EXCEPT !.loaded = TRUE, !.partial = FALSE,
                        !.index = i, !.speed = moving, !.exit = p.exit,
                        !.complete = p.complete,
                        !.at = IF prep.at = "start" THEN "startLoaded" ELSE "loaded"]
  BY DEF Load
<1>3. /\ DOMAIN prep' = DOMAIN EmptyPrep /\ prep'.index = i /\ prep'.loaded
      /\ prep'.at = IF prep.at = "start" THEN "startLoaded" ELSE "loaded"
  BY <1>2 DEF Inv, SlotInv, ShapeInv, EmptyPrep
<1>4. blocks' = IF prep.partial THEN blocks ELSE [blocks EXCEPT ![i] = Bresenham(Head(queue).move)]
  BY DEF Load
<1>5. i \in Slots
  BY NextBlockRange DEF Inv, SlotInv, ShapeInv
<1>6. ShapeInv' /\ StageInv'
  BY <1>1, <1>3, <1>4, <1>5 DEF Inv, SlotInv, ShapeInv, StageInv
<1>7. Waiting' = Waiting /\ Waiting \in Nat /\ Unpublished' = 1
      /\ Unpublished = IF prep.partial THEN 1 ELSE 0
  <2>1. Waiting' = Waiting
    BY <1>1 DEF Waiting
  <2>2. Waiting \in Nat
    BY WaitingRange DEF Waiting, Inv, SlotInv, ShapeInv
  <2>3. Unpublished' = 1 /\ Unpublished = IF prep.partial THEN 1 ELSE 0
    BY <1>1, <1>3 DEF Unpublished
  <2> QED
    BY <2>1, <2>2, <2>3
<1>8. OrderInv'
  <2> SUFFICES ASSUME NEW k \in 1 .. Waiting
               PROVE  Distance(i, ring[Slot(tail, k, N)].index) <= Waiting - k + 1
    BY <1>1, <1>3, <1>7 DEF OrderInv
  <2>1. ring[Slot(tail, k, N)].index \in Slots
    BY SlotRange DEF Waiting, Inv, SlotInv, ShapeInv
  <2>2. Distance(prep.index, ring[Slot(tail, k, N)].index) <= Waiting - k + Unpublished
    BY DEF Inv, SlotInv, OrderInv
  <2>3. CASE prep.partial
    BY <1>7, <2>2, <2>3
  <2>4. CASE ~prep.partial
    <3>1. /\ Distance(i, ring[Slot(tail, k, N)].index)
               <= Distance(prep.index, ring[Slot(tail, k, N)].index) + 1
          /\ Distance(prep.index, ring[Slot(tail, k, N)].index) \in Nat
          /\ Distance(i, ring[Slot(tail, k, N)].index) \in Nat
      BY <2>1, <2>4, <1>5, DistanceNext DEF Inv, SlotInv, ShapeInv
    <3> QED
      BY <1>7, <2>2, <2>4, <3>1
  <2> QED
    BY <2>3, <2>4
<1>9. TracedInv'
  <2>1. CASE prep.partial
    BY <1>1, <1>4, <2>1 DEF Inv, SlotInv, TracedInv
  <2>2. CASE ~prep.partial /\ st.segment
    <3>1. Slot(tail, 1, N) = tail /\ 1 \in 1 .. Waiting
      BY <2>2, WaitingGet, WaitingRange DEF Waiting, Inv, SlotInv, ShapeInv, TracedInv
    <3>2. st.index # i /\ st.index \in Slots
      BY <1>1, <2>2, <3>1, NextIsFree DEF Inv, SlotInv, ShapeInv, TracedInv
    <3>3. blocks'[st.index] = blocks[st.index]
      BY <1>4, <2>2, <3>2 DEF Inv, SlotInv, ShapeInv
    <3> QED
      BY <1>1, <3>3 DEF Inv, SlotInv, TracedInv
  <2>3. CASE ~st.segment
    BY <1>1, <2>3 DEF TracedInv
  <2> QED
    BY <2>1, <2>2, <2>3
<1> QED
  BY <1>1, <1>3, <1>6, <1>8, <1>9 DEF Inv, SlotInv, TimerInv, RestartInv, PulseInv, Starting, Running

LEMMA SegmentInv == Inv /\ Segment => Inv'
<1> SUFFICES ASSUME Inv, Segment PROVE Inv'
  OBVIOUS
<1>1. /\ prep.at \in {"prep", "start", "loaded", "startLoaded"}
      /\ prep.loaded /\ NextSlot(head) # tail
      /\ UNCHANGED <<blocks, tail, st, position, motor, timer, cycleStop, state, ready, job, restarted>>
  BY DEF Segment, CanPrepare, Room, interrupt, control, Inv, SlotInv, StageInv
<1>2. /\ DOMAIN prep' = DOMAIN EmptyPrep /\ prep'.index = prep.index /\ prep'.at = Back
      /\ prep'.loaded \/ prep'.partial \/ head' = NextSlot(head)
  <2>1. DOMAIN prep = DOMAIN EmptyPrep
    BY DEF Inv, SlotInv, ShapeInv
  <2>2. \/ prep' = Forced
        \/ prep' = [prep EXCEPT !.speed = TRUE, !.at = Back]
        \/ prep' = [prep EXCEPT !.loaded = FALSE, !.speed = TRUE, !.at = Back]
           /\ head' = NextSlot(head)
    BY DEF Segment, StopShort, CheckOut, Publish
  <2>3. /\ DOMAIN Forced = DOMAIN EmptyPrep /\ Forced.index = prep.index /\ Forced.at = Back
        /\ Forced.partial
    BY <1>1, <2>1 DEF Forced, Replanned, EmptyPrep
  <2> QED
    BY <1>1, <2>1, <2>2, <2>3 DEF EmptyPrep
<1>3. Back \in {"start", "prep"} /\ (Back = "start" => Starting)
  BY DEF Back, Starting
<1>4. CASE UNCHANGED <<ring, head>>
  <2>1. NextSlot(head) # head
    BY SegmentsAssumption DEF NextSlot, NextIndex, SegmentsAssumption, Inv, SlotInv, ShapeInv, N
  <2>2. SlotInv'
    BY <1>1, <1>2, <1>3, <1>4, <2>1, SlotKept DEF Inv
  <2> QED
    BY <1>1, <1>2, <1>3, <2>2 DEF Inv, TimerInv, RestartInv, PulseInv, Starting, Running
<1>5. CASE \E n, level : Publish(n, level)
  <2>1. PICK n, level : ring' = [ring EXCEPT ![head] = [n |-> Ticks(n, level),
                                                       index |-> prep.index, level |-> level]]
                        /\ head' = NextSlot(head)
    BY <1>5 DEF Publish
  <2>2. ring'[head].index = prep.index /\ \A j \in 0 .. N - 1 : j # head => ring'[j] = ring[j]
    BY <2>1 DEF Inv, SlotInv, ShapeInv
  <2>3. ShapeInv'
    BY <1>1, <1>2, <2>1, <2>2, NextSlotRange DEF Inv, SlotInv, ShapeInv
  <2>4. /\ Waiting' = Waiting + 1 /\ Slot(tail, Waiting + 1, N) = head
        /\ \A k \in 1 .. Waiting : Slot(tail, k, N) \in 0 .. N - 1 /\ Slot(tail, k, N) # head
        /\ Waiting \in Nat
    BY <1>1, <2>1, WaitingPut, WaitingRange DEF Waiting, Inv, SlotInv, ShapeInv
  <2>5. \A k \in 1 .. Waiting + 1 :
          Distance(prep.index, ring'[Slot(tail, k, N)].index) \in Nat
    <3> SUFFICES ASSUME NEW k \in 1 .. Waiting + 1
                 PROVE  Distance(prep.index, ring'[Slot(tail, k, N)].index) \in Nat
      OBVIOUS
    <3>1. Slot(tail, k, N) \in 0 .. N - 1
      BY <2>4 DEF Inv, SlotInv, ShapeInv
    <3>2. ring'[Slot(tail, k, N)].index \in Slots /\ prep.index \in Slots
      BY <2>3, <3>1 DEF Inv, SlotInv, ShapeInv
    <3> QED
      BY <3>2, DistanceNext
  <2>6. OrderInv'
    <3> SUFFICES ASSUME NEW k \in 1 .. Waiting + 1
                 PROVE  Distance(prep.index, ring'[Slot(tail, k, N)].index)
                          <= Waiting + 1 - k
      BY <1>1, <1>2, <2>4, <2>5 DEF OrderInv, Unpublished
    <3>1. CASE k = Waiting + 1
      BY <2>2, <2>4, <3>1, DistanceSelf DEF Inv, SlotInv, ShapeInv
    <3>2. CASE k \in 1 .. Waiting
      <4>1. ring'[Slot(tail, k, N)] = ring[Slot(tail, k, N)]
        BY <2>2, <2>4, <3>2
      <4>2. Distance(prep.index, ring[Slot(tail, k, N)].index) <= Waiting - k + 1
        BY <1>1, <3>2 DEF Inv, SlotInv, OrderInv, Unpublished
      <4> QED
        BY <2>4, <4>1, <4>2
    <3> QED
      BY <2>4, <3>1, <3>2
  <2>7. TracedInv'
    <3>1. st.segment => ring'[tail] = ring[tail] /\ head' # tail
      BY <1>1, <2>1, <2>2 DEF Inv, SlotInv, ShapeInv, TracedInv
    <3> QED
      BY <1>1, <3>1 DEF Inv, SlotInv, TracedInv
  <2>8. StageInv'
    BY <1>2, <1>3 DEF StageInv
  <2> QED
    BY <1>1, <1>2, <1>3, <2>3, <2>6, <2>7, <2>8
       DEF Inv, SlotInv, TimerInv, RestartInv, PulseInv, Starting, Running
<1> QED
  BY <1>4, <1>5 DEF Segment, StopShort

LEMMA WakeUpInv == Inv /\ WakeUp => Inv'
<1> SUFFICES ASSUME Inv, WakeUp PROVE Inv'
  OBVIOUS
<1>1. /\ prep.at = "start" /\ prep' = [prep EXCEPT !.at = "main"]
      /\ timer' = TRUE /\ st' = [st EXCEPT !.dir = {}, !.out = {}]
      /\ UNCHANGED <<blocks, ring, head, tail, position, motor, cycleStop, state, ready, job, restarted>>
  BY DEF WakeUp, buffer, control
<1>2. state = "CYCLE" /\ ~timer /\ ~cycleStop /\ ~st.segment /\ (~restarted => position = motor)
  BY <1>1 DEF Inv, TimerInv, RestartInv, PulseInv, Starting
<1>3. /\ DOMAIN prep' = DOMAIN EmptyPrep /\ prep'.index = prep.index /\ prep'.at = "main"
      /\ prep'.loaded = prep.loaded /\ prep'.partial = prep.partial
  BY <1>1 DEF Inv, SlotInv, ShapeInv, EmptyPrep
<1>4. /\ DOMAIN st' = DOMAIN EmptyStepper /\ st'.out = {} /\ ~st'.segment
  BY <1>1, <1>2 DEF Inv, SlotInv, ShapeInv, EmptyStepper
<1>5. ShapeInv' /\ StageInv' /\ TracedInv'
  BY <1>1, <1>3, <1>4 DEF Inv, SlotInv, ShapeInv, StageInv, TracedInv
<1>6. OrderInv'
  <2>1. Waiting' = Waiting /\ Unpublished' = Unpublished
    BY <1>1, <1>3 DEF Waiting, Unpublished
  <2> QED
    BY <1>1, <1>3, <2>1 DEF Inv, SlotInv, OrderInv
<1>7. PulseInv'
  BY <1>1, <1>2, <1>4, MovedRange DEF Inv, SlotInv, ShapeInv, PulseInv
<1> QED
  BY <1>1, <1>2, <1>3, <1>5, <1>6, <1>7 DEF Inv, SlotInv, TimerInv, RestartInv, Starting, Running

(* The state of the tracer after one tick, and the segment it was on.      *)
LEMMA LoadedFacts ==
  ASSUME Inv, timer, st.segment \/ head # tail
  PROVE  /\ head # tail
         /\ DOMAIN LoadedStepper = DOMAIN EmptyStepper
         /\ LoadedStepper.index = ring[tail].index
         /\ LoadedStepper.dir = blocks[ring[tail].index].dir
<1>1. head # tail
  BY DEF Inv, SlotInv, TracedInv
<1>2. CASE st.segment
  BY <1>1, <1>2 DEF LoadedStepper, Inv, SlotInv, TracedInv, ShapeInv
<1>3. CASE ~st.segment
  BY <1>1, <1>3 DEF LoadedStepper, Inv, SlotInv, ShapeInv, EmptyStepper
<1> QED
  BY <1>1, <1>2, <1>3

LEMMA TickInv == Inv /\ Tick => Inv'
<1> SUFFICES ASSUME Inv, Tick PROVE Inv'
  OBVIOUS
<1>1. /\ timer /\ motor' = Moved(motor, st.out, st.dir)
      /\ UNCHANGED <<prep, blocks, ring, head, state, ready, job, restarted>>
  BY DEF Tick, main, control
<1>4. (~restarted => motor' = position) /\ motor' \in [Axis -> Int]
  BY <1>1, MovedRange DEF Inv, PulseInv, SlotInv, ShapeInv
<1>2. CASE st.segment \/ head # tail
  <2> DEFINE s == LoadedStepper
             out == Stepped(s)
             count == CountDown(s)
             counter == [a \in Axis |-> IF a \in out THEN Sum(s)[a] - blocks[s.index].events
                                        ELSE Sum(s)[a]]
  <2>1. /\ st' = [s EXCEPT !.counter = counter, !.out = out, !.count = count,
                           !.segment = (count # 0)]
        /\ position' = Moved(position, out, blocks[s.index].dir)
        /\ tail' = IF count = 0 THEN NextSlot(tail) ELSE tail
        /\ UNCHANGED <<timer, cycleStop>>
    BY <1>2 DEF Tick, Trace
  <2> HIDE DEF counter
  <2>2. /\ head # tail /\ DOMAIN s = DOMAIN EmptyStepper
        /\ s.index = ring[tail].index /\ s.dir = blocks[s.index].dir
    BY <1>1, <1>2, LoadedFacts
  <2>3. /\ DOMAIN st' = DOMAIN EmptyStepper /\ st'.out = out /\ st'.dir = blocks[s.index].dir
        /\ st'.index = s.index /\ st'.segment = (count # 0)
    BY <2>1, <2>2 DEF EmptyStepper
  <2> HIDE DEF s, out, count
  <2>4. PulseInv'
    BY <1>1, <1>4, <2>1, <2>3 DEF PulseInv
  <2>5. position' \in [Axis -> Int]
    BY <2>1, MovedRange DEF Inv, SlotInv, ShapeInv
  <2>6. ShapeInv'
    BY <1>1, <1>4, <2>1, <2>3, <2>5, NextSlotRange DEF Inv, SlotInv, ShapeInv
  <2>7. TimerInv' /\ RestartInv'
    BY <1>1, <2>1 DEF Inv, TimerInv, RestartInv, Starting, Running
  <2>8. CASE count # 0
    <3>1. StageInv' /\ OrderInv'
      BY <1>1, <2>1, <2>8 DEF Inv, SlotInv, StageInv, OrderInv, Waiting, Unpublished
    <3>2. TracedInv'
      BY <1>1, <2>1, <2>2, <2>3, <2>8 DEF TracedInv
    <3> QED
      BY <2>4, <2>6, <2>7, <3>1, <3>2 DEF Inv, SlotInv
  <2>9. CASE count = 0
    <3>1. tail' = NextSlot(tail) /\ TracedInv'
      BY <2>1, <2>3, <2>9 DEF TracedInv
    <3>2. /\ Waiting' = Waiting - 1 /\ Waiting \in 1 .. N - 1 /\ tail' \in 0 .. N - 1
          /\ \A k \in 1 .. Waiting - 1 : Slot(tail', k, N) = Slot(tail, k + 1, N)
      <4>1. head \in 0 .. N - 1 /\ tail \in 0 .. N - 1
        BY DEF Inv, SlotInv, ShapeInv
      <4>2. /\ Count(head, NextSlot(tail), N) = Count(head, tail, N) - 1
            /\ \A k \in 1 .. Count(head, tail, N) - 1 :
                  Slot(NextSlot(tail), k, N) = Slot(tail, k + 1, N)
        BY <2>2, <4>1, WaitingGet
      <4>3. Waiting' = Count(head, NextSlot(tail), N)
        BY <1>1, <3>1 DEF Waiting
      <4>4. Count(head, tail, N) \in 0 .. N - 1 /\ Count(head, tail, N) # 0
        BY <2>2, <4>1, WaitingRange
      <4>5. tail' \in 0 .. N - 1
        BY <3>1, <4>1, NextSlotRange
      <4> QED
        BY <3>1, <4>2, <4>3, <4>4, <4>5 DEF Waiting
    <3>3. StageInv'
      <4>1. head \in 0 .. N - 1 /\ tail \in 0 .. N - 1
        BY DEF Inv, SlotInv, ShapeInv
      <4>2. Count(head, tail', N) = Waiting - 1
        BY <1>1, <3>2 DEF Waiting
      <4>3. Count(head, tail', N) <= N - 2
        BY <3>2, <4>2, SegmentsAssumption DEF N, SegmentsAssumption
      <4>4. NextSlot(head) # tail'
        BY <3>2, <4>1, <4>3, WaitingRange
      <4> QED
        BY <1>1, <4>4 DEF Inv, SlotInv, StageInv
    <3>4. OrderInv'
      <4> SUFFICES ASSUME NEW k \in 1 .. Waiting - 1
                   PROVE  Distance(prep.index, ring[Slot(tail', k, N)].index)
                            <= Waiting - 1 - k + Unpublished
        BY <1>1, <3>2 DEF OrderInv, Unpublished
      <4>1. k + 1 \in 1 .. Waiting /\ Slot(tail', k, N) = Slot(tail, k + 1, N)
        BY <3>2
      <4>2. Distance(prep.index, ring[Slot(tail, k + 1, N)].index)
              <= Waiting - (k + 1) + Unpublished
        BY <4>1 DEF Inv, SlotInv, OrderInv
      <4> QED
        BY <3>2, <4>1, <4>2 DEF Unpublished
    <3> QED
      BY <2>4, <2>6, <2>7, <3>1, <3>3, <3>4 DEF Inv, SlotInv
  <2> QED
    BY <2>8, <2>9
<1>3. CASE ~(st.segment \/ head # tail)
  <2>1. timer' = FALSE /\ cycleStop' = TRUE /\ UNCHANGED <<st, position, tail>>
    BY <1>3 DEF Tick
  <2>2. SlotInv'
    <3>1. ShapeInv' /\ StageInv' /\ TracedInv'
      BY <1>1, <1>4, <2>1 DEF Inv, SlotInv, ShapeInv, StageInv, TracedInv
    <3>2. OrderInv'
      BY <1>1, <2>1 DEF Inv, SlotInv, OrderInv, Waiting, Unpublished
    <3> QED
      BY <3>1, <3>2 DEF SlotInv
  <2> QED
    BY <1>1, <1>3, <1>4, <2>1, <2>2 DEF Inv, TimerInv, RestartInv, PulseInv, Starting, Running
<1> QED
  BY <1>2, <1>3

LEMMA StutterInv == Inv /\ (ProbeDone \/ UNCHANGED vars) => Inv'
<1> SUFFICES ASSUME Inv, ProbeDone \/ UNCHANGED vars PROVE Inv'
  OBVIOUS
<1>1. /\ UNCHANGED <<prep, blocks, ring, head, tail, st, position, motor, timer, cycleStop,
                     state, ready, restarted>>
      /\ (job' = job \/ state = "IDLE")
  BY DEF ProbeDone, vars, main, control, rest, interrupt, buffer
<1>2. ShapeInv' /\ StageInv' /\ TracedInv'
  BY <1>1 DEF Inv, SlotInv, ShapeInv, StageInv, TracedInv
<1>3. OrderInv'
  BY <1>1 DEF Inv, SlotInv, OrderInv, Waiting, Unpublished
<1> QED
  BY <1>1, <1>2, <1>3 DEF Inv, SlotInv, TimerInv, RestartInv, PulseInv, Starting, Running

-----------------------------------------------------------------------------
(* The invariant holds in every state.                                     *)
THEOREM InvTheorem == Spec => []Inv
<1>1. Inv /\ [Next]_vars => Inv'
  BY QueueInv, ProbeFinishInv, CycleStartInv, HoldInv, CycleStopInv, EnterLeaveInv,
     LoadInv, SegmentInv, WakeUpInv, TickInv, StutterInv DEF Next
<1> QED
  BY InvInit, <1>1, PTL DEF Spec

(* MotorsAreCounted holds in every state: with the timer off, the motors   *)
(* have received every step counted in sys.position, as long as no probing *)
(* motion has been started again by its last checkpoint.                   *)
THEOREM MotorsTheorem == Spec => []MotorsAreCounted
<1>1. Inv => MotorsAreCounted
  BY DEF Inv, PulseInv, MotorsAreCounted
<1> QED
  BY InvTheorem, <1>1, PTL

(* No step overwrites block data that a segment in the ring still needs.   *)
THEOREM SlotsTheorem == Spec => SlotsAreNotReused
<1> DEFINE Kept == \A i \in Slots : blocks'[i] # blocks[i] =>
                     \A k \in Pending : ring[k].index # i
<1>1. Inv /\ [Next]_vars => [Kept]_vars
  <2> SUFFICES ASSUME Inv, Next PROVE Kept
    BY DEF vars
  <2>1. CASE Load /\ ~prep.partial
    <3>1. /\ NextSlot(head) # tail /\ ~prep.loaded
          /\ blocks' = [blocks EXCEPT ![NextBlock(prep.index)] = Bresenham(Head(queue).move)]
      BY <2>1 DEF Load, CanPrepare, Room
    <3>2. \A i \in Slots : blocks'[i] # blocks[i] => i = NextBlock(prep.index)
      BY <3>1 DEF Inv, SlotInv, ShapeInv
    <3>3. \A k \in Pending : ring[k].index # NextBlock(prep.index)
      BY <2>1, <3>1, NextIsFree DEF Inv, Pending, Waiting, N
    <3> QED
      BY <3>2, <3>3
  <2>2. CASE ~(Load /\ ~prep.partial)
    <3>1. UNCHANGED blocks
      BY <2>2 DEF Next, Queue, Probe, BufferLine, ProbeDone, ProbeFinish, CycleStart, Hold, CycleStop, Enter, Leave, Load, Segment,
                  WakeUp, Tick, main
    <3> QED
      BY <3>1
  <2> QED
    BY <2>1, <2>2
<1> QED
  BY InvTheorem, <1>1, PTL DEF Spec, SlotsAreNotReused

-----------------------------------------------------------------------------
(* Types.                                                                  *)

PrepType ==
  [loaded : BOOLEAN, partial : BOOLEAN, index : Slots, exit : BOOLEAN, speed : BOOLEAN,
   complete : Nat, at : {"main", "prep", "start", "loaded", "startLoaded"}]
QueueType == [move : Moves, left : Nat \ {0}]
BlockType == [steps : [Axis -> Nat], events : Nat, dir : SUBSET Axis]
SegmentType == [n : Word, index : Slots, level : 0 .. MaxAmassLevel]

LEMMA ReplannedIs ==
  ASSUME NEW p \in PrepType
  PROVE  /\ Replanned(p) \in PrepType /\ ~Replanned(p).loaded
         /\ Replanned(p).partial = (p.loaded \/ p.partial)
         /\ Replanned(p).exit = p.exit /\ Replanned(p).speed = p.speed
         /\ Replanned(p).index = p.index /\ Replanned(p).at = p.at
  BY DEF Replanned, PrepType

(* The longest axis of a move has a step.                                  *)
LEMMA EventsRange ==
  ASSUME NEW v \in Moves
  PROVE  /\ Magnitude(v) \in [Axis -> Nat] /\ Events(v) \in Nat \ {0}
         /\ \A a \in Axis : Magnitude(v)[a] <= Events(v)
<1> DEFINE m == Magnitude(v)
           Above(a) == {b \in Axis : m[b] > m[a]}
           U == {Cardinality(Above(a)) : a \in Axis}
           S == {m[a] : a \in Axis}
<1>1. v \in [Axis -> Int] /\ IsFiniteSet(Axis) /\ \E a \in Axis : v[a] # 0
  BY SegmentsAssumption DEF SegmentsAssumption
<1>2. m \in [Axis -> Nat] /\ \E a \in Axis : m[a] # 0
  BY <1>1 DEF Magnitude
<1> HIDE DEF m
<1>3. \A a \in Axis : IsFiniteSet(Above(a)) /\ Cardinality(Above(a)) \in Nat
  <2> SUFFICES ASSUME NEW a \in Axis
               PROVE  IsFiniteSet(Above(a)) /\ Cardinality(Above(a)) \in Nat
    OBVIOUS
  <2>1. Above(a) \in SUBSET Axis
    OBVIOUS
  <2> HIDE DEF Above
  <2> QED
    BY <1>1, <2>1, FS_Subset, FS_CardinalityType
<1>4. PICK a \in Axis : \A b \in Axis : ~(Cardinality(Above(b)) < Cardinality(Above(a)))
  <2>1. U \subseteq Nat /\ U # {}
    BY <1>2, <1>3
  <2>2. PICK x \in U : \A y \in U : <<y, x>> \notin OpToRel(<, Nat)
    BY <2>1, NatLessThanWellFounded, WFMin, Zenon
  <2>3. \A y \in U : ~(y < x)
    BY <2>1, <2>2, Zenon DEF OpToRel
  <2>4. PICK a \in Axis : x = Cardinality(Above(a))
    OBVIOUS
  <2>5. \A b \in Axis : Cardinality(Above(b)) \in U
    OBVIOUS
  <2> HIDE DEF U, Above
  <2> QED
    BY <2>3, <2>4, <2>5
<1>5. \A b \in Axis : m[b] <= m[a]
  <2> SUFFICES ASSUME NEW b \in Axis, ~(m[b] <= m[a]) PROVE FALSE
    OBVIOUS
  <2>1. Above(b) \in SUBSET Above(a) /\ b \in Above(a) /\ b \notin Above(b)
    BY <1>2
  <2> HIDE DEF Above
  <2>2. /\ Cardinality(Above(b)) <= Cardinality(Above(a))
        /\ Cardinality(Above(a)) = Cardinality(Above(b)) => Above(a) = Above(b)
    BY <1>3, <2>1, FS_Subset
  <2> QED
    BY <1>3, <1>4, <2>1, <2>2
<1>6. m[a] \in S /\ \A y \in S : m[a] >= y
  BY <1>2, <1>5
<1>7. Events(v) = CHOOSE x \in S : \A y \in S : x >= y
  BY DEF Events, Max, m
<1>8. Events(v) \in S /\ \A y \in S : Events(v) >= y
  <2> HIDE DEF S
  <2> QED
    BY <1>6, <1>7, Zenon
<1>9. Events(v) \in Nat /\ \A b \in Axis : m[b] <= Events(v)
  <2>1. S \subseteq Nat
    BY <1>2
  <2>2. \A b \in Axis : m[b] \in S
    OBVIOUS
  <2> HIDE DEF S
  <2> QED
    BY <1>2, <1>8, <2>1, <2>2
<1> QED
  BY <1>2, <1>9 DEF m

LEMMA BresenhamType ==
  ASSUME NEW v \in Moves
  PROVE  Bresenham(v) \in BlockType
<1>1. Scale \in Nat
  BY PowersOfTwo, SegmentsAssumption DEF SegmentsAssumption, Scale
<1>2. \A a \in Axis : Magnitude(v)[a] * Scale \in Nat
  BY <1>1, EventsRange
<1>3. Events(v) * Scale \in Nat
  BY <1>1, EventsRange
<1> QED
  BY <1>2, <1>3 DEF Bresenham, BlockType

LEMMA QueueFacts ==
  ASSUME NEW q \in Seq(QueueType)
  PROVE  /\ Len(q) \in Nat /\ (q # <<>> <=> Len(q) >= 1)
         /\ q # <<>> => /\ Head(q).move \in Moves /\ Head(q).left \in Nat \ {0}
                        /\ Tail(q) \in Seq(QueueType) /\ Len(Tail(q)) = Len(q) - 1
<1>1. Len(q) \in Nat /\ (q # <<>> <=> Len(q) >= 1)
  OBVIOUS
<1>2. q # <<>> => /\ Head(q) \in QueueType
                  /\ Tail(q) \in Seq(QueueType) /\ Len(Tail(q)) = Len(q) - 1
  OBVIOUS
<1>3. \A b \in QueueType : b.move \in Moves /\ b.left \in Nat \ {0}
  BY DEF QueueType
<1> QED
  BY <1>1, <1>2, <1>3

LEMMA QueueAppend ==
  ASSUME NEW q \in Seq(QueueType), NEW b \in QueueType, NEW r, r = Append(q, b)
  PROVE  /\ r \in Seq(QueueType) /\ Len(r) = Len(q) + 1
         /\ q # <<>> => Head(r) = Head(q)
  OBVIOUS

LEMMA LeftChanged ==
  ASSUME NEW q \in Seq(QueueType), q # <<>>, NEW l \in Nat \ {0},
         NEW r, r = [q EXCEPT ![1].left = l]
  PROVE  r \in Seq(QueueType) /\ Len(r) = Len(q) /\ Head(r).left = l
<1>1. Len(q) \in Nat /\ 1 \in 1 .. Len(q) /\ q \in [1 .. Len(q) -> QueueType]
  OBVIOUS
<1>2. [q[1] EXCEPT !.left = l] \in QueueType /\ [q[1] EXCEPT !.left = l].left = l
  BY <1>1 DEF QueueType
<1>3. r \in [1 .. Len(q) -> QueueType] /\ r[1] = [q[1] EXCEPT !.left = l]
  BY <1>1, <1>2
<1>4. r \in Seq(QueueType) /\ Len(r) = Len(q)
  BY <1>1, <1>3
<1>5. Head(r) = r[1]
  BY <1>1, <1>4
<1> QED
  BY <1>2, <1>3, <1>4, <1>5

(* Whole steps of half steps.                                              *)
LEMMA StepsFacts ==
  ASSUME NEW l \in Nat \ {0}, NEW now \in 0 .. l
  PROVE  /\ Steps(l) - Steps(now) \in Nat
         /\ Steps(l) - Steps(now) <= l - now
         /\ l - now >= MinSegment \/ now = 0 => Steps(l) - Steps(now) > 0
         /\ now > 0 \/ Steps(l) - Steps(now) = 0 => 2 * Steps(now) \in Nat \ {0}
  BY DEF Steps, MinSegment

LEMMA Below ==
  ASSUME NEW m \in Nat, NEW x
  PROVE  x \in 0 .. m - 1 <=> x \in Nat /\ x < m
  OBVIOUS

LEMMA WordSizeRange == WordSize \in Nat /\ WordSize > 0
<1> DEFINE g == Factor(MaxAmassLevel)
<1>1. /\ MaxSegment \in Nat /\ MaxSegment >= 3 /\ MaxSegment * g < WordSize /\ WordSize \in Nat
      /\ g \in Nat /\ g >= 1
  BY PowersOfTwo, SegmentFits, SegmentsAssumption DEF SegmentFits, SegmentsAssumption
<1> HIDE DEF g
<1>2. MaxSegment * g >= 0
  BY <1>1
<1> QED
  BY <1>1, <1>2

LEMMA WordIs ==
  ASSUME NEW x
  PROVE  x \in Word <=> x \in Nat /\ x < WordSize
  BY WordSizeRange, Below DEF Word

LEMMA WordTypes == 0 \in Word /\ Word \subseteq Nat
  BY WordIs, WordSizeRange

LEMMA CountDownType ==
  ASSUME NEW s, s.count \in Word
  PROVE  CountDown(s) \in Word
<1>1. s.count \in Nat
  BY WordIs
<1>2. CountDown(s) \in Nat /\ CountDown(s) < WordSize
  BY <1>1, WordSizeRange DEF CountDown
<1> QED
  BY <1>2, WordIs

LEMMA Fits ==
  ASSUME NEW x \in Nat, x < WordSize
  PROVE  x % WordSize = x
  BY WordSizeRange

LEMMA TicksRange ==
  ASSUME NEW n \in 0 .. MaxSegment, NEW level \in 0 .. MaxAmassLevel
  PROVE  /\ Ticks(n, level) \in Word
         /\ n > 0 => Ticks(n, level) > 0
<1> DEFINE f == Factor(level)
           g == Factor(MaxAmassLevel)
           x == n * f
<1>1. /\ MaxSegment \in Nat /\ MaxSegment * g < WordSize
      /\ f \in Nat /\ f >= 1 /\ f <= g /\ g \in Nat /\ n \in Nat /\ n <= MaxSegment
  BY PowersOfTwo, SegmentFits, SegmentsAssumption DEF SegmentFits, SegmentsAssumption
<1>2. Ticks(n, level) = x % WordSize
  BY DEF Ticks
<1> HIDE DEF f, g
<1>3. n * f <= MaxSegment * f /\ MaxSegment * f <= MaxSegment * g
  BY <1>1
<1>4. x \in Nat /\ (n > 0 => x > 0) /\ x < WordSize
  BY <1>1, <1>3, WordSizeRange
<1> HIDE DEF x
<1>5. x % WordSize = x
  BY <1>4, Fits
<1> QED
  BY <1>2, <1>4, <1>5, WordIs

-----------------------------------------------------------------------------
(* TypeOK in parts, and what keeps the first block in hand: it is in the   *)
(* queue while it is loaded or to be reloaded, a block that is left at     *)
(* speed has a successor, and a forced stop within it is within what is    *)
(* left of it.                                                             *)
StepperType ==
  [segment : BOOLEAN, index : Slots, counter : [Axis -> Nat], steps : [Axis -> Nat],
   count : Word, dir : SUBSET Axis, out : SUBSET Axis]
PathOK ==
  /\ planned \in [Axis -> Int] /\ position \in [Axis -> Int] /\ motor \in [Axis -> Int]
  /\ made \in 0 .. MaxMoves
  /\ state \in {"IDLE", "CYCLE", "HOLD", "MOTION_CANCEL"}
  /\ job \in {"lines", "begin", "probe", "finish"} /\ cancel \in BOOLEAN
  /\ ready \in BOOLEAN /\ cycleStop \in BOOLEAN /\ timer \in BOOLEAN
  /\ dry \in BOOLEAN /\ starved \in BOOLEAN /\ restarted \in BOOLEAN
BufferOK ==
  /\ blocks \in [Slots -> BlockType]
  /\ ring \in [0 .. N - 1 -> SegmentType] /\ head \in 0 .. N - 1 /\ tail \in 0 .. N - 1
QueueOK == queue \in Seq(QueueType)
PrepOK == prep \in PrepType
StepperOK == st \in StepperType

FrontInv ==
  /\ Len(queue) >= Unpublished
  /\ prep.exit => Len(queue) > Unpublished
  /\ ~(prep.loaded /\ prep.partial)
  /\ prep.loaded => prep.complete <= Head(queue).left

Typed == PathOK /\ BufferOK /\ QueueOK /\ PrepOK /\ StepperOK

LEMMA TypeIs == Typed => TypeOK
<1> SUFFICES ASSUME Typed PROVE TypeOK
  OBVIOUS
<1>1. queue \in Seq([move : Moves, left : Nat \ {0}])
  BY DEF Typed, QueueOK, QueueType
<1>2. /\ planned \in [Axis -> Int] /\ position \in [Axis -> Int] /\ motor \in [Axis -> Int]
      /\ made \in 0 .. MaxMoves
      /\ state \in {"IDLE", "CYCLE", "HOLD", "MOTION_CANCEL"}
      /\ job \in {"lines", "begin", "probe", "finish"} /\ cancel \in BOOLEAN
      /\ ready \in BOOLEAN /\ cycleStop \in BOOLEAN /\ timer \in BOOLEAN
      /\ dry \in BOOLEAN /\ starved \in BOOLEAN /\ restarted \in BOOLEAN
  BY DEF Typed, PathOK
<1>3. prep \in [loaded : BOOLEAN, partial : BOOLEAN, index : Slots, exit : BOOLEAN,
                speed : BOOLEAN, complete : Nat,
                at : {"main", "prep", "start", "loaded", "startLoaded"}]
  BY DEF Typed, PrepOK, PrepType
<1>4. blocks \in [Slots -> [steps : [Axis -> Nat], events : Nat, dir : SUBSET Axis]]
  BY DEF Typed, BufferOK, BlockType
<1>5. ring \in [0 .. SegmentBufferSize - 1 ->
                  [n : Word, index : Slots, level : 0 .. MaxAmassLevel]]
      /\ head \in 0 .. SegmentBufferSize - 1 /\ tail \in 0 .. SegmentBufferSize - 1
  BY DEF Typed, BufferOK, SegmentType, N
<1>6. st \in [segment : BOOLEAN, index : Slots, counter : [Axis -> Nat],
              steps : [Axis -> Nat], count : Word, dir : SUBSET Axis, out : SUBSET Axis]
  BY DEF Typed, StepperOK, StepperType
<1>7. head \in DOMAIN ring /\ tail \in DOMAIN ring
  BY <1>5
<1> QED
  BY <1>1, <1>2, <1>3, <1>4, <1>5, <1>6, <1>7, Zenon DEF TypeOK

Fine == Typed /\ FrontInv

LEMMA FineInit == Init => Fine
<1> SUFFICES ASSUME Init PROVE Fine
  OBVIOUS
<1>1. 0 \in 0 .. N - 1 /\ 0 \in Slots /\ 0 \in 0 .. MaxAmassLevel /\ 0 \in 0 .. MaxMoves
  BY SegmentsAssumption DEF N, Slots, SegmentsAssumption
<1>2. Zero \in [Axis -> Int] /\ Zero \in [Axis -> Nat]
  BY DEF Zero
<1>3. EmptyBlock \in BlockType /\ EmptySegment \in SegmentType /\ EmptyStepper \in StepperType
      /\ EmptyPrep \in PrepType
  BY <1>1, <1>2, WordTypes DEF EmptyBlock, BlockType, EmptySegment, SegmentType, EmptyStepper,
                    StepperType, EmptyPrep, PrepType
<1>4. QueueOK /\ PrepOK /\ StepperOK
  BY <1>3 DEF Init, QueueOK, PrepOK, StepperOK
<1>5. PathOK
  BY <1>1, <1>2 DEF Init, PathOK
<1>6. BufferOK
  BY <1>1, <1>3 DEF Init, BufferOK, N
<1>7. FrontInv
  BY DEF Init, FrontInv, Unpublished, EmptyPrep
<1> QED
  BY <1>4, <1>5, <1>6, <1>7 DEF Fine, Typed

LEMMA QueueFine == Fine /\ (Queue \/ Probe) => Fine'
<1> SUFFICES ASSUME Fine, Queue \/ Probe PROVE Fine'
  OBVIOUS
<1>1. PICK v \in Moves, replan \in BOOLEAN :
        /\ queue' = Append(queue, [move |-> v, left |-> 2 * Events(v)])
        /\ planned' = [a \in Axis |-> planned[a] + v[a]]
        /\ prep' = IF replan THEN Replanned(prep) ELSE prep
  BY DEF Queue, Probe, BufferLine
<1> DEFINE b == [move |-> v, left |-> 2 * Events(v)]
<1>2. v \in [Axis -> Int] /\ b \in QueueType
  BY SegmentsAssumption, EventsRange DEF SegmentsAssumption, QueueType
<1> HIDE DEF b
<1>3. /\ queue' \in Seq(QueueType) /\ Len(queue') = Len(queue) + 1
      /\ queue # <<>> => Head(queue') = Head(queue)
  BY <1>1, <1>2, QueueAppend DEF Fine, Typed, QueueOK, b
<1>4. /\ prep' \in PrepType /\ prep'.exit = prep.exit
      /\ (prep'.loaded \/ prep'.partial) = (prep.loaded \/ prep.partial)
      /\ ~(prep'.loaded /\ prep'.partial)
      /\ prep'.loaded => prep.loaded /\ prep'.complete = prep.complete
  BY <1>1, ReplannedIs DEF Fine, Typed, PrepOK, FrontInv, PrepType
<1>5. FrontInv'
  <2>1. Len(queue) \in Nat /\ (queue # <<>> <=> Len(queue) >= 1)
    BY QueueFacts DEF Fine, Typed, QueueOK
  <2>2. Unpublished' = Unpublished /\ Unpublished \in {0, 1} /\ (prep.loaded => Unpublished = 1)
    BY <1>4 DEF Unpublished
  <2> HIDE DEF Unpublished
  <2>3. prep'.loaded => prep'.complete <= Head(queue').left
    BY <1>3, <1>4, <2>1, <2>2 DEF Fine, FrontInv
  <2> QED
    BY <1>3, <1>4, <2>1, <2>2, <2>3 DEF Fine, FrontInv
<1>6. PathOK'
  <2>1. planned' \in [Axis -> Int]
    BY <1>1, <1>2 DEF Fine, Typed, PathOK
  <2>2. made' \in 0 .. MaxMoves
    BY SegmentsAssumption DEF Queue, Probe, BufferLine, Fine, Typed, PathOK, SegmentsAssumption
  <2> QED
    BY <2>1, <2>2 DEF Queue, Probe, BufferLine, rest, interrupt, Fine, Typed, PathOK
<1>7. BufferOK' /\ StepperOK'
  BY DEF Queue, Probe, BufferLine, rest, interrupt, buffer, Fine, Typed, BufferOK, StepperOK
<1> QED
  BY <1>3, <1>4, <1>5, <1>6, <1>7 DEF Fine, Typed, QueueOK, PrepOK

(* Steps that leave the queue and what is in hand alone.                   *)
LEMMA FrontKept ==
  ASSUME Fine, UNCHANGED queue, prep' \in PrepType,
         (prep'.loaded \/ prep'.partial) = (prep.loaded \/ prep.partial),
         prep'.exit = prep.exit, ~(prep'.loaded /\ prep'.partial),
         prep'.loaded => prep.loaded /\ prep'.complete = prep.complete
  PROVE  FrontInv' /\ QueueOK' /\ PrepOK'
<1>1. Unpublished' = Unpublished
  BY DEF Unpublished
<1> HIDE DEF Unpublished
<1> QED
  BY <1>1 DEF Fine, Typed, FrontInv, QueueOK, PrepOK

LEMMA CycleStartFine == Fine /\ CycleStart => Fine'
<1> SUFFICES ASSUME Fine, CycleStart PROVE Fine'
  OBVIOUS
<1>1. prep' = prep \/ prep' = [prep EXCEPT !.at = "start"]
  BY DEF CycleStart
<1>2. FrontInv' /\ QueueOK' /\ PrepOK'
  <2>1. prep' \in PrepType /\ prep'.loaded = prep.loaded /\ prep'.partial = prep.partial
        /\ prep'.exit = prep.exit /\ prep'.complete = prep.complete
    BY <1>1 DEF Fine, Typed, PrepOK, PrepType
  <2> QED
    BY <2>1, FrontKept DEF CycleStart, Fine, FrontInv
<1>3. PathOK'
  BY DEF CycleStart, Fine, Typed, PathOK
<1>4. BufferOK' /\ StepperOK'
  BY DEF CycleStart, buffer, Fine, Typed, BufferOK, StepperOK
<1> QED
  BY <1>2, <1>3, <1>4 DEF Fine, Typed

LEMMA HoldFine == Fine /\ Hold => Fine'
<1> SUFFICES ASSUME Fine, Hold PROVE Fine'
  OBVIOUS
<1>1. FrontInv' /\ QueueOK' /\ PrepOK'
  <2>1. prep' = prep \/ prep' = Replanned(prep)
    BY DEF Hold
  <2>2. /\ prep' \in PrepType /\ prep'.exit = prep.exit
        /\ (prep'.loaded \/ prep'.partial) = (prep.loaded \/ prep.partial)
        /\ ~(prep'.loaded /\ prep'.partial)
        /\ prep'.loaded => prep.loaded /\ prep'.complete = prep.complete
    BY <2>1, ReplannedIs DEF Fine, Typed, PrepOK, FrontInv, PrepType
  <2> QED
    BY <2>2, FrontKept DEF Hold
<1>2. PathOK'
  BY DEF Hold, rest, interrupt, Fine, Typed, PathOK
<1>3. BufferOK' /\ StepperOK'
  BY DEF Hold, rest, interrupt, buffer, Fine, Typed, BufferOK, StepperOK
<1> QED
  BY <1>1, <1>2, <1>3 DEF Fine, Typed

LEMMA CycleStopFine == Fine /\ CycleStop => Fine'
<1> SUFFICES ASSUME Fine, CycleStop PROVE Fine'
  OBVIOUS
<1>1. UNCHANGED <<queue, prep, st, head, tail>>
  BY DEF CycleStop, interrupt, buffer
<1>2. FrontInv' /\ QueueOK' /\ PrepOK'
  BY <1>1, FrontKept DEF Fine, Typed, PrepOK, FrontInv
<1>3. PathOK'
  BY DEF CycleStop, interrupt, Fine, Typed, PathOK
<1>4. BufferOK' /\ StepperOK'
  BY DEF CycleStop, interrupt, buffer, Fine, Typed, BufferOK, StepperOK
<1> QED
  BY <1>2, <1>3, <1>4 DEF Fine, Typed

LEMMA ProbeFinishFine == Fine /\ ProbeFinish => Fine'
<1> SUFFICES ASSUME Fine, ProbeFinish PROVE Fine'
  OBVIOUS
<1>1. /\ queue' = <<>> /\ planned' = position /\ prep' = EmptyPrep /\ st' = EmptyStepper
      /\ head' = 0 /\ tail' = 0 /\ timer' = FALSE
  BY DEF ProbeFinish
<1>2. 0 \in 0 .. N - 1 /\ 0 \in Slots
  BY SegmentsAssumption DEF N, Slots, SegmentsAssumption
<1>3. EmptyStepper \in StepperType /\ EmptyPrep \in PrepType
  BY <1>2, WordTypes DEF EmptyStepper, StepperType, EmptyPrep, PrepType, Zero
<1>4. QueueOK' /\ PrepOK' /\ StepperOK'
  BY <1>1, <1>3 DEF QueueOK, PrepOK, StepperOK
<1>5. FrontInv'
  BY <1>1 DEF FrontInv, Unpublished, EmptyPrep
<1>6. PathOK'
  BY <1>1 DEF ProbeFinish, Fine, Typed, PathOK
<1>7. BufferOK'
  BY <1>1, <1>2 DEF ProbeFinish, Fine, Typed, BufferOK
<1> QED
  BY <1>4, <1>5, <1>6, <1>7 DEF Fine, Typed

LEMMA EnterLeaveFine == Fine /\ (Enter \/ Leave) => Fine'
<1> SUFFICES ASSUME Fine, Enter \/ Leave PROVE Fine'
  OBVIOUS
<1>1. FrontInv' /\ QueueOK' /\ PrepOK'
  <2>1. prep' = [prep EXCEPT !.at = "prep"] \/ prep' = [prep EXCEPT !.at = "main"]
    BY DEF Enter, Leave
  <2>2. prep' \in PrepType /\ prep'.loaded = prep.loaded /\ prep'.partial = prep.partial
        /\ prep'.exit = prep.exit /\ prep'.complete = prep.complete
    BY <2>1 DEF Fine, Typed, PrepOK, PrepType
  <2> QED
    BY <2>2, FrontKept DEF Enter, Leave, Fine, FrontInv
<1>2. PathOK' /\ BufferOK' /\ StepperOK'
  BY DEF Enter, Leave, rest, interrupt, buffer, control, Fine, Typed, PathOK, BufferOK,
         StepperOK
<1> QED
  BY <1>1, <1>2 DEF Fine, Typed

LEMMA LoadFine == Inv /\ Fine /\ Load => Fine'
<1> SUFFICES ASSUME Inv, Fine, Load PROVE Fine'
  OBVIOUS
<1> DEFINE i == IF prep.partial THEN prep.index ELSE NextBlock(prep.index)
           moving == IF prep.partial THEN prep.speed
                     ELSE IF Holding THEN prep.exit ELSE TRUE
<1>1. /\ prep.at \in {"prep", "start"} /\ ~prep.loaded /\ queue # <<>>
      /\ UNCHANGED <<queue, planned, made, state, ready, control, rest>>
  BY DEF Load, CanPrepare
<1>2. PICK p \in Profiles(moving, Head(queue).left) :
        prep' = [prep EXCEPT !.loaded = TRUE, !.partial = FALSE,
                   !.index = i, !.speed = moving, !.exit = p.exit,
                   !.complete = p.complete,
                   !.at = IF prep.at = "start" THEN "startLoaded" ELSE "loaded"]
  BY DEF Load
<1>3. /\ Len(queue) \in Nat /\ Len(queue) >= 1 /\ Head(queue).move \in Moves
      /\ Head(queue).left \in Nat \ {0}
  BY <1>1, QueueFacts DEF Fine, Typed, QueueOK
<1>4. prep.index \in Slots /\ i \in Slots /\ moving \in BOOLEAN
  BY NextBlockRange DEF Fine, Typed, PrepOK, PrepType
<1>5. /\ p.complete \in Nat /\ p.complete <= Head(queue).left
      /\ p.exit \in BOOLEAN /\ (p.exit => Len(queue) > 1)
  <2> DEFINE left == Head(queue).left
             more == Len(queue) > 1
  <2>1. left \in Nat \ {0} /\ more \in BOOLEAN
    BY <1>3
  <2>2. \/ p \in [complete : {0}, exit : {FALSE, more}]
        \/ p = [complete |-> left, exit |-> FALSE]
        \/ p \in [complete : {0}, exit : {more}]
        \/ p \in [complete : 0 .. left - 1, exit : {FALSE}]
    <3> HIDE DEF moving
    <3>1. p \in Profiles(moving, left)
      BY <1>2
    <3> HIDE DEF left
    <3> QED
      BY <3>1 DEF Profiles, more
  <2> HIDE DEF left, more
  <2>3. p.complete \in Nat /\ p.complete <= left /\ p.exit \in BOOLEAN /\ (p.exit => more)
    <3>1. CASE p \in [complete : {0}, exit : {FALSE, more}]
      <4>1. p.complete = 0 /\ p.exit \in {FALSE, more}
        BY <3>1
      <4>2. p.exit \in BOOLEAN /\ (p.exit => more)
        BY <2>1, <4>1, Zenon
      <4> QED
        BY <2>1, <4>1, <4>2
    <3>2. CASE p = [complete |-> left, exit |-> FALSE]
      BY <2>1, <3>2
    <3>3. CASE p \in [complete : {0}, exit : {more}]
      <4>1. p.complete = 0 /\ p.exit = more
        BY <3>3
      <4> QED
        BY <2>1, <4>1
    <3>4. CASE p \in [complete : 0 .. left - 1, exit : {FALSE}]
      <4>1. p.complete \in 0 .. left - 1 /\ p.exit = FALSE
        BY <3>4
      <4>2. p.complete \in Nat /\ p.complete <= left
        BY <2>1, <4>1
      <4> QED
        BY <4>1, <4>2, Zenon
    <3> QED
      BY <2>2, <3>1, <3>2, <3>3, <3>4
  <2> QED
    BY <2>3 DEF left, more
<1> HIDE DEF moving
<1>6. prep' \in PrepType /\ prep'.loaded /\ ~prep'.partial /\ prep'.exit = p.exit
      /\ prep'.complete = p.complete
  <2> HIDE DEF i
  <2> QED
    BY <1>1, <1>2, <1>4, <1>5 DEF Fine, Typed, PrepOK, PrepType
<1>7. FrontInv'
  BY <1>1, <1>3, <1>5, <1>6 DEF FrontInv, Unpublished
<1>8. blocks' \in [Slots -> BlockType]
  <2>1. Bresenham(Head(queue).move) \in BlockType
    BY <1>3, BresenhamType
  <2>2. blocks' = blocks \/ blocks' = [blocks EXCEPT ![i] = Bresenham(Head(queue).move)]
    BY DEF Load
  <2> HIDE DEF i
  <2> QED
    BY <1>4, <2>1, <2>2 DEF Fine, Typed, BufferOK
<1> QED
  BY <1>1, <1>6, <1>7, <1>8
     DEF Fine, Typed, QueueOK, PrepOK, StepperOK, PathOK, BufferOK, rest, interrupt, buffer,
         control

(* What a segment does: the end of a hold within a step, or a segment of n *)
(* steps, after which the block is gone or something is left of it.        *)
LEMMA SegmentIs ==
  ASSUME Inv, Fine, Segment
  PROVE  LET left == Head(queue).left
         IN /\ prep.loaded /\ NextSlot(head) # tail /\ Len(queue) >= 1 /\ Len(queue) \in Nat
            /\ left \in Nat \ {0} /\ prep.complete \in Nat
            /\ \E now \in prep.complete .. left, level \in 0 .. MaxAmassLevel, n \in 0 .. MaxSegment :
                  /\ now > 0 => 2 * Steps(now) \in Nat \ {0}
                  /\ n = 0 => now > 0
                  /\ left - now >= MinSegment \/ now = prep.complete
                  /\ left - now >= MinSegment => n > 0
                  /\ IF n = 0 /\ Holding THEN StopShort(now)
                     ELSE Publish(n, level) /\ CheckOut(now)
<1> DEFINE left == Head(queue).left
<1>1. prep.loaded /\ NextSlot(head) # tail
  BY DEF Segment, CanPrepare, Room, Inv, SlotInv, StageInv
<1>2. Len(queue) \in Nat /\ Len(queue) >= 1 /\ left \in Nat \ {0}
  BY <1>1, QueueFacts DEF Fine, Typed, QueueOK, FrontInv, Unpublished
<1>3. prep.complete \in Nat
  BY DEF Fine, Typed, PrepOK, PrepType
<1>4. PICK now \in Ends(left), level \in 0 .. MaxAmassLevel :
        LET n == Steps(left) - Steps(now)
        IN IF n = 0 /\ Holding THEN level = 0 /\ StopShort(now)
           ELSE Publish(n, level) /\ CheckOut(now)
  BY DEF Segment
<1> DEFINE n == Steps(left) - Steps(now)
<1>5. /\ now \in prep.complete .. left /\ left - now <= MaxSegment
      /\ left - now >= MinSegment \/ now = prep.complete
  BY <1>4 DEF Ends
<1>6. IF n = 0 /\ Holding THEN StopShort(now) ELSE Publish(n, level) /\ CheckOut(now)
  BY <1>4
<1>7. now \in 0 .. left
  BY <1>2, <1>3, <1>5
<1> HIDE DEF left
<1>8. /\ n \in Nat /\ n <= left - now
      /\ left - now >= MinSegment \/ now = 0 => n > 0
      /\ now > 0 \/ n = 0 => 2 * Steps(now) \in Nat \ {0}
  BY <1>2, <1>7, StepsFacts
<1> HIDE DEF n
<1>9. n \in 0 .. MaxSegment
  BY <1>2, <1>5, <1>7, <1>8, SegmentFits DEF SegmentFits
<1>10. \E nw \in prep.complete .. left, lv \in 0 .. MaxAmassLevel, m \in 0 .. MaxSegment :
          /\ nw > 0 => 2 * Steps(nw) \in Nat \ {0}
          /\ m = 0 => nw > 0
          /\ left - nw >= MinSegment \/ nw = prep.complete
          /\ left - nw >= MinSegment => m > 0
          /\ IF m = 0 /\ Holding THEN StopShort(nw) ELSE Publish(m, lv) /\ CheckOut(nw)
  <2>1. n = 0 => now > 0
    BY <1>7, <1>8
  <2>2. now \in prep.complete .. left /\ level \in 0 .. MaxAmassLevel /\ n \in 0 .. MaxSegment
    BY <1>4, <1>5, <1>9
  <2> QED
    BY <1>5, <1>6, <1>8, <2>1, <2>2
<1> QED
  BY <1>1, <1>2, <1>3, <1>10, Zenon DEF left

LEMMA SegmentFine == Inv /\ Fine /\ Segment => Fine'
<1> SUFFICES ASSUME Inv, Fine, Segment PROVE Fine'
  OBVIOUS
<1> DEFINE left == Head(queue).left
<1>1. /\ prep.loaded /\ Len(queue) >= 1 /\ Len(queue) \in Nat
      /\ left \in Nat \ {0} /\ prep.complete \in Nat
  BY SegmentIs
<1>2. PICK now \in prep.complete .. left, level \in 0 .. MaxAmassLevel, n \in 0 .. MaxSegment :
        /\ now > 0 => 2 * Steps(now) \in Nat \ {0}
        /\ n = 0 => now > 0
        /\ IF n = 0 /\ Holding THEN StopShort(now) ELSE Publish(n, level) /\ CheckOut(now)
  BY SegmentIs
<1>3. now \in Nat /\ now >= prep.complete /\ now <= left
  BY <1>1, <1>2
<1> DEFINE whole == 2 * Steps(now)
<1>4. now > 0 => whole \in Nat \ {0}
  BY <1>2
<1>5. \/ prep' = Forced /\ now > 0 /\ queue' = [queue EXCEPT ![1].left = whole]
      \/ /\ prep' = [prep EXCEPT !.speed = TRUE, !.at = Back]
         /\ now > prep.complete /\ queue' = [queue EXCEPT ![1].left = now]
      \/ /\ prep' = [prep EXCEPT !.loaded = FALSE, !.speed = TRUE, !.at = Back]
         /\ queue' = Tail(queue)
  BY <1>2 DEF StopShort, CheckOut
<1> HIDE DEF whole
<1>6. prep \in PrepType /\ queue \in Seq(QueueType) /\ queue # <<>>
      /\ Back \in {"start", "prep"} /\ ~prep.partial
  BY <1>1 DEF Fine, FrontInv, Typed, PrepOK, QueueOK, Back
<1>7. /\ Forced \in PrepType /\ ~Forced.loaded /\ Forced.partial /\ Forced.exit = prep.exit
  <2>1. Replanned(prep) \in PrepType /\ ~Replanned(prep).loaded /\ Replanned(prep).partial
        /\ Replanned(prep).exit = prep.exit
    BY <1>1, <1>6, ReplannedIs
  <2> QED
    BY <1>6, <2>1 DEF Forced, PrepType
<1>8. Unpublished = 1 /\ Len(queue) >= 1 /\ (prep.exit => Len(queue) > 1)
  BY <1>1 DEF Fine, FrontInv, Unpublished
<1>9. PrepOK' /\ QueueOK' /\ FrontInv'
  <2>1. CASE prep' = Forced /\ now > 0 /\ queue' = [queue EXCEPT ![1].left = whole]
    <3>1. queue' \in Seq(QueueType) /\ Len(queue') = Len(queue)
      BY <1>4, <1>6, <2>1, LeftChanged
    <3>2. Unpublished' = 1
      BY <1>7, <2>1 DEF Unpublished
    <3> QED
      BY <1>7, <1>8, <2>1, <3>1, <3>2 DEF PrepOK, QueueOK, FrontInv
  <2>2. CASE /\ prep' = [prep EXCEPT !.speed = TRUE, !.at = Back]
             /\ now > prep.complete /\ queue' = [queue EXCEPT ![1].left = now]
    <3>1. queue' \in Seq(QueueType) /\ Len(queue') = Len(queue) /\ Head(queue').left = now
      BY <1>1, <1>3, <1>6, <2>2, LeftChanged
    <3>2. /\ prep' \in PrepType /\ prep'.loaded /\ ~prep'.partial /\ prep'.exit = prep.exit
          /\ prep'.complete = prep.complete
      BY <1>1, <1>6, <2>2 DEF PrepType
    <3>3. Unpublished' = 1
      BY <3>2 DEF Unpublished
    <3> QED
      BY <1>3, <1>8, <3>1, <3>2, <3>3 DEF PrepOK, QueueOK, FrontInv
  <2>3. CASE /\ prep' = [prep EXCEPT !.loaded = FALSE, !.speed = TRUE, !.at = Back]
             /\ queue' = Tail(queue)
    <3>1. queue' \in Seq(QueueType) /\ Len(queue') = Len(queue) - 1
      BY <1>6, <2>3, QueueFacts
    <3>2. /\ prep' \in PrepType /\ ~prep'.loaded /\ ~prep'.partial /\ prep'.exit = prep.exit
      BY <1>1, <1>6, <2>3 DEF PrepType
    <3>3. Unpublished' = 0
      BY <3>2 DEF Unpublished
    <3> QED
      BY <1>1, <1>8, <3>1, <3>2, <3>3 DEF PrepOK, QueueOK, FrontInv
  <2> QED
    BY <1>5, <2>1, <2>2, <2>3
<1>10. BufferOK'
  <2>1. blocks' = blocks /\ tail' = tail
    BY DEF Segment
  <2>2. CASE UNCHANGED <<ring, head>>
    BY <2>1, <2>2 DEF Fine, Typed, BufferOK
  <2>3. CASE Publish(n, level)
    <3> DEFINE s == [n |-> Ticks(n, level), index |-> prep.index, level |-> level]
    <3>1. s \in SegmentType
      BY <1>2, <1>6, TicksRange DEF SegmentType, PrepType
    <3>2. ring' = [ring EXCEPT ![head] = s] /\ head' = NextSlot(head)
      BY <2>3 DEF Publish
    <3> HIDE DEF s
    <3> QED
      BY <2>1, <3>1, <3>2, NextSlotRange DEF Fine, Typed, BufferOK
  <2> QED
    BY <1>2, <2>2, <2>3 DEF StopShort
<1>11. PathOK' /\ StepperOK'
  BY DEF Segment, interrupt, control, Fine, Typed, PathOK, StepperOK
<1> QED
  BY <1>9, <1>10, <1>11 DEF Fine, Typed

LEMMA WakeUpFine == Fine /\ WakeUp => Fine'
<1> SUFFICES ASSUME Fine, WakeUp PROVE Fine'
  OBVIOUS
<1>1. FrontInv' /\ QueueOK' /\ PrepOK'
  <2>1. prep' = [prep EXCEPT !.at = "main"]
    BY DEF WakeUp
  <2>2. prep' \in PrepType /\ prep'.loaded = prep.loaded /\ prep'.partial = prep.partial
        /\ prep'.exit = prep.exit /\ prep'.complete = prep.complete
    BY <2>1 DEF Fine, Typed, PrepOK, PrepType
  <2> QED
    BY <2>2, FrontKept DEF WakeUp, Fine, FrontInv
<1>2. StepperOK'
  BY DEF WakeUp, Fine, Typed, StepperOK, StepperType
<1>3. PathOK' /\ BufferOK'
  BY DEF WakeUp, buffer, control, Fine, Typed, PathOK, BufferOK
<1> QED
  BY <1>1, <1>2, <1>3 DEF Fine, Typed

LEMMA Quotient ==
  ASSUME NEW x \in Nat, NEW y \in Nat, y >= 1
  PROVE  x \div y \in Nat
  OBVIOUS

LEMMA PoppedType ==
  ASSUME Fine
  PROVE  LoadedStepper \in StepperType
<1>1. st \in StepperType /\ blocks \in [Slots -> BlockType] /\ ring \in [0 .. N - 1 -> SegmentType]
      /\ tail \in 0 .. N - 1
  BY DEF Fine, Typed, BufferOK, StepperOK
<1>2. CASE st.segment
  BY <1>1, <1>2 DEF LoadedStepper
<1>3. CASE ~st.segment
  <2> DEFINE g == ring[tail]
             d == blocks[g.index]
             steps == [a \in Axis |-> d.steps[a] \div Factor(g.level)]
             fresh == [a \in Axis |-> d.events \div 2]
  <2>1. g \in SegmentType
    BY <1>1
  <2>2. g.index \in Slots /\ g.n \in Word /\ g.level \in 0 .. MaxAmassLevel
    BY <2>1 DEF SegmentType
  <2> HIDE DEF g
  <2>3. d \in BlockType
    BY <1>1, <2>2
  <2> HIDE DEF d
  <2>4. d.steps \in [Axis -> Nat] /\ d.events \in Nat /\ d.dir \in SUBSET Axis
    BY <2>3 DEF BlockType
  <2>5. Factor(g.level) \in Nat /\ Factor(g.level) >= 1
    BY <2>2, PowersOfTwo
  <2>6. steps \in [Axis -> Nat]
    BY <2>4, <2>5, Quotient
  <2>7. fresh \in [Axis -> Nat]
    BY <2>4, Quotient
  <2>8. LoadedStepper = [st EXCEPT !.segment = TRUE, !.index = g.index, !.count = g.n,
                 !.counter = IF g.index = st.index THEN st.counter ELSE fresh,
                 !.dir = d.dir, !.steps = steps]
    BY <1>3, Zenon DEF LoadedStepper, g, d
  <2> HIDE DEF steps, fresh
  <2> QED
    BY <1>1, <2>2, <2>4, <2>6, <2>7, <2>8 DEF StepperType
<1> QED
  BY <1>2, <1>3

LEMMA TickFine == Inv /\ Fine /\ Tick => Fine'
<1> SUFFICES ASSUME Inv, Fine, Tick PROVE Fine'
  OBVIOUS
<1>1. FrontInv' /\ QueueOK' /\ PrepOK'
  BY FrontKept DEF Tick, main, control, Fine, Typed, PrepOK, FrontInv
<1>2. motor' \in [Axis -> Int]
  BY MovedRange DEF Tick, Fine, Typed, PathOK
<1>3. CASE st.segment \/ head # tail
  <2> DEFINE s == LoadedStepper
             b == blocks[s.index]
             counter == [a \in Axis |-> IF a \in Stepped(s) THEN Sum(s)[a] - b.events
                                        ELSE Sum(s)[a]]
  <2>1. /\ st' = [s EXCEPT !.counter = counter, !.out = Stepped(s), !.count = CountDown(s),
                           !.segment = (CountDown(s) # 0)]
        /\ position' = Moved(position, Stepped(s), blocks[s.index].dir)
        /\ tail' = IF CountDown(s) = 0 THEN NextSlot(tail) ELSE tail
        /\ UNCHANGED <<timer, cycleStop, dry, starved>>
    BY <1>3 DEF Tick, Trace
  <2>2. s \in StepperType
    BY PoppedType
  <2> HIDE DEF s
  <2>3. s.index \in Slots /\ s.counter \in [Axis -> Nat] /\ s.steps \in [Axis -> Nat]
        /\ s.count \in Word
    BY <2>2 DEF StepperType
  <2>4. b.events \in Nat
    BY <2>3 DEF Fine, Typed, BufferOK, BlockType
  <2>5. Sum(s) \in [Axis -> Nat]
    BY <2>3 DEF Sum
  <2>6. \A a \in Stepped(s) : Sum(s)[a] > b.events
    BY DEF Stepped
  <2>7. counter \in [Axis -> Nat]
    <3> HIDE DEF b
    <3> QED
      BY <2>4, <2>5, <2>6
  <2>8. CountDown(s) \in Word /\ (CountDown(s) # 0) \in BOOLEAN /\ Stepped(s) \in SUBSET Axis
    <3>1. CountDown(s) \in Word
      BY <2>3, CountDownType
    <3> QED
      BY <3>1, Zenon DEF Stepped
  <2> HIDE DEF counter, b
  <2>9. StepperOK'
    BY <2>1, <2>2, <2>7, <2>8 DEF StepperType, StepperOK
  <2>10. PathOK'
    BY <1>2, <2>1, MovedRange DEF Tick, main, control, Fine, Typed, PathOK
  <2>11. BufferOK'
    BY <2>1, NextSlotRange DEF Tick, main, control, Fine, Typed, BufferOK
  <2> QED
    BY <1>1, <2>9, <2>10, <2>11 DEF Fine, Typed
<1>4. CASE ~(st.segment \/ head # tail)
  <2>1. timer' = FALSE /\ cycleStop' = TRUE /\ dry' = CanPrepare /\ UNCHANGED <<st, position, tail>>
        /\ starved' \in BOOLEAN
    BY <1>4 DEF Tick
  <2>2. CanPrepare \in BOOLEAN
    BY DEF CanPrepare
  <2>3. PathOK'
    BY <1>2, <2>1, <2>2 DEF Tick, main, control, Fine, Typed, PathOK
  <2>4. BufferOK' /\ StepperOK'
    BY <2>1 DEF Tick, main, control, Fine, Typed, BufferOK, StepperOK
  <2> QED
    BY <1>1, <2>3, <2>4 DEF Fine, Typed
<1> QED
  BY <1>3, <1>4

LEMMA StutterFine == Fine /\ (ProbeDone \/ UNCHANGED vars) => Fine'
<1> SUFFICES ASSUME Fine, ProbeDone \/ UNCHANGED vars PROVE Fine'
  OBVIOUS
<1>1. FrontInv' /\ QueueOK' /\ PrepOK'
  BY FrontKept DEF ProbeDone, vars, main, Fine, Typed, PrepOK, FrontInv
<1>2. PathOK' /\ BufferOK' /\ StepperOK'
  BY DEF ProbeDone, vars, main, control, rest, interrupt, buffer, Fine, Typed, PathOK,
         BufferOK, StepperOK
<1> QED
  BY <1>1, <1>2 DEF Fine, Typed

(* The types, with what is known of the block in preparation, are an      *)
(* invariant: st_prep_buffer() leaves something of pl_block to do.         *)
THEOREM FineTheorem == Spec => [](Inv /\ Fine)
<1>1. Inv /\ Fine /\ [Next]_vars => Fine'
  BY QueueFine, ProbeFinishFine, CycleStartFine, HoldFine, CycleStopFine, EnterLeaveFine,
     LoadFine, SegmentFine, WakeUpFine, TickFine, StutterFine DEF Next
<1> QED
  BY InvTheorem, FineInit, <1>1, PTL DEF Spec

(* Every variable has its type: a block's data never leaves its slot count,*)
(* a segment's ticks fit their 16 bits, and no counter of the tracer goes  *)
(* below zero.                                                             *)
THEOREM Types == Spec => []TypeOK
<1>1. Fine => TypeOK
  BY TypeIs DEF Fine
<1> QED
  BY FineTheorem, <1>1, PTL

-----------------------------------------------------------------------------
(* Why no segment is without steps, as long as no hold is starved.  A      *)
(* segment without steps would need a forced end within a block            *)
(* (prep.complete) once the hold is over: but when a hold ends, the block  *)
(* it stopped in is to be reloaded.                                        *)

(* Once a motion is over nothing is in hand but a block to be reloaded     *)
(* from rest, or one loaded at rest while held, which yields no segment.   *)
Resting ==
  IF prep.loaded THEN Holding /\ prep.at = "loaded" /\ ~prep.speed
  ELSE IF prep.partial THEN ~prep.speed ELSE ~prep.exit
Ended ==
  \/ Holding /\ (ready \/ cycleStop)
  \/ state = "IDLE" /\ ~dry
  \/ state = "CYCLE" /\ cycleStop /\ ~dry

StopInv ==
  /\ prep.loaded /\ ~Holding => prep.complete = 0
  /\ prep.loaded /\ ~prep.speed => prep.at \in {"loaded", "startLoaded"}
  /\ prep.loaded /\ ~prep.speed /\ Holding => prep.complete = Head(queue).left
  /\ ~prep.speed => prep.loaded \/ prep.partial \/ ~prep.exit
  /\ ~AtMain => state # "IDLE"
  /\ Ended => Resting
  /\ state = "CYCLE" /\ cycleStop /\ ~dry /\ ~AtMain => queue = <<>>

All == Inv /\ Fine /\ StopInv

LEMMA FineFacts ==
  ASSUME Fine
  PROVE  /\ prep \in PrepType /\ Len(queue) \in Nat /\ (queue = <<>> <=> Len(queue) = 0)
         /\ state \in {"IDLE", "CYCLE", "HOLD", "MOTION_CANCEL"}
         /\ dry \in BOOLEAN /\ ready \in BOOLEAN /\ cycleStop \in BOOLEAN
         /\ prep.loaded \/ prep.partial => queue # <<>>
         /\ prep.exit => queue # <<>>
         /\ ~(prep.loaded /\ prep.partial)
<1>1. prep \in PrepType /\ Len(queue) \in Nat /\ (queue # <<>> <=> Len(queue) >= 1)
      /\ state \in {"IDLE", "CYCLE", "HOLD", "MOTION_CANCEL"}
      /\ dry \in BOOLEAN /\ ready \in BOOLEAN /\ cycleStop \in BOOLEAN
  BY QueueFacts DEF Fine, Typed, QueueOK, PrepOK, PathOK
<1>2. /\ Len(queue) >= Unpublished /\ (prep.exit => Len(queue) > Unpublished)
      /\ Unpublished \in {0, 1} /\ (prep.loaded \/ prep.partial => Unpublished = 1)
      /\ ~(prep.loaded /\ prep.partial)
  BY DEF Fine, FrontInv, Unpublished
<1> HIDE DEF Unpublished
<1> QED
  BY <1>1, <1>2

LEMMA StopInit == Init => StopInv
  BY DEF Init, StopInv, EmptyPrep, AtMain, Ended, Resting

LEMMA QueueStop == All /\ (Queue \/ Probe) => StopInv'
<1> SUFFICES ASSUME All, Queue \/ Probe PROVE StopInv'
  OBVIOUS
<1>1. /\ prep.at = "main" /\ state \in {"IDLE", "CYCLE"}
      /\ prep' = Replanned(prep) \/ prep' = prep
      /\ UNCHANGED <<state, ready, cycleStop, dry>>
  BY DEF Queue, Probe, BufferLine, AtMain, rest, interrupt
<1>2. prep \in PrepType
  BY FineFacts DEF All
<1>3. /\ prep' \in PrepType /\ prep'.exit = prep.exit /\ prep'.speed = prep.speed
      /\ prep'.at = "main"
      /\ prep'.loaded => prep' = prep
      /\ prep'.partial => prep.partial \/ prep.loaded
      /\ prep.loaded => prep'.loaded \/ prep'.partial
      /\ ~prep.loaded => prep' = prep
  BY <1>1, <1>2, ReplannedIs DEF Replanned
<1>4. Ended' => Resting'
  <2>1. Ended' => Ended
    BY <1>1 DEF Ended, Holding
  <2>2. Ended => ~prep.loaded
    BY <1>1 DEF All, StopInv, Resting, Holding
  <2>3. ~prep.loaded /\ Resting => Resting'
    BY <1>1, <1>3 DEF Resting, Holding
  <2> QED
    BY <2>1, <2>2, <2>3 DEF All, StopInv
<1> QED
  BY <1>1, <1>2, <1>3, <1>4 DEF All, StopInv, Holding, AtMain

LEMMA CycleStartStop == All /\ CycleStart => StopInv'
<1> SUFFICES ASSUME All, CycleStart PROVE StopInv'
  OBVIOUS
<1>1. /\ prep.at = "main" /\ (state = "IDLE" \/ (Holding /\ ready))
      /\ UNCHANGED <<queue, cycleStop>>
      /\ \/ state' = "CYCLE" /\ prep' = [prep EXCEPT !.at = "start"]
         \/ state' = "IDLE" /\ prep' = prep /\ dry' = dry
  <2>1. dry \in BOOLEAN
    BY FineFacts DEF All
  <2> QED
    BY <2>1 DEF CycleStart, Checkpoint, AtMain
<1>2. ~cycleStop
  BY <1>1 DEF All, Inv, TimerInv, Running, Holding
<1>3. Holding => Resting /\ ~prep.loaded
  BY <1>1 DEF All, StopInv, Ended, Resting, Holding
<1>4. prep \in PrepType
  BY FineFacts DEF All
<1>5. /\ prep'.loaded = prep.loaded /\ prep'.partial = prep.partial /\ prep'.exit = prep.exit
      /\ prep'.speed = prep.speed /\ prep'.complete = prep.complete
      /\ prep'.at \in {"main", "start"} /\ (prep'.at = "start" => state' = "CYCLE")
  BY <1>1, <1>4 DEF PrepType
<1>6. Ended' => Resting'
  <2>1. CASE state' = "CYCLE"
    BY <1>1, <1>2, <2>1 DEF Ended, Holding
  <2>2. CASE state' = "IDLE" /\ prep' = prep /\ dry' = dry
    <3>1. Ended' => ~dry
      BY <2>2 DEF Ended, Holding
    <3>2. CASE Holding
      BY <1>3, <2>2, <3>2 DEF Resting
    <3>3. CASE state = "IDLE" /\ ~dry
      <4>1. Resting /\ ~Holding
        BY <3>3 DEF All, StopInv, Ended, Holding
      <4> QED
        BY <2>2, <4>1 DEF Resting
    <3> QED
      BY <1>1, <3>1, <3>2, <3>3
  <2> QED
    BY <1>1, <2>1, <2>2
<1>7. prep.loaded => prep.speed /\ prep.complete = 0
  BY <1>1, <1>3 DEF All, StopInv
<1> QED
  BY <1>1, <1>2, <1>5, <1>6, <1>7 DEF All, StopInv, Holding, AtMain

LEMMA HoldStop == ASSUME ~starved' PROVE All /\ Hold => StopInv'
<1> SUFFICES ASSUME All, Hold PROVE StopInv'
  OBVIOUS
<1>1. /\ prep.at = "main" /\ ~dry
      /\ prep' = IF state = "CYCLE" THEN Replanned(prep) ELSE prep
      /\ UNCHANGED <<queue, cycleStop, dry>>
  BY DEF Hold, Checkpoint, AtMain, buffer
<1>2. /\ state' = "HOLD" \/ (state = "CYCLE" /\ state' = "MOTION_CANCEL")
         \/ (state # "CYCLE" /\ state' = state)
      /\ ready' = (state = "IDLE" \/ (state # "CYCLE" /\ ready))
  BY DEF Hold
<1>3. prep \in PrepType /\ state \in {"IDLE", "CYCLE", "HOLD", "MOTION_CANCEL"}
  BY FineFacts DEF All
<1>4. CASE state = "CYCLE"
  <2>1. /\ ~prep'.loaded /\ prep'.exit = prep.exit /\ prep'.speed = prep.speed
        /\ prep'.at = "main"
        /\ prep.loaded => prep'.partial
        /\ ~prep.loaded => prep' = prep
    BY <1>1, <1>3, <1>4, ReplannedIs DEF Replanned
  <2>2. Ended' => Ended
    BY <1>1, <1>2, <1>4 DEF Ended, Holding
  <2>3. Ended => ~prep.loaded
    BY <1>4 DEF All, StopInv, Resting, Holding
  <2>4. ~prep.loaded /\ Resting => Resting'
    BY <2>1 DEF Resting
  <2>5. Ended' => Resting'
    BY <2>2, <2>3, <2>4 DEF All, StopInv
  <2>6. state' # "CYCLE"
    BY <1>2, <1>4
  <2> QED
    BY <1>1, <2>1, <2>5, <2>6 DEF All, StopInv, AtMain
<1>5. CASE state = "IDLE"
  <2>1. Resting /\ ~prep.loaded /\ prep' = prep /\ state' # "CYCLE"
    BY <1>1, <1>2, <1>5 DEF All, StopInv, Ended, Resting, Holding
  <2>2. Resting'
    BY <2>1 DEF Resting
  <2> QED
    BY <1>1, <1>2, <1>5, <2>1, <2>2 DEF All, StopInv, AtMain
<1>6. CASE Holding
  <2>1. prep' = prep /\ Holding' /\ ready' = ready /\ state' # "CYCLE" /\ state' # "IDLE"
    BY <1>1, <1>2, <1>3, <1>6 DEF Holding, All, Fine, Typed, PathOK
  <2>2. Ended' => Ended
    BY <1>1, <1>6, <2>1 DEF Ended
  <2>3. Resting => Resting'
    BY <1>6, <2>1 DEF Resting
  <2> QED
    BY <1>1, <1>6, <2>1, <2>2, <2>3 DEF All, StopInv, AtMain
<1> QED
  BY <1>3, <1>4, <1>5, <1>6 DEF Holding

LEMMA CycleStopStop == All /\ CycleStop => StopInv'
<1> SUFFICES ASSUME All, CycleStop PROVE StopInv'
  OBVIOUS
<1>1. /\ prep.at = "main" /\ cycleStop /\ cycleStop' = FALSE
      /\ UNCHANGED <<dry, queue, prep>>
      /\ state' = IF state = "HOLD" THEN "HOLD" ELSE "IDLE"
  BY DEF CycleStop, Checkpoint, AtMain, interrupt
<1>2. state \in {"CYCLE", "HOLD", "MOTION_CANCEL"}
  BY <1>1 DEF All, Inv, TimerInv, Running
<1>3. Ended' => Ended
  BY <1>1, <1>2 DEF Ended, Holding
<1>4. Ended => ~prep.loaded
  BY <1>1 DEF All, StopInv, Resting
<1>5. ~prep.loaded /\ Resting => Resting'
  BY <1>1 DEF Resting
<1>6. Ended' => Resting'
  BY <1>3, <1>4, <1>5 DEF All, StopInv
<1>7. prep.loaded /\ ~Holding' => prep.complete = 0
  <2>1. Holding => Ended
    BY <1>1 DEF Ended
  <2>2. ~Holding /\ prep.loaded => prep.complete = 0
    BY DEF All, StopInv
  <2> QED
    BY <1>4, <2>1, <2>2
<1> HIDE DEF Holding, Ended, Resting
<1> QED
  BY <1>1, <1>6, <1>7 DEF All, StopInv, AtMain

LEMMA ProbeFinishStop == All /\ ProbeFinish => StopInv'
  BY DEF ProbeFinish, StopInv, EmptyPrep, AtMain, Ended, Resting

LEMMA EnterLeaveStop == All /\ (Enter \/ Leave) => StopInv'
<1> SUFFICES ASSUME All, Enter \/ Leave PROVE StopInv'
  OBVIOUS
<1>1. /\ \/ prep.at = "main" /\ ~cycleStop /\ state # "IDLE" /\ prep' = [prep EXCEPT !.at = "prep"]
         \/ prep.at = "prep" /\ prep' = [prep EXCEPT !.at = "main"]
      /\ UNCHANGED <<queue, state, ready, cycleStop, dry>>
  BY DEF Enter, Leave, AtMain, CanPrepare, rest, interrupt
<1>2. prep \in PrepType
  BY FineFacts DEF All
<1>3. /\ prep'.loaded = prep.loaded /\ prep'.partial = prep.partial /\ prep'.exit = prep.exit
      /\ prep'.speed = prep.speed /\ prep'.complete = prep.complete
      /\ prep'.at \in {"main", "prep"} /\ prep.at \in {"main", "prep"}
      /\ prep'.at = "prep" => state # "IDLE" /\ ~cycleStop
  BY <1>1, <1>2 DEF PrepType
<1>4. Ended' => Resting'
  <2>1. Ended' = Ended
    BY <1>1 DEF Ended, Holding
  <2>2. Resting => Resting'
    BY <1>1, <1>3 DEF Resting, Holding
  <2> QED
    BY <2>1, <2>2 DEF All, StopInv
<1>5. Holding' = Holding
  BY <1>1 DEF Holding
<1> HIDE DEF Holding
<1> QED
  BY <1>1, <1>3, <1>4, <1>5 DEF All, StopInv, AtMain

LEMMA LoadStop == All /\ Load => StopInv'
<1> SUFFICES ASSUME All, Load PROVE StopInv'
  OBVIOUS
<1> DEFINE i == IF prep.partial THEN prep.index ELSE NextBlock(prep.index)
           moving == IF prep.partial THEN prep.speed
                     ELSE IF Holding THEN prep.exit ELSE TRUE
           left == Head(queue).left
<1>1. /\ prep.at \in {"prep", "start"} /\ ~prep.loaded /\ state # "IDLE"
      /\ ~(Holding /\ ~prep.speed) /\ queue # <<>>
      /\ UNCHANGED <<queue, state, ready, cycleStop, dry>>
  BY DEF Load, CanPrepare, StoppedShort, rest, interrupt
<1>2. PICK p \in Profiles(moving, left) :
        prep' = [prep EXCEPT !.loaded = TRUE, !.partial = FALSE,
                   !.index = i, !.speed = moving, !.exit = p.exit,
                   !.complete = p.complete,
                   !.at = IF prep.at = "start" THEN "startLoaded" ELSE "loaded"]
  BY DEF Load
<1>3. /\ ~Holding => p.complete = 0
      /\ Holding /\ ~moving => p.complete = left
  <2> HIDE DEF moving, left
  <2>1. CASE ~Holding
    <3>1. p \in [complete : {0}, exit : {FALSE, Len(queue) > 1}]
      BY <2>1, <1>2, Zenon DEF Profiles
    <3> QED
      BY <2>1, <3>1
  <2>2. CASE Holding /\ ~moving
    <3>1. p \in {[complete |-> left, exit |-> FALSE]}
      BY <2>2, <1>2, Zenon DEF Profiles
    <3>2. p = [complete |-> left, exit |-> FALSE]
      BY <3>1
    <3> QED
      BY <2>2, <3>2
  <2>3. CASE Holding /\ moving
    BY <2>3
  <2> QED
    BY <2>1, <2>2, <2>3
<1>4. prep \in PrepType
  BY FineFacts DEF All
<1>5. /\ prep'.loaded /\ prep'.speed = moving /\ prep'.complete = p.complete
      /\ prep'.at = IF prep.at = "start" THEN "startLoaded" ELSE "loaded"
  <2> HIDE DEF i, moving
  <2> QED
    BY <1>2, <1>4 DEF PrepType
<1>6. prep.at = "start" => state = "CYCLE"
  BY DEF All, Inv, TimerInv, Starting
<1>7. Ended' => Resting'
  <2> SUFFICES ASSUME Ended PROVE Resting'
    BY <1>1 DEF Ended, Holding
  <2>0. state = "CYCLE" /\ cycleStop /\ ~dry => queue = <<>>
    BY <1>1 DEF All, StopInv, AtMain
  <2>1. ~(state = "CYCLE" /\ cycleStop /\ ~dry)
    BY <1>1, <2>0
  <2>2. Holding
    BY <1>1, <2>1 DEF Ended
  <2>3. IF prep.partial THEN ~prep.speed ELSE ~prep.exit
    BY <1>1 DEF All, StopInv, Resting
  <2>4. ~moving
    BY <1>1, <2>2, <2>3
  <2> HIDE DEF moving
  <2> QED
    BY <1>1, <1>5, <1>6, <2>2, <2>4 DEF Resting, Holding
<1>8. Holding' = Holding
  BY <1>1 DEF Holding
<1> HIDE DEF moving, Holding
<1>9. state = "CYCLE" /\ cycleStop /\ ~dry => queue = <<>>
  BY <1>1 DEF All, StopInv, AtMain
<1> QED
  BY <1>1, <1>3, <1>5, <1>7, <1>8, <1>9 DEF StopInv, AtMain, left

LEMMA SegmentStop == All /\ Segment => StopInv'
<1> SUFFICES ASSUME All, Segment PROVE StopInv'
  OBVIOUS
<1> DEFINE left == Head(queue).left
<1>1. /\ prep.loaded /\ left \in Nat \ {0} /\ prep.complete \in Nat
      /\ \E now \in prep.complete .. left, level \in 0 .. MaxAmassLevel, n \in 0 .. MaxSegment :
           IF n = 0 /\ Holding THEN StopShort(now) ELSE Publish(n, level) /\ CheckOut(now)
  BY SegmentIs DEF All
<1>2. PICK now \in prep.complete .. left, level \in 0 .. MaxAmassLevel, n \in 0 .. MaxSegment :
        IF n = 0 /\ Holding THEN StopShort(now) ELSE Publish(n, level) /\ CheckOut(now)
  BY <1>1
<1>3. now \in Nat /\ now >= prep.complete /\ now <= left
  BY <1>1, <1>2
<1>4. \/ prep' = Forced
      \/ /\ prep' = [prep EXCEPT !.speed = TRUE, !.at = Back] /\ now > prep.complete
      \/ /\ prep' = [prep EXCEPT !.loaded = FALSE, !.speed = TRUE, !.at = Back]
         /\ ~(now > 0)
  BY <1>2 DEF StopShort, CheckOut
<1>5. /\ UNCHANGED <<state, ready, cycleStop, dry>> /\ prep.at # "main"
      /\ Back \in {"prep", "start"}
  BY DEF Segment, interrupt, Back
<1>6. prep \in PrepType
  BY FineFacts DEF All
<1>7. /\ Forced.at = Back /\ ~Forced.loaded /\ Forced.partial /\ ~Forced.speed
  <2>1. Replanned(prep) \in PrepType /\ ~Replanned(prep).loaded /\ Replanned(prep).partial
    BY <1>1, <1>6, ReplannedIs
  <2> QED
    BY <2>1 DEF Forced, PrepType
<1>8. Ended /\ prep' # Forced => FALSE
  <2> SUFFICES ASSUME Ended, prep' # Forced PROVE FALSE
    OBVIOUS
  <2>1. prep.complete = left
    <3>1. Holding /\ ~prep.speed
      BY <1>1 DEF All, StopInv, Resting
    <3> QED
      BY <1>1, <3>1 DEF All, StopInv, Holding
  <2> HIDE DEF left
  <2> QED
    BY <1>1, <1>3, <1>4, <2>1
<1>9. Ended' = Ended /\ Holding' = Holding
  BY <1>5 DEF Ended, Holding
<1>10. state # "IDLE"
  BY <1>5 DEF All, StopInv, AtMain
<1>11. ~(state = "CYCLE" /\ cycleStop /\ ~dry)
  <2>1. ~(state = "CYCLE" /\ Ended)
    BY <1>1 DEF All, StopInv, Resting, Holding
  <2> QED
    BY <2>1 DEF Ended
<1>12. prep.loaded /\ ~Holding => prep.complete = 0
  BY DEF All, StopInv
<1> HIDE DEF Holding, Ended
<1>13. CASE prep' = Forced
  BY <1>5, <1>7, <1>10, <1>11, <1>13 DEF StopInv, Resting
<1>14. CASE prep' # Forced /\ prep' = [prep EXCEPT !.speed = TRUE, !.at = Back]
  <2>1. prep'.loaded /\ prep'.speed /\ prep'.complete = prep.complete
    BY <1>1, <1>6, <1>14 DEF PrepType
  <2> QED
    BY <1>1, <1>5, <1>8, <1>9, <1>10, <1>11, <1>12, <1>14, <2>1 DEF StopInv
<1>15. CASE prep' # Forced /\ prep' = [prep EXCEPT !.loaded = FALSE, !.speed = TRUE, !.at = Back]
  <2>1. ~prep'.loaded /\ prep'.speed
    BY <1>6, <1>15 DEF PrepType
  <2> QED
    BY <1>5, <1>8, <1>9, <1>10, <1>11, <1>15, <2>1 DEF StopInv
<1> QED
  BY <1>4, <1>13, <1>14, <1>15

LEMMA WakeUpStop == All /\ WakeUp => StopInv'
<1> SUFFICES ASSUME All, WakeUp PROVE StopInv'
  OBVIOUS
<1>1. /\ prep.at = "start" /\ prep' = [prep EXCEPT !.at = "main"]
      /\ UNCHANGED <<queue, state, ready, dry, cycleStop>>
  BY DEF WakeUp
<1>2. state = "CYCLE" /\ ~cycleStop
  BY <1>1 DEF All, Inv, TimerInv, Starting
<1>3. prep \in PrepType
  BY FineFacts DEF All
<1>4. /\ prep'.loaded = prep.loaded /\ prep'.partial = prep.partial /\ prep'.exit = prep.exit
      /\ prep'.speed = prep.speed /\ prep'.complete = prep.complete /\ prep'.at = "main"
  BY <1>1, <1>3 DEF PrepType
<1>5. ~Ended'
  BY <1>1, <1>2 DEF Ended, Holding
<1> QED
  BY <1>1, <1>2, <1>4, <1>5 DEF All, StopInv, AtMain, Holding

LEMMA TickStop == ASSUME ~starved' PROVE All /\ Tick => StopInv'
<1> SUFFICES ASSUME All, Tick PROVE StopInv'
  OBVIOUS
<1>1. timer /\ UNCHANGED <<queue, state, ready, prep>>
  BY DEF Tick, main
<1>2. Holding' = Holding /\ AtMain' = AtMain
  BY <1>1 DEF Holding, AtMain
<1>3. CASE st.segment \/ head # tail
  <2>1. UNCHANGED <<cycleStop, dry>>
    BY <1>3 DEF Tick
  <2>2. (Ended => Resting)'
    BY <1>1, <2>1 DEF All, StopInv, Ended, Resting, Holding
  <2> HIDE DEF Holding, AtMain
  <2> QED
    BY <1>1, <1>2, <2>1, <2>2 DEF All, StopInv
<1>4. CASE ~(st.segment \/ head # tail)
  <2>1. cycleStop' = TRUE /\ dry' = CanPrepare /\ ~(Holding /\ CanPrepare)
    BY <1>4 DEF Tick
  <2>2. Running /\ ~Starting
    BY <1>1 DEF All, Inv, TimerInv
  <2>3. /\ prep \in PrepType /\ (prep.loaded \/ prep.partial \/ prep.exit => queue # <<>>)
        /\ ~(prep.loaded /\ prep.partial)
    BY FineFacts DEF All
  <2>4. Room
    <3>1. head = tail /\ head \in 0 .. N - 1
      BY <1>4 DEF All, Inv, SlotInv, ShapeInv
    <3> QED
      BY <3>1, SegmentsAssumption DEF Room, NextSlot, NextIndex, SegmentsAssumption, N
  <2>5. ~CanPrepare => (Holding /\ ~prep.speed) \/ (queue = <<>> /\ ~prep.loaded)
    BY <2>2, <2>4 DEF CanPrepare, StoppedShort, Running
  <2>6. Ended' => ~CanPrepare
    BY <1>1, <2>1, <2>2 DEF Ended, Running, Holding
  <2>7. Ended' => Resting'
    <3> SUFFICES ASSUME ~CanPrepare PROVE Resting
      BY <1>1, <2>6 DEF Resting, Holding
    <3>1. CASE queue = <<>>
      BY <2>3, <3>1 DEF Resting
    <3>2. CASE queue # <<>> /\ Holding /\ ~prep.speed
      <4>1. prep.loaded => prep.at = "loaded"
        BY <2>2, <3>2 DEF All, StopInv, Starting
      <4>2. ~prep.loaded /\ ~prep.partial => ~prep.exit
        BY <3>2 DEF All, StopInv
      <4> QED
        BY <3>2, <4>1, <4>2 DEF Resting
    <3> QED
      BY <2>5, <3>1, <3>2
  <2>8. state = "CYCLE" /\ ~dry' => queue = <<>>
    BY <2>1, <2>5 DEF Holding
  <2> HIDE DEF Holding, AtMain
  <2> QED
    BY <1>1, <1>2, <2>7, <2>8 DEF All, StopInv
<1> QED
  BY <1>3, <1>4

LEMMA StutterStop == All /\ (ProbeDone \/ UNCHANGED vars) => StopInv'
<1> SUFFICES ASSUME All, ProbeDone \/ UNCHANGED vars PROVE StopInv'
  OBVIOUS
<1>1. UNCHANGED <<queue, state, ready, prep, cycleStop, dry>>
  BY DEF ProbeDone, vars, main, rest, interrupt
<1> QED
  BY <1>1 DEF All, StopInv, Holding, AtMain, Ended, Resting

(* What a hold leaves in preparation: a block that decelerated to rest has *)
(* nothing left before prep.mm_complete, and is not traced on until it is  *)
(* planned anew.                                                           *)
LEMMA StopKept == All /\ ~starved' /\ [Next]_vars => StopInv'
  BY QueueStop, ProbeFinishStop, CycleStartStop, HoldStop, CycleStopStop, EnterLeaveStop,
     LoadStop, SegmentStop, WakeUpStop, TickStop, StutterStop DEF Next

(* A hold that was starved remains so.                                     *)
LEMMA StarvedStays == ASSUME [Next]_vars, starved PROVE starved'
  BY DEF Next, Queue, Probe, BufferLine, ProbeDone, ProbeFinish, CycleStart, Hold, CycleStop,
         Enter, Leave, Load, Segment, WakeUp, Tick, vars, rest, interrupt

THEOREM StopTheorem == Spec => [](Inv /\ Fine /\ (~starved => All))
<1>1. Init => (~starved => All)
  BY InvInit, FineInit, StopInit DEF All
<1>2. /\ Inv /\ Fine /\ (Inv /\ Fine)' /\ (~starved => All) /\ [Next]_vars
      => (~starved => All)'
  BY StopKept, StarvedStays DEF All
<1> QED
  BY FineTheorem, <1>1, <1>2, PTL DEF Spec

-----------------------------------------------------------------------------
(* No step puts a segment without steps into the ring, or lets the ring    *)
(* reach one: only st_prep_buffer() writes the slots still to be traced.   *)
LEMMA PublishSteps ==
  ASSUME All, Segment
  PROVE  \/ UNCHANGED <<ring, head, tail>>
         \/ /\ ring'[head].n > 0 /\ \A j \in 0 .. N - 1 : j # head => ring'[j] = ring[j]
            /\ NextSlot(head) # tail /\ head' = NextSlot(head) /\ tail' = tail
<1> DEFINE left == Head(queue).left
<1>1. /\ prep.loaded /\ left \in Nat \ {0} /\ prep.complete \in Nat /\ NextSlot(head) # tail
      /\ \E now \in prep.complete .. left, level \in 0 .. MaxAmassLevel, n \in 0 .. MaxSegment :
           /\ n = 0 => now > 0
           /\ left - now >= MinSegment \/ now = prep.complete
           /\ left - now >= MinSegment => n > 0
           /\ IF n = 0 /\ Holding THEN StopShort(now) ELSE Publish(n, level) /\ CheckOut(now)
  BY SegmentIs DEF All
<1> HIDE DEF left
<1>2. PICK now \in prep.complete .. left, level \in 0 .. MaxAmassLevel, n \in 0 .. MaxSegment :
        /\ n = 0 => now > 0
        /\ left - now >= MinSegment \/ now = prep.complete
        /\ left - now >= MinSegment => n > 0
        /\ IF n = 0 /\ Holding THEN StopShort(now) ELSE Publish(n, level) /\ CheckOut(now)
  BY <1>1
<1>3. tail' = tail
  BY DEF Segment
<1>4. CASE n = 0 /\ Holding
  BY <1>2, <1>3, <1>4 DEF StopShort
<1>5. CASE ~(n = 0 /\ Holding)
  <2>1. n > 0
    <3>1. ~Holding => prep.complete = 0
      BY <1>1 DEF All, StopInv
    <3>2. n \in Nat
      BY <1>2
    <3> HIDE DEF Holding
    <3> QED
      BY <1>1, <1>2, <1>5, <3>1, <3>2
  <2> DEFINE s == [n |-> Ticks(n, level), index |-> prep.index, level |-> level]
  <2>2. ring' = [ring EXCEPT ![head] = s] /\ head' = NextSlot(head)
    BY <1>2, <1>5 DEF Publish
  <2>3. s.n > 0
    BY <1>2, <2>1, TicksRange
  <2> HIDE DEF s
  <2>4. DOMAIN ring = 0 .. N - 1 /\ head \in 0 .. N - 1
    BY DEF All, Inv, SlotInv, ShapeInv
  <2> QED
    BY <1>1, <1>3, <2>2, <2>3, <2>4
<1> QED
  BY <1>4, <1>5

Stepping == \A k \in Pending : ring[k].n > 0

LEMMA StepsKept == All /\ Stepping /\ [Next]_vars => Stepping'
<1> SUFFICES ASSUME All, Stepping, [Next]_vars PROVE Stepping'
  OBVIOUS
<1>1. /\ head \in 0 .. N - 1 /\ tail \in 0 .. N - 1 /\ DOMAIN ring = 0 .. N - 1
      /\ Waiting \in 0 .. N - 1
  BY WaitingRange DEF All, Inv, SlotInv, ShapeInv, Waiting
<1>2. \A k \in 1 .. Waiting : ring[Slot(tail, k, N)].n > 0
  BY DEF Stepping, Pending, Waiting, N
<1>3. (\A k \in 1 .. Waiting' : ring'[Slot(tail', k, N)].n > 0) => Stepping'
  BY DEF Stepping, Pending, Waiting, N
<1>4. CASE UNCHANGED <<ring, head, tail>>
  BY <1>4 DEF Stepping, Pending
<1>5. CASE Segment
  <2>1. CASE /\ ring'[head].n > 0 /\ \A j \in 0 .. N - 1 : j # head => ring'[j] = ring[j]
             /\ NextSlot(head) # tail /\ head' = NextSlot(head) /\ tail' = tail
    <3>1. /\ Waiting' = Waiting + 1 /\ Slot(tail, Waiting + 1, N) = head
          /\ \A k \in 1 .. Waiting : Slot(tail, k, N) \in 0 .. N - 1 /\ Slot(tail, k, N) # head
      BY <1>1, <2>1, WaitingPut DEF Waiting
    <3>2. ASSUME NEW k \in 1 .. Waiting + 1 PROVE ring'[Slot(tail, k, N)].n > 0
      <4>1. CASE k = Waiting + 1
        BY <2>1, <3>1, <4>1
      <4>2. CASE k \in 1 .. Waiting
        BY <1>2, <2>1, <3>1, <4>2
      <4> QED
        BY <1>1, <4>1, <4>2
    <3> QED
      BY <1>3, <2>1, <3>1, <3>2
  <2> QED
    BY <1>4, <1>5, <2>1, PublishSteps
<1>6. CASE ProbeFinish
  <2>1. head' = 0 /\ tail' = 0
    BY <1>6 DEF ProbeFinish
  <2>2. Waiting' = 0
    BY <2>1 DEF Waiting, Count
  <2> QED
    BY <1>3, <2>2
<1>7. CASE Tick
  <2>1. ring' = ring /\ head' = head /\ (tail' = tail \/ (tail' = NextSlot(tail) /\ head # tail))
    BY <1>7 DEF Tick, main, Trace, All, Inv, SlotInv, TracedInv
  <2>2. CASE tail' = NextSlot(tail) /\ head # tail
    <3>1. /\ Count(head, NextSlot(tail), N) = Count(head, tail, N) - 1
          /\ \A k \in 1 .. Count(head, tail, N) - 1 :
                Slot(NextSlot(tail), k, N) = Slot(tail, k + 1, N)
      BY <1>1, <2>2, WaitingGet
    <3>2. Waiting' = Waiting - 1
          /\ \A k \in 1 .. Waiting - 1 : Slot(tail', k, N) = Slot(tail, k + 1, N)
      BY <2>1, <2>2, <3>1 DEF Waiting
    <3>3. ASSUME NEW k \in 1 .. Waiting - 1 PROVE ring'[Slot(tail', k, N)].n > 0
      <4>1. k + 1 \in 1 .. Waiting
        BY <1>1
      <4> QED
        BY <1>2, <2>1, <3>2, <4>1
    <3> QED
      BY <1>3, <3>2, <3>3
  <2> QED
    BY <1>4, <2>1, <2>2
<1>8. CASE \/ Queue \/ Probe \/ ProbeDone \/ CycleStart \/ Hold \/ CycleStop \/ Enter \/ Leave
           \/ Load \/ WakeUp \/ UNCHANGED vars
  BY <1>4, <1>8 DEF Queue, Probe, BufferLine, ProbeDone, CycleStart, Hold, CycleStop, Enter,
                    Leave, Load, WakeUp, vars, rest, buffer
<1> QED
  BY <1>5, <1>6, <1>7, <1>8 DEF Next

(* Every segment in the ring has a step to execute, as the step interrupt  *)
(* expects, as long as no hold takes a motion whose buffer ran dry.        *)
THEOREM StepsTheorem == Spec => []EverySegmentSteps
<1>1. Init => Stepping
  <2> SUFFICES ASSUME Init PROVE Stepping
    OBVIOUS
  <2>1. Count(head, tail, SegmentBufferSize) = 0
    BY DEF Init, Count
  <2> QED
    BY <2>1 DEF Stepping, Pending
<1>2. (~starved => All) /\ (~starved => Stepping) /\ [Next]_vars => (~starved => Stepping)'
  BY StepsKept, StarvedStays
<1>3. (~starved => Stepping) => EverySegmentSteps
  BY DEF Stepping, EverySegmentSteps
<1>4. Init => (~starved => Stepping)
  BY <1>1
<1> QED
  BY <1>2, <1>3, <1>4, StopTheorem, PTL DEF Spec

-----------------------------------------------------------------------------
(* The arithmetic of the line tracer.                                      *)

LEMMA ScaleRange ==
  ASSUME MaxAmassLevel > 0
  PROVE  Scale \in Nat /\ Scale > 1
  BY PowersOfTwo, SegmentsAssumption DEF Scale, SegmentsAssumption

LEMMA DivExact ==
  ASSUME NEW x \in Nat, NEW y \in Nat, y >= 1
  PROVE  (x * y) \div y = x
<1> DEFINE d == (x * y) \div y
           r == (x * y) % y
<1>1. x * y \in Nat
  OBVIOUS
<1>2. d \in Int /\ r \in Int /\ 0 <= r /\ r < y /\ x * y = y * d + r
  BY <1>1
<1> HIDE DEF d, r
<1>3. CASE d = x
  BY <1>3 DEF d
<1>4. CASE d >= x + 1
  <2>1. y * d >= y * (x + 1) /\ y * (x + 1) = x * y + y
    BY <1>2, <1>4
  <2> QED
    BY <1>2, <2>1
<1>5. CASE d <= x - 1
  <2>1. y * d <= y * (x - 1) /\ y * (x - 1) = x * y - y
    BY <1>2, <1>5
  <2> QED
    BY <1>2, <2>1
<1> QED
  BY <1>2, <1>3, <1>4, <1>5

(* The ticks of n steps at a smoothing level, each a fraction of a step,   *)
(* add up to n steps.                                                      *)
LEMMA LevelTotal ==
  ASSUME NEW level \in 0 .. MaxAmassLevel, NEW n \in Nat, NEW m \in Nat
  PROVE  /\ (m * Scale) \div Factor(level) \in Nat
         /\ (m * Scale) \div Factor(level) <= m * Scale
         /\ (n * Factor(level)) * ((m * Scale) \div Factor(level)) = n * (m * Scale)
<1>1. PICK q \in 1 .. Scale : Factor(level) \in 1 .. Scale /\ Scale = q * Factor(level)
  BY PowersOfTwo DEF Scale
<1> DEFINE f == Factor(level)
<1>2. q \in Nat /\ f \in Nat /\ f >= 1 /\ q >= 1
  BY <1>1
<1> HIDE DEF f
<1>3. m * Scale = (m * q) * f /\ m * q \in Nat
  BY <1>1, <1>2 DEF f
<1>4. (m * Scale) \div f = m * q
  BY <1>2, <1>3, DivExact
<1>5. m * q <= (m * q) * f
  BY <1>2, <1>3
<1>6. (n * f) * (m * q) = n * ((m * q) * f)
  BY <1>2, <1>3
<1> QED
  BY <1>3, <1>4, <1>5, <1>6 DEF f

(* On the way along a block: the steps taken and the counter, which starts *)
(* at one half, are what d whole step events have added, less what ahead   *)
(* is still to be added.                                                   *)
Balanced(events, steps, taken, counter, ahead, d) ==
  /\ counter \in 1 .. events
  /\ taken * events + counter + ahead = events \div 2 + d * steps

(* A tick adds a fraction of a step, and takes a step when it overflows.   *)
LEMMA BalancedTick ==
  ASSUME NEW events \in Nat, NEW steps \in Nat, NEW taken \in Int, NEW counter \in Int,
         NEW count \in Nat, count > 0, NEW part \in Nat, part <= events, NEW d \in Nat,
         Balanced(events, steps, taken, counter, count * part, d)
  PROVE  IF counter + part > events
           THEN Balanced(events, steps, taken + 1, counter + part - events, (count - 1) * part, d)
           ELSE Balanced(events, steps, taken, counter + part, (count - 1) * part, d)
<1> DEFINE ahead == count * part
           less == (count - 1) * part
           total == d * steps
           half == events \div 2
           done == taken * events
<1>1. less = ahead - part /\ ahead \in Int /\ less \in Int
  OBVIOUS
<1>2. total \in Int /\ half \in Int /\ done \in Int /\ (taken + 1) * events = done + events
  OBVIOUS
<1>3. counter >= 1 /\ counter <= events /\ done + counter + ahead = half + total
  BY DEF Balanced
<1> HIDE DEF ahead, less, total, half, done
<1>4. counter + part > events =>
        /\ counter + part - events \in 1 .. events
        /\ done + events + (counter + part - events) + less = half + total
  BY <1>1, <1>2, <1>3
<1>5. ~(counter + part > events) =>
        /\ counter + part \in 1 .. events
        /\ done + (counter + part) + less = half + total
  BY <1>1, <1>2, <1>3
<1> QED
  BY <1>2, <1>4, <1>5 DEF Balanced, less, total, half, done

(* When all step events of a block have been added, every step of it has   *)
(* been taken.                                                             *)
LEMMA BalancedEnd ==
  ASSUME NEW size \in Nat, size >= 1, NEW scale \in Nat, scale >= 2, NEW m \in Nat,
         NEW taken \in Int, NEW counter \in Int,
         Balanced(size * scale, m * scale, taken, counter, 0, size)
  PROVE  taken = m
<1> DEFINE events == size * scale
           half == events \div 2
<1>1. events \in Nat /\ events >= 2
  BY SMTT(20)
<1>2. size * (m * scale) = m * events
  OBVIOUS
<1> HIDE DEF events
<1>3. half \in 1 .. events - 1
  BY <1>1
<1> HIDE DEF half
<1>4. counter \in 1 .. events /\ taken * events + counter = half + m * events
  BY <1>1, <1>2, <1>3 DEF Balanced, half, events
<1>5. (taken - m) * events = half - counter
  BY <1>1, <1>3, <1>4
<1>6. CASE taken - m >= 1
  <2>1. (taken - m) * events >= events
    BY <1>1, <1>6
  <2> QED
    BY <1>1, <1>3, <1>4, <1>5, <2>1
<1>7. CASE taken - m <= -1
  <2>1. (taken - m) * events <= -events
    BY <1>1, <1>7
  <2> QED
    BY <1>1, <1>3, <1>4, <1>5, <2>1
<1> QED
  BY <1>6, <1>7

-----------------------------------------------------------------------------
(* The path of everything queued.  For the block data at a slot, `from' is *)
(* where its block starts and `move' what it moves; a segment goes from    *)
(* `first' to `last' of its block's step events; `way' is where each block *)
(* of the queue starts, and where the last one ends.                       *)

Plus(p, v) == [a \in Axis |-> p[a] + v[a]]
Taken(v, p, x) == IF v < 0 THEN p - x ELSE x - p

Started == prep.loaded \/ prep.partial

(* Where the k-th oldest segment starts; behind the newest, where the      *)
(* preparation stands.                                                     *)
Here(k) == Slot(tail, k, N)
BlockAt(k) ==
  IF k <= Waiting THEN ring[Here(k)].index
  ELSE IF Started THEN prep.index ELSE NextBlock(prep.index)
DoneAt(first, k) ==
  IF k <= Waiting THEN first[Here(k)]
  ELSE IF Started THEN Events(Head(queue).move) - Steps(Head(queue).left) ELSE 0
StartAt(from, way, k) ==
  IF k <= Waiting THEN from[ring[Here(k)].index] ELSE way[1]

(* The queue leads to the planned position.                                *)
WayInv(way) ==
  /\ way[Len(queue) + 1] = planned
  /\ \A i \in 1 .. Len(queue) : way[i + 1] = Plus(way[i], queue[i].move)
  /\ \A i \in Unpublished + 1 .. Len(queue) : queue[i].left = 2 * Events(queue[i].move)

(* The block in hand is in its slot, with a step left of it.               *)
HandInv(from, move, way) ==
  Started =>
    /\ move[prep.index] = Head(queue).move /\ from[prep.index] = way[1]
    /\ blocks[prep.index] = Bresenham(Head(queue).move)
    /\ Steps(Head(queue).left) \in 1 .. Events(Head(queue).move)

(* What follows the first d step events of the block at i.                 *)
Joined(from, move, first, way, i, d, k) ==
  \/ d < Events(move[i]) /\ BlockAt(k) = i /\ DoneAt(first, k) = d
  \/ /\ d = Events(move[i]) /\ BlockAt(k) = NextBlock(i) /\ DoneAt(first, k) = 0
     /\ StartAt(from, way, k) = Plus(from[i], move[i])

(* A segment is a part of its block, and followed by what comes next of it *)
(* or by the block queued behind it.                                       *)
PartInv(from, move, first, last, way, k) ==
  LET j == Here(k)
      i == ring[j].index
  IN  /\ move[i] \in Moves /\ blocks[i] = Bresenham(move[i])
      /\ first[j] < last[j] /\ last[j] <= Events(move[i])
      /\ ring[j].n = (last[j] - first[j]) * Factor(ring[j].level)
      /\ Joined(from, move, first, way, i, last[j], k + 1)

(* A tracer s is on the block at i, when its segment ends behind the first *)
(* d step events.                                                          *)
OnBlock(from, move, s, i, d) ==
  \A a \in Axis :
    Balanced(blocks[i].events, blocks[i].steps[a],
             Taken(move[i][a], from[i][a], position[a]), s.counter[a],
             s.count * s.steps[a], d)

Tracing(from, move, last, s) ==
  /\ s.count > 0 /\ s.index = ring[tail].index
  /\ \A a \in Axis : s.steps[a] = blocks[s.index].steps[a] \div Factor(ring[tail].level)
  /\ OnBlock(from, move, s, s.index, last[tail])

(* Between two segments the tracer is where the oldest one starts, and     *)
(* takes a new block for new.                                              *)
Between(from, move, first, way) ==
  /\ st.count = 0
  /\ IF DoneAt(first, 1) = 0
       THEN position = StartAt(from, way, 1) /\ st.index # BlockAt(1)
       ELSE st.index = BlockAt(1) /\ OnBlock(from, move, st, st.index, DoneAt(first, 1))

PathOf(from, move, first, last, way) ==
  /\ from \in [Slots -> [Axis -> Int]] /\ move \in [Slots -> [Axis -> Int]]
  /\ first \in [0 .. N - 1 -> Nat] /\ last \in [0 .. N - 1 -> Nat]
  /\ way \in [1 .. Len(queue) + 1 -> [Axis -> Int]]
  /\ WayInv(way) /\ HandInv(from, move, way)
  /\ \A k \in 1 .. Waiting : PartInv(from, move, first, last, way, k)
  /\ IF st.segment THEN Tracing(from, move, last, st) ELSE Between(from, move, first, way)

PathInv == \E from, move, first, last, way : PathOf(from, move, first, last, way)

(* With everything traced and nothing queued, the way is at its end.       *)
LEMMA PathEnds == ASSUME Inv, Fine, PathInv PROVE EndsWherePlanned
<1> SUFFICES ASSUME queue = <<>>, head = tail PROVE position = planned
  BY DEF EndsWherePlanned
<1>1. PICK from, move, first, last, way : PathOf(from, move, first, last, way)
  BY DEF PathInv
<1>2. Waiting = 0 /\ ~st.segment /\ ~Started
  BY WaitingRange, FineFacts DEF Inv, SlotInv, ShapeInv, TracedInv, Waiting, Started
<1>3. way[1] = planned
  BY <1>1 DEF PathOf, WayInv
<1>4. DoneAt(first, 1) = 0 /\ StartAt(from, way, 1) = way[1]
  BY <1>2 DEF DoneAt, StartAt
<1> QED
  BY <1>1, <1>2, <1>3, <1>4 DEF PathOf, Between

LEMMA PathInit == ASSUME SegmentBufferSize > 2 PROVE Init => PathInv
<1> SUFFICES ASSUME Init PROVE PathInv
  OBVIOUS
<1> DEFINE from == [i \in Slots |-> Zero]
           first == [j \in 0 .. N - 1 |-> 0]
           way == [i \in 1 .. Len(queue) + 1 |-> Zero]
<1>1. Waiting = 0 /\ queue = <<>> /\ Len(queue) = 0 /\ prep = EmptyPrep /\ st = EmptyStepper
      /\ position = Zero /\ planned = Zero
  BY DEF Init, Waiting, Count
<1>2. ~Started /\ Unpublished = 0
  BY <1>1 DEF Started, Unpublished, EmptyPrep
<1>3. Zero \in [Axis -> Int]
  BY DEF Zero
<1>4. /\ from \in [Slots -> [Axis -> Int]] /\ first \in [0 .. N - 1 -> Nat]
      /\ way \in [1 .. Len(queue) + 1 -> [Axis -> Int]]
  BY <1>1, <1>3
<1>5. way[1] = Zero
  BY <1>1
<1>6. NextBlock(0) # 0
  BY SegmentsAssumption DEF NextBlock, NextIndex, SegmentsAssumption
<1> HIDE DEF from, first, way
<1>7. WayInv(way) /\ HandInv(from, from, way)
  BY <1>1, <1>2, <1>5 DEF WayInv, HandInv
<1>8. Between(from, from, first, way)
  BY <1>1, <1>2, <1>5, <1>6 DEF Between, DoneAt, StartAt, BlockAt, EmptyPrep, EmptyStepper
<1>9. PathOf(from, from, first, first, way)
  BY <1>1, <1>4, <1>7, <1>8 DEF PathOf, EmptyStepper
<1> QED
  BY <1>9 DEF PathInv

(* Steps that leave the path alone: at most, the half of a step is lost    *)
(* from the block in hand.                                                 *)
LEMMA PathKept ==
  ASSUME PathInv, Fine, UNCHANGED <<planned, blocks, ring, head, tail, position>>,
         Len(queue') = Len(queue),
         \A i \in 1 .. Len(queue) : queue'[i].move = queue[i].move,
         \A i \in Unpublished + 1 .. Len(queue) : queue'[i].left = queue[i].left,
         Started => Steps(queue'[1].left) = Steps(queue[1].left),
         prep'.index = prep.index, Started' = Started,
         st'.segment = st.segment, st'.index = st.index, st'.counter = st.counter,
         st'.steps = st.steps, st'.count = st.count
  PROVE  PathInv'
<1>1. PICK from, move, first, last, way : PathOf(from, move, first, last, way)
  BY DEF PathInv
<1>2. Len(queue) \in Nat /\ (Started => Len(queue) >= 1) /\ Unpublished' = Unpublished
      /\ Unpublished = IF Started THEN 1 ELSE 0
  BY FineFacts DEF Started, Unpublished
<1>3. Started => /\ Head(queue).move = queue[1].move /\ Head(queue').move = queue'[1].move
                 /\ Head(queue').left = queue'[1].left /\ Head(queue).left = queue[1].left
                 /\ queue'[1].move = queue[1].move
  BY <1>2
<1>4. Waiting' = Waiting /\ \A k : Here(k)' = Here(k)
  BY DEF Waiting, Here
<1>5. \A k : BlockAt(k)' = BlockAt(k) /\ DoneAt(first, k)' = DoneAt(first, k)
             /\ StartAt(from, way, k)' = StartAt(from, way, k)
  <2> HIDE DEF Started, Waiting, Here
  <2> QED
    BY <1>3, <1>4 DEF BlockAt, DoneAt, StartAt
<1> HIDE DEF Started, Waiting, Here, BlockAt, DoneAt, StartAt, Unpublished
<1>6. WayInv(way)'
  <2>1. way[Len(queue') + 1] = planned'
    BY <1>1 DEF PathOf, WayInv
  <2>2. \A i \in 1 .. Len(queue') : way[i + 1] = Plus(way[i], queue'[i].move)
    BY <1>1 DEF PathOf, WayInv
  <2>3. \A i \in Unpublished + 1 .. Len(queue) : i \in 1 .. Len(queue)
    BY <1>2
  <2>4. \A i \in Unpublished' + 1 .. Len(queue') : queue'[i].left = 2 * Events(queue'[i].move)
    BY <1>1, <1>2, <2>3 DEF PathOf, WayInv
  <2> QED
    BY <2>1, <2>2, <2>4 DEF WayInv
<1>7. HandInv(from, move, way)'
  BY <1>1, <1>3 DEF PathOf, HandInv
<1>8. \A k \in 1 .. Waiting' : PartInv(from, move, first, last, way, k)'
  BY <1>1, <1>4, <1>5 DEF PathOf, PartInv, Joined
<1>9. IF st'.segment THEN Tracing(from, move, last, st)' ELSE Between(from, move, first, way)'
  BY <1>1, <1>5 DEF PathOf, Tracing, Between, OnBlock
<1>10. PathOf(from, move, first, last, way)'
  BY <1>1, <1>6, <1>7, <1>8, <1>9 DEF PathOf
<1> QED
  BY <1>10 DEF PathInv

LEMMA IdlePath ==
  ASSUME PathInv, Inv, Fine,
         CycleStart \/ Hold \/ Enter \/ Leave \/ WakeUp \/ (Load /\ prep.partial)
           \/ CycleStop \/ ProbeDone \/ UNCHANGED vars
  PROVE  PathInv'
<1>1. prep \in PrepType /\ DOMAIN st = DOMAIN EmptyStepper
  BY FineFacts DEF Inv, SlotInv, ShapeInv
<1>2. UNCHANGED <<planned, blocks, ring, head, tail, position, queue>>
  BY DEF CycleStart, Hold, Enter, Leave, WakeUp, Load, CycleStop, ProbeDone, vars, main, rest,
         interrupt, buffer
<1>3. UNCHANGED st \/ st' = [st EXCEPT !.dir = {}, !.out = {}]
  BY DEF CycleStart, Hold, Enter, Leave, WakeUp, Load, CycleStop, ProbeDone, vars, main, rest,
         interrupt, buffer
<1>4. /\ st'.segment = st.segment /\ st'.index = st.index /\ st'.counter = st.counter
      /\ st'.steps = st.steps /\ st'.count = st.count
  BY <1>1, <1>3 DEF EmptyStepper
<1>5. prep'.index = prep.index /\ Started' = Started
  <2>1. CASE Load /\ prep.partial
    <3>1. PICK moving, p :
            prep' = [prep EXCEPT !.loaded = TRUE, !.partial = FALSE,
                       !.index = prep.index, !.speed = moving, !.exit = p.exit,
                       !.complete = p.complete,
                       !.at = IF prep.at = "start" THEN "startLoaded" ELSE "loaded"]
      BY <2>1 DEF Load
    <3> QED
      BY <1>1, <2>1, <3>1 DEF Started, PrepType
  <2>2. CASE CycleStart \/ Enter \/ Leave \/ WakeUp
    <3>1. \E a : prep' = [prep EXCEPT !.at = a] \/ prep' = prep
      BY <2>2 DEF CycleStart, Enter, Leave, WakeUp
    <3> QED
      BY <1>1, <3>1 DEF Started, PrepType
  <2>3. CASE Hold
    <3>1. prep' = Replanned(prep) \/ prep' = prep
      BY <2>3 DEF Hold
    <3> QED
      BY <1>1, <3>1, ReplannedIs DEF Started, PrepType
  <2>4. CASE CycleStop \/ ProbeDone \/ UNCHANGED vars
    BY <2>4 DEF CycleStop, ProbeDone, vars, main, Started
  <2> QED
    BY <2>1, <2>2, <2>3, <2>4
<1> QED
  BY <1>2, <1>4, <1>5, PathKept

(* A probing motion is over where it stopped.                              *)
LEMMA CancelPath ==
  ASSUME SegmentBufferSize > 2, PathInv, Fine, ProbeFinish
  PROVE  PathInv'
<1>1. /\ queue' = <<>> /\ planned' = position /\ prep' = EmptyPrep /\ st' = EmptyStepper
      /\ head' = 0 /\ tail' = 0 /\ position' = position
  BY DEF ProbeFinish
<1>2. PICK from, move, first, last, way : PathOf(from, move, first, last, way)
  BY DEF PathInv
<1>3. Waiting' = 0 /\ Started' = FALSE /\ Unpublished' = 0 /\ Len(queue') = 0
  BY <1>1 DEF Waiting, Count, Started, Unpublished, EmptyPrep
<1>4. position \in [Axis -> Int]
  BY DEF Fine, Typed, PathOK
<1>5. PICK there \in [1 .. Len(queue') + 1 -> [Axis -> Int]] : there[1] = position
  <2>1. [i \in 1 .. Len(queue') + 1 |-> position] \in [1 .. Len(queue') + 1 -> [Axis -> Int]]
    BY <1>4
  <2>2. [i \in 1 .. Len(queue') + 1 |-> position][1] = position
    BY <1>3
  <2> QED
    BY <2>1, <2>2
<1>6. NextBlock(0) # 0
  BY SegmentsAssumption DEF NextBlock, NextIndex, SegmentsAssumption
<1>7. WayInv(there)' /\ HandInv(from, move, there)'
  BY <1>1, <1>3, <1>5 DEF WayInv, HandInv
<1>8. Between(from, move, first, there)'
  <2>1. BlockAt(1)' = NextBlock(0) /\ DoneAt(first, 1)' = 0
        /\ StartAt(from, there, 1)' = position
    BY <1>1, <1>3, <1>5 DEF DoneAt, StartAt, BlockAt, EmptyPrep
  <2> QED
    BY <1>1, <1>6, <2>1 DEF Between, EmptyStepper
<1>9. PathOf(from, move, first, last, there)'
  BY <1>1, <1>2, <1>3, <1>5, <1>7, <1>8 DEF PathOf, EmptyStepper
<1> QED
  BY <1>9 DEF PathInv

(* A block queued makes the way longer.                                    *)
LEMMA QueuePath == PathInv /\ Inv /\ Fine /\ (Queue \/ Probe) => PathInv'
<1> SUFFICES ASSUME PathInv, Inv, Fine, Queue \/ Probe PROVE PathInv'
  OBVIOUS
<1>1. PICK from, move, first, last, way : PathOf(from, move, first, last, way)
  BY DEF PathInv
<1>2. PICK v \in Moves, replan \in BOOLEAN :
        /\ queue' = Append(queue, [move |-> v, left |-> 2 * Events(v)])
        /\ planned' = [a \in Axis |-> planned[a] + v[a]]
        /\ prep' = IF replan THEN Replanned(prep) ELSE prep
  BY DEF Queue, Probe, BufferLine
<1>3. UNCHANGED <<blocks, ring, head, tail, position, st>>
  BY DEF Queue, Probe, BufferLine, rest, interrupt, buffer
<1>4. Len(queue) \in Nat /\ queue \in Seq(QueueType)
  BY FineFacts DEF Fine, Typed, QueueOK
<1>5. /\ Len(queue') = Len(queue) + 1
      /\ \A i \in 1 .. Len(queue) : queue'[i] = queue[i]
      /\ queue'[Len(queue) + 1] = [move |-> v, left |-> 2 * Events(v)]
      /\ queue # <<>> => Head(queue') = Head(queue)
  BY <1>2, <1>4
<1>6. /\ prep'.index = prep.index /\ Started' = Started /\ Unpublished' = Unpublished
      /\ Started => queue # <<>>
      /\ Unpublished \in {0, 1}
  <2>1. prep \in PrepType /\ (prep.loaded \/ prep.partial => queue # <<>>)
    BY FineFacts
  <2>2. /\ prep'.index = prep.index
        /\ (prep'.loaded \/ prep'.partial) = (prep.loaded \/ prep.partial)
    BY <1>2, <2>1, ReplannedIs DEF PrepType
  <2> QED
    BY <2>1, <2>2 DEF Started, Unpublished
<1>7. planned' \in [Axis -> Int] /\ planned' = Plus(planned, v)
  <2>1. v \in [Axis -> Int] /\ planned \in [Axis -> Int]
    BY SegmentsAssumption DEF SegmentsAssumption, Fine, Typed, PathOK
  <2> QED
    BY <1>2, <2>1 DEF Plus
<1>8. PICK long \in [1 .. Len(queue) + 2 -> [Axis -> Int]] :
        /\ \A i \in 1 .. Len(queue) + 1 : long[i] = way[i]
        /\ long[Len(queue) + 2] = planned'
  <2> DEFINE l == [i \in 1 .. Len(queue) + 2 |-> IF i <= Len(queue) + 1 THEN way[i] ELSE planned']
  <2>1. l \in [1 .. Len(queue) + 2 -> [Axis -> Int]]
    BY <1>1, <1>4, <1>7 DEF PathOf
  <2>2. \A i \in 1 .. Len(queue) + 1 : l[i] = way[i]
    BY <1>4
  <2>3. l[Len(queue) + 2] = planned'
    BY <1>4
  <2> QED
    BY <2>1, <2>2, <2>3
<1>9. long[1] = way[1] /\ long[Len(queue) + 1] = planned
  BY <1>1, <1>4, <1>8 DEF PathOf, WayInv
<1>10. Waiting' = Waiting /\ \A k : Here(k)' = Here(k)
  BY <1>3 DEF Waiting, Here
<1>11. \A k : BlockAt(k)' = BlockAt(k) /\ DoneAt(first, k)' = DoneAt(first, k)
              /\ StartAt(from, long, k)' = StartAt(from, way, k)
  <2> HIDE DEF Started, Waiting, Here
  <2> QED
    BY <1>3, <1>5, <1>6, <1>9, <1>10 DEF BlockAt, DoneAt, StartAt
<1> HIDE DEF Started, Waiting, Here, BlockAt, DoneAt, StartAt, Unpublished
<1>12. WayInv(long)'
  <2>1. long[Len(queue') + 1] = planned'
    BY <1>4, <1>5, <1>8
  <2>2. ASSUME NEW i \in 1 .. Len(queue') PROVE long[i + 1] = Plus(long[i], queue'[i].move)
    <3>1. CASE i \in 1 .. Len(queue)
      <4>1. long[i + 1] = way[i + 1] /\ long[i] = way[i] /\ queue'[i] = queue[i]
        BY <1>4, <1>5, <1>8, <3>1
      <4> QED
        BY <1>1, <3>1, <4>1 DEF PathOf, WayInv
    <3>2. CASE i = Len(queue) + 1
      BY <1>4, <1>5, <1>7, <1>8, <1>9, <3>2
    <3> QED
      BY <1>4, <1>5, <2>2, <3>1, <3>2
  <2>3. ASSUME NEW i \in Unpublished + 1 .. Len(queue')
        PROVE  queue'[i].left = 2 * Events(queue'[i].move)
    <3>1. CASE i \in Unpublished + 1 .. Len(queue)
      <4>1. queue'[i] = queue[i]
        BY <1>4, <1>5, <1>6, <3>1
      <4> QED
        BY <1>1, <3>1, <4>1 DEF PathOf, WayInv
    <3>2. CASE i = Len(queue) + 1
      BY <1>5, <3>2
    <3> QED
      BY <1>4, <1>5, <1>6, <2>3, <3>1, <3>2
  <2> QED
    BY <1>6, <2>1, <2>2, <2>3 DEF WayInv
<1>13. HandInv(from, move, long)'
  BY <1>1, <1>3, <1>5, <1>6, <1>9 DEF PathOf, HandInv
<1>14. \A k \in 1 .. Waiting' : PartInv(from, move, first, last, long, k)'
  BY <1>1, <1>3, <1>10, <1>11 DEF PathOf, PartInv, Joined
<1>15. IF st'.segment THEN Tracing(from, move, last, st)' ELSE Between(from, move, first, long)'
  BY <1>1, <1>3, <1>11 DEF PathOf, Tracing, Between, OnBlock
<1>16. long \in [1 .. Len(queue') + 1 -> [Axis -> Int]]
  BY <1>4, <1>5, <1>8
<1>17. PathOf(from, move, first, last, long)'
  BY <1>1, <1>12, <1>13, <1>14, <1>15, <1>16 DEF PathOf
<1> QED
  BY <1>17 DEF PathInv

LEMMA StepsWhole == \A x \in Nat : Steps(2 * x) = x
  BY DEF Steps

(* A block loaded takes a slot no segment is traced with.                  *)
LEMMA LoadPath == PathInv /\ Inv /\ Fine /\ Load /\ ~prep.partial => PathInv'
<1> SUFFICES ASSUME PathInv, Inv, Fine, Load, ~prep.partial PROVE PathInv'
  OBVIOUS
<1>1. PICK from, move, first, last, way : PathOf(from, move, first, last, way)
  BY DEF PathInv
<1> DEFINE i == NextBlock(prep.index)
<1>2. /\ ~prep.loaded /\ queue # <<>> /\ NextSlot(head) # tail
      /\ UNCHANGED <<queue, planned, ring, head, tail, position, st>>
      /\ blocks' = [blocks EXCEPT ![i] = Bresenham(Head(queue).move)]
  BY DEF Load, CanPrepare, Room, rest, interrupt, buffer
<1>3. PICK moving, p :
        prep' = [prep EXCEPT !.loaded = TRUE, !.partial = FALSE,
                   !.index = i, !.speed = moving, !.exit = p.exit,
                   !.complete = p.complete,
                   !.at = IF prep.at = "start" THEN "startLoaded" ELSE "loaded"]
  BY DEF Load
<1>4. /\ prep'.index = i /\ Started' /\ ~Started
      /\ Unpublished = 0 /\ Unpublished' = 1 /\ i \in Slots
  <2>1. prep \in PrepType
    BY FineFacts
  <2>2. i \in Slots
    BY <2>1, NextBlockRange DEF PrepType
  <2> HIDE DEF i
  <2> QED
    BY <1>2, <1>3, <2>1, <2>2 DEF Started, Unpublished, PrepType
<1>5. /\ Len(queue) \in Nat /\ Len(queue) >= 1 /\ Head(queue) = queue[1]
      /\ Head(queue).move \in Moves
  BY <1>2, QueueFacts DEF Fine, Typed, QueueOK
<1>6. \A k \in 1 .. Waiting : ring[Here(k)].index # i /\ ring[Here(k)].index \in Slots
  <2>1. ASSUME NEW k \in 1 .. Waiting PROVE ring[Here(k)].index \in Slots
    BY SlotRange DEF Inv, SlotInv, ShapeInv, Here, Waiting
  <2> QED
    BY <1>2, <2>1, NextIsFree DEF Inv, Here
<1>7. DOMAIN blocks = Slots
  BY DEF Inv, SlotInv, ShapeInv
<1>8. st.segment => st.index # i /\ ring[tail].index = st.index /\ st.index \in Slots
  <2> SUFFICES ASSUME st.segment PROVE st.index # i /\ ring[tail].index = st.index
                                       /\ st.index \in Slots
    OBVIOUS
  <2>1. head # tail /\ ring[tail].index = st.index /\ head \in 0 .. N - 1 /\ tail \in 0 .. N - 1
    BY DEF Inv, SlotInv, ShapeInv, TracedInv
  <2>2. Slot(tail, 1, N) = tail /\ 1 \in 1 .. Waiting
    BY <2>1, WaitingGet, WaitingRange DEF Waiting
  <2> QED
    BY <1>6, <2>1, <2>2 DEF Here
<1> HIDE DEF i
<1> DEFINE from2 == [from EXCEPT ![i] = way[1]]
           move2 == [move EXCEPT ![i] = Head(queue).move]
<1>9. PICK from3 \in [Slots -> [Axis -> Int]], move3 \in [Slots -> [Axis -> Int]] :
        /\ from3[i] = way[1] /\ move3[i] = Head(queue).move
        /\ \A o \in Slots : o # i => from3[o] = from[o] /\ move3[o] = move[o]
  <2>1. way[1] \in [Axis -> Int]
    <3>1. way \in [1 .. Len(queue) + 1 -> [Axis -> Int]]
      BY <1>1 DEF PathOf
    <3>2. 1 \in 1 .. Len(queue) + 1
      BY <1>5
    <3> QED
      BY <3>1, <3>2
  <2>2. Head(queue).move \in [Axis -> Int]
    BY <1>5, SegmentsAssumption DEF SegmentsAssumption
  <2>3. from2 \in [Slots -> [Axis -> Int]] /\ move2 \in [Slots -> [Axis -> Int]]
    BY <1>1, <1>4, <2>1, <2>2 DEF PathOf
  <2>4. /\ from2[i] = way[1] /\ move2[i] = Head(queue).move
        /\ \A o \in Slots : o # i => from2[o] = from[o] /\ move2[o] = move[o]
    BY <1>1, <1>4 DEF PathOf
  <2> QED
    BY <2>3, <2>4
<1> HIDE DEF from2, move2
<1>10. Waiting' = Waiting /\ Waiting \in Nat /\ \A k : Here(k)' = Here(k)
  <2>1. head \in 0 .. N - 1 /\ tail \in 0 .. N - 1
    BY DEF Inv, SlotInv, ShapeInv
  <2>2. Waiting \in Nat
    BY <2>1, WaitingRange DEF Waiting
  <2>3. head' = head /\ tail' = tail
    BY <1>2
  <2>4. Waiting' = Waiting
    BY <2>3 DEF Waiting
  <2>5. ASSUME NEW k PROVE Here(k)' = Here(k)
    BY <2>3 DEF Here
  <2> QED
    BY <2>2, <2>4, <2>5
<1>11. Head(queue).left = 2 * Events(Head(queue).move) /\ Events(Head(queue).move) \in Nat \ {0}
       /\ Steps(Head(queue).left) = Events(Head(queue).move)
  <2>1. queue[1].left = 2 * Events(queue[1].move)
    BY <1>1, <1>4, <1>5 DEF PathOf, WayInv
  <2>2. Events(Head(queue).move) \in Nat \ {0}
    BY <1>5, EventsRange
  <2>3. Steps(2 * Events(Head(queue).move)) = Events(Head(queue).move)
    BY <2>2, StepsWhole
  <2> QED
    BY <1>5, <2>1, <2>2, <2>3
<1>12. \A k \in 1 .. Waiting + 1 :
         /\ BlockAt(k)' = BlockAt(k) /\ DoneAt(first, k)' = DoneAt(first, k)
         /\ StartAt(from3, way, k)' = StartAt(from, way, k)
  <2> SUFFICES ASSUME NEW k \in 1 .. Waiting + 1
               PROVE  /\ BlockAt(k)' = BlockAt(k) /\ DoneAt(first, k)' = DoneAt(first, k)
                      /\ StartAt(from3, way, k)' = StartAt(from, way, k)
    OBVIOUS
  <2> HIDE DEF Started, Waiting, Here
  <2>1. CASE k <= Waiting
    BY <1>2, <1>6, <1>9, <1>10, <2>1 DEF BlockAt, DoneAt, StartAt
  <2>2. CASE ~(k <= Waiting)
    <3>1. Events(Head(queue').move) - Steps(Head(queue').left) = 0
      BY <1>2, <1>11
    <3> QED
      BY <1>2, <1>4, <1>10, <2>2, <3>1 DEF BlockAt, DoneAt, StartAt, i
  <2> QED
    BY <2>1, <2>2
<1> HIDE DEF Started, Waiting, Here, BlockAt, DoneAt, StartAt, Unpublished
<1>13. WayInv(way)'
  <2>1. \A o \in 2 .. Len(queue) : o \in 1 .. Len(queue)
    BY <1>5
  <2> QED
    BY <1>1, <1>2, <1>4, <1>5, <2>1 DEF PathOf, WayInv
<1>14. HandInv(from3, move3, way)'
  <2>1. blocks'[i] = Bresenham(Head(queue).move)
    BY <1>2, <1>4, <1>7
  <2> QED
    BY <1>2, <1>4, <1>9, <1>11, <2>1 DEF HandInv
<1>15. ASSUME NEW k \in 1 .. Waiting PROVE PartInv(from3, move3, first, last, way, k)'
  <2>1. PartInv(from, move, first, last, way, k)
    BY <1>1 DEF PathOf
  <2>2. k + 1 \in 1 .. Waiting + 1
    BY <1>10
  <2>3. ring[Here(k)].index # i /\ ring[Here(k)].index \in Slots
    BY <1>6
  <2>4. /\ blocks'[ring[Here(k)].index] = blocks[ring[Here(k)].index]
        /\ move3[ring[Here(k)].index] = move[ring[Here(k)].index]
        /\ from3[ring[Here(k)].index] = from[ring[Here(k)].index]
    BY <1>2, <1>7, <1>9, <2>3
  <2> QED
    BY <1>2, <1>10, <1>12, <2>1, <2>2, <2>4 DEF PartInv, Joined
<1>16. IF st'.segment THEN Tracing(from3, move3, last, st)'
       ELSE Between(from3, move3, first, way)'
  <2>1. CASE st.segment
    <3>1. /\ blocks'[st.index] = blocks[st.index] /\ move3[st.index] = move[st.index]
          /\ from3[st.index] = from[st.index]
      BY <1>2, <1>7, <1>8, <1>9, <2>1
    <3> QED
      BY <1>1, <1>2, <2>1, <3>1 DEF PathOf, Tracing, OnBlock
  <2>2. CASE ~st.segment
    <3>1. 1 \in 1 .. Waiting + 1
      BY <1>10
    <3>2. CASE DoneAt(first, 1) = 0
      BY <1>1, <1>2, <1>12, <2>2, <3>1, <3>2 DEF PathOf, Between
    <3>3. CASE DoneAt(first, 1) # 0
      <4>1. st.index = BlockAt(1) /\ 1 \in 1 .. Waiting
        BY <1>1, <1>4, <1>10, <2>2, <3>3 DEF PathOf, Between, DoneAt
      <4>2. st.index # i /\ st.index \in Slots
        BY <1>6, <4>1 DEF BlockAt
      <4>3. /\ blocks'[st.index] = blocks[st.index] /\ move3[st.index] = move[st.index]
            /\ from3[st.index] = from[st.index]
        BY <1>2, <1>7, <1>9, <4>2
      <4> QED
        BY <1>1, <1>2, <1>12, <2>2, <3>1, <3>3, <4>3 DEF PathOf, Between, OnBlock
    <3> QED
      BY <3>2, <3>3
  <2> QED
    BY <2>1, <2>2
<1>17. PathOf(from3, move3, first, last, way)'
  BY <1>1, <1>2, <1>9, <1>10, <1>13, <1>14, <1>15, <1>16 DEF PathOf
<1> QED
  BY <1>17 DEF PathInv

LEMMA StepsOrder ==
  ASSUME NEW l \in Nat \ {0}, NEW now \in 0 .. l
  PROVE  /\ Steps(now) \in Nat /\ Steps(l) \in Nat /\ Steps(now) <= Steps(l)
         /\ now > 0 => Steps(now) > 0
         /\ now = 0 => Steps(now) = 0
         /\ Steps(2 * Steps(now)) = Steps(now)
  BY DEF Steps

LEMMA TicksExact ==
  ASSUME NEW n \in 0 .. MaxSegment, NEW level \in 0 .. MaxAmassLevel
  PROVE  Ticks(n, level) = n * Factor(level)
<1> DEFINE f == Factor(level)
           g == Factor(MaxAmassLevel)
           x == n * f
<1>1. /\ MaxSegment \in Nat /\ MaxSegment * g < WordSize
      /\ f \in Nat /\ f >= 1 /\ f <= g /\ g \in Nat /\ n \in Nat /\ n <= MaxSegment
  BY PowersOfTwo, SegmentFits, SegmentsAssumption DEF SegmentFits, SegmentsAssumption
<1>2. Ticks(n, level) = x % WordSize
  BY DEF Ticks
<1> HIDE DEF f, g
<1>3. n * f <= MaxSegment * f /\ MaxSegment * f <= MaxSegment * g
  BY <1>1
<1>4. x \in Nat /\ x < WordSize
  BY <1>1, <1>3, WordSizeRange
<1> HIDE DEF x
<1> QED
  BY <1>2, <1>4, Fits DEF x, f

(* A segment takes whole steps off the block in hand, or loses a half step *)
(* of it.                                                                  *)
LEMMA SegmentCases ==
  ASSUME All, Segment
  PROVE  LET left == Head(queue).left
         IN /\ prep.loaded /\ NextSlot(head) # tail /\ queue # <<>> /\ left \in Nat \ {0}
            /\ \E now \in 0 .. left, level \in 0 .. MaxAmassLevel :
                 LET n == Steps(left) - Steps(now)
                 IN \/ n = 0 /\ now > 0 /\ StopShort(now)
                    \/ n \in 1 .. MaxSegment /\ Publish(n, level) /\ CheckOut(now)
<1> DEFINE left == Head(queue).left
<1>1. prep.loaded /\ NextSlot(head) # tail /\ left \in Nat \ {0} /\ prep.complete \in Nat
      /\ queue # <<>>
  BY SegmentIs, FineFacts DEF All
<1>2. PICK now \in Ends(left), level \in 0 .. MaxAmassLevel :
        LET n == Steps(left) - Steps(now)
        IN IF n = 0 /\ Holding THEN level = 0 /\ StopShort(now)
           ELSE Publish(n, level) /\ CheckOut(now)
  BY DEF Segment
<1> DEFINE n == Steps(left) - Steps(now)
<1>3. /\ now \in prep.complete .. left /\ left - now <= MaxSegment
      /\ left - now >= MinSegment \/ now = prep.complete
  BY <1>2 DEF Ends
<1>4. IF n = 0 /\ Holding THEN StopShort(now) ELSE Publish(n, level) /\ CheckOut(now)
  BY <1>2
<1>5. ~Holding => prep.complete = 0
  BY <1>1 DEF All, StopInv
<1> HIDE DEF left
<1>6. now \in 0 .. left
  BY <1>1, <1>3
<1>7. /\ n \in Nat /\ n <= left - now
      /\ left - now >= MinSegment \/ now = 0 => n > 0
  BY <1>1, <1>6, StepsFacts
<1> HIDE DEF n, Holding
<1>8. n <= MaxSegment
  BY <1>1, <1>3, <1>6, <1>7, SegmentFits DEF SegmentFits
<1>9. n = 0 => now > 0 /\ Holding
  BY <1>3, <1>5, <1>6, <1>7
<1>10. \/ n = 0 /\ now > 0 /\ StopShort(now)
       \/ n \in 1 .. MaxSegment /\ Publish(n, level) /\ CheckOut(now)
  BY <1>4, <1>7, <1>8, <1>9, SegmentFits DEF SegmentFits
<1> QED
  BY <1>1, <1>2, <1>6, <1>10, Zenon DEF left, n

(* The half step lost at the end of a hold is none of the steps left.      *)
LEMMA StopPath ==
  ASSUME PathInv, All, Segment, NEW now \in 0 .. Head(queue).left, now > 0,
         Steps(Head(queue).left) - Steps(now) = 0, StopShort(now)
  PROVE  PathInv'
<1>1. prep.loaded /\ queue # <<>> /\ Head(queue).left \in Nat \ {0}
      /\ prep \in PrepType /\ Len(queue) \in Nat /\ Len(queue) >= 1
  BY SegmentCases, FineFacts DEF All
<1>2. /\ prep' = Forced /\ queue' = [queue EXCEPT ![1].left = 2 * Steps(now)]
      /\ UNCHANGED <<planned, blocks, ring, head, tail, position, st>>
  BY DEF StopShort, Segment, interrupt
<1>3. Replanned(prep) \in PrepType /\ Replanned(prep).partial
      /\ Replanned(prep).index = prep.index
  BY <1>1, ReplannedIs
<1>4. prep'.index = prep.index /\ Started' = Started
  BY <1>1, <1>2, <1>3 DEF Forced, PrepType, Started
<1>5. queue \in Seq(QueueType)
  BY DEF All, Fine, Typed, QueueOK
<1>6. /\ Len(queue') = Len(queue)
      /\ \A i \in 1 .. Len(queue) : queue'[i].move = queue[i].move
      /\ \A i \in 2 .. Len(queue) : queue'[i].left = queue[i].left
      /\ queue'[1].left = 2 * Steps(now)
  BY <1>1, <1>2, <1>5 DEF QueueType
<1>7. Unpublished = 1
  BY <1>1 DEF Unpublished
<1>8. Steps(queue'[1].left) = Steps(queue[1].left)
  <2>1. Steps(2 * Steps(now)) = Steps(now) /\ Steps(now) \in Nat
        /\ Steps(Head(queue).left) \in Nat
    BY <1>1, StepsOrder
  <2> QED
    BY <1>1, <1>6, <2>1
<1> QED
  BY <1>2, <1>4, <1>6, <1>7, <1>8, PathKept DEF All

(* A segment continues the way where the preparation stood, and leaves it  *)
(* behind its last step: within the block, or at the start of the next.    *)
LEMMA PublishPath ==
  ASSUME PathInv, All, Segment, NEW now \in 0 .. Head(queue).left,
         NEW level \in 0 .. MaxAmassLevel, NEW n \in 1 .. MaxSegment,
         n = Steps(Head(queue).left) - Steps(now), Publish(n, level), CheckOut(now)
  PROVE  PathInv'
<1>a. PICK v, left, i : v = Head(queue).move /\ left = Head(queue).left /\ i = prep.index
  OBVIOUS
<1>1. PICK from, move, first, last, way : PathOf(from, move, first, last, way)
  BY DEF PathInv
<1>2. /\ prep.loaded /\ queue # <<>> /\ NextSlot(head) # tail
      /\ prep \in PrepType /\ Len(queue) \in Nat /\ Len(queue) >= 1
  BY SegmentCases, FineFacts DEF All
<1>3. /\ left \in Nat \ {0} /\ v \in Moves /\ queue \in Seq(QueueType)
      /\ Head(queue) = queue[1] /\ i \in Slots
  BY <1>a, <1>2, QueueFacts DEF All, Fine, Typed, QueueOK, PrepType
<1>4. /\ UNCHANGED <<planned, blocks, tail, position, st>>
      /\ ring' = [ring EXCEPT ![head] = [n |-> Ticks(n, level), index |-> i, level |-> level]]
      /\ head' = NextSlot(head)
  BY <1>a DEF Segment, interrupt, Publish
<1>5. Started /\ Unpublished = 1
  BY <1>2 DEF Started, Unpublished
<1>b. PICK size, begin, end :
         size = Events(v) /\ begin = size - Steps(left) /\ end = size - Steps(now)
  OBVIOUS
<1>6. /\ size \in Nat \ {0} /\ Steps(left) \in Nat /\ Steps(now) \in Nat
      /\ Steps(left) \in 1 .. size
      /\ now > 0 => Steps(now) > 0
      /\ now = 0 => Steps(now) = 0
      /\ Steps(2 * Steps(now)) = Steps(now)
  BY <1>a, <1>b, <1>1, <1>3, <1>5, EventsRange, StepsOrder DEF PathOf, HandInv
<1>7. /\ move[i] = v /\ from[i] = way[1] /\ blocks[i] = Bresenham(v)
  BY <1>a, <1>1, <1>5 DEF PathOf, HandInv
<1>8. /\ begin \in Nat /\ end \in Nat /\ begin < end /\ end <= size /\ end - begin = n
      /\ now > 0 => end < size /\ Steps(now) \in 1 .. size
      /\ now = 0 => end = size
  BY <1>a, <1>b, <1>6
<1>9. /\ DOMAIN ring = 0 .. N - 1 /\ head \in 0 .. N - 1 /\ tail \in 0 .. N - 1
      /\ Waiting \in Nat
  BY WaitingRange DEF All, Inv, SlotInv, ShapeInv, Waiting
<1>10. /\ ring'[head] = [n |-> n * Factor(level), index |-> i, level |-> level]
       /\ \A j \in 0 .. N - 1 : j # head => ring'[j] = ring[j]
  <2>1. Ticks(n, level) = n * Factor(level)
    BY TicksExact
  <2> QED
    BY <1>4, <1>9, <2>1
<1>11. /\ Waiting' = Waiting + 1 /\ Here(Waiting + 1) = head
       /\ \A k : Here(k)' = Here(k)
       /\ \A k \in 1 .. Waiting : Here(k) \in 0 .. N - 1 /\ Here(k) # head
  BY <1>2, <1>4, <1>9, WaitingPut DEF Waiting, Here
<1>12. PICK first2 \in [0 .. N - 1 -> Nat], last2 \in [0 .. N - 1 -> Nat] :
         /\ first2[head] = begin /\ last2[head] = end
         /\ \A j \in 0 .. N - 1 : j # head => first2[j] = first[j] /\ last2[j] = last[j]
  <2> DEFINE f == [first EXCEPT ![head] = begin]
             l == [last EXCEPT ![head] = end]
  <2>1. first \in [0 .. N - 1 -> Nat] /\ last \in [0 .. N - 1 -> Nat]
    BY <1>1 DEF PathOf
  <2>2. f \in [0 .. N - 1 -> Nat] /\ l \in [0 .. N - 1 -> Nat]
    BY <1>8, <1>9, <2>1
  <2>3. /\ f[head] = begin /\ l[head] = end
        /\ \A j \in 0 .. N - 1 : j # head => f[j] = first[j] /\ l[j] = last[j]
    BY <1>9, <2>1
  <2> QED
    BY <2>2, <2>3
<1>c. PICK w : w = Waiting + 2
  OBVIOUS
<1> HIDE DEF Waiting, Here
<1>13. PICK way2 \in [1 .. Len(queue') + 1 -> [Axis -> Int]] :
         /\ WayInv(way2)' /\ HandInv(from, move, way2)'
         /\ Joined(from, move, first2, way2, i, end, w)'
  <2>1. way \in [1 .. Len(queue) + 1 -> [Axis -> Int]] /\ WayInv(way)
    BY <1>1 DEF PathOf
  <2>2. CASE now > 0
    <3>1. PICK l : /\ queue' = [queue EXCEPT ![1].left = l] /\ Steps(l) = Steps(now)
                   /\ prep' = [prep EXCEPT !.speed = TRUE, !.at = Back] \/ prep' = Forced
      <4>1. CASE now > prep.complete
        BY <4>1 DEF CheckOut
      <4>2. CASE ~(now > prep.complete)
        BY <1>6, <2>2, <4>2 DEF CheckOut
      <4> QED
        BY <4>1, <4>2
    <3>2. prep'.index = i /\ Started' /\ Unpublished' = 1
      <4>1. Replanned(prep) \in PrepType /\ Replanned(prep).partial
            /\ Replanned(prep).index = prep.index
        BY <1>2, ReplannedIs
      <4> QED
        BY <1>a, <1>2, <3>1, <4>1 DEF Forced, PrepType, Started, Unpublished
    <3>3. /\ Len(queue') = Len(queue)
          /\ \A o \in 1 .. Len(queue) : queue'[o].move = queue[o].move
          /\ \A o \in 2 .. Len(queue) : queue'[o].left = queue[o].left
          /\ queue'[1].left = l
      BY <1>2, <1>3, <3>1 DEF QueueType
    <3>4. Head(queue') = queue'[1] /\ queue'[1].move = v
      BY <1>2, <1>3, <3>3, <1>a
    <3> HIDE DEF Started, Unpublished
    <3>5. WayInv(way)'
      <4>1. \A o \in 2 .. Len(queue) : o \in 1 .. Len(queue)
        BY <1>2
      <4> QED
        BY <1>4, <1>5, <2>1, <3>2, <3>3, <4>1 DEF WayInv
    <3>6. HandInv(from, move, way)'
      <4>1. Steps(Head(queue').left) \in 1 .. Events(v)
        <5>1. Steps(now) \in 1 .. size
          BY <1>8, <2>2
        <5>2. Steps(Head(queue').left) = Steps(now)
          BY <3>1, <3>3, <3>4
        <5> QED
          BY <1>b, <5>1, <5>2
      <4> QED
        BY <1>4, <1>7, <3>2, <3>4, <4>1 DEF HandInv
    <3>7. Joined(from, move, first2, way, i, end, w)'
      <4>1. ~(w <= Waiting')
        BY <1>9, <1>11, <1>c
      <4>2. BlockAt(w)' = i
        BY <1>11, <3>2, <4>1 DEF BlockAt
      <4>3. DoneAt(first2, w)' = end
        BY <1>11, <3>1, <3>2, <3>3, <3>4, <4>1, <1>b DEF DoneAt
      <4> QED
        BY <1>7, <1>8, <2>2, <4>2, <4>3, <1>b DEF Joined
    <3> QED
      BY <2>1, <3>3, <3>5, <3>6, <3>7
  <2>3. CASE now = 0
    <3>1. queue' = Tail(queue) /\ prep' = [prep EXCEPT !.loaded = FALSE, !.speed = TRUE, !.at = Back]
      <4>1. ~(now > prep.complete) /\ ~(now > 0)
        BY <1>2, <2>3 DEF PrepType
      <4> QED
        BY <4>1 DEF CheckOut
    <3>2. ~prep.partial
      BY <1>2, FineFacts DEF All
    <3>3. prep'.index = i /\ ~Started' /\ Unpublished' = 0
      BY <1>a, <1>2, <3>1, <3>2 DEF Started, Unpublished, PrepType
    <3>4. Len(queue') = Len(queue) - 1 /\ \A o \in 1 .. Len(queue) - 1 : queue'[o] = queue[o + 1]
      BY <1>2, <1>3, <3>1
    <3>5. PICK short \in [1 .. Len(queue) -> [Axis -> Int]] :
             \A o \in 1 .. Len(queue) : short[o] = way[o + 1]
      <4> DEFINE s == [o \in 1 .. Len(queue) |-> way[o + 1]]
      <4>1. \A o \in 1 .. Len(queue) : o + 1 \in 1 .. Len(queue) + 1
        BY <1>2
      <4>2. s \in [1 .. Len(queue) -> [Axis -> Int]]
        BY <2>1, <4>1
      <4> QED
        BY <4>2
    <3>6. short[1] = Plus(from[i], v)
      <4>1. 1 \in 1 .. Len(queue)
        BY <1>2
      <4>2. short[1] = way[2] /\ way[2] = Plus(way[1], queue[1].move)
        BY <2>1, <3>5, <4>1 DEF WayInv
      <4> QED
        BY <1>3, <1>7, <4>2, <1>a
    <3> HIDE DEF Started, Unpublished
    <3>7. WayInv(short)'
      <4>1. short[Len(queue') + 1] = planned'
        BY <1>2, <1>4, <2>1, <3>4, <3>5 DEF WayInv
      <4>2. ASSUME NEW o \in 1 .. Len(queue')
            PROVE  /\ short[o + 1] = Plus(short[o], queue'[o].move)
                   /\ queue'[o].left = 2 * Events(queue'[o].move)
        <5>1. o \in 1 .. Len(queue) /\ o + 1 \in 1 .. Len(queue) /\ o + 1 \in 2 .. Len(queue)
          BY <1>2, <3>4
        <5>2. short[o] = way[o + 1] /\ short[o + 1] = way[(o + 1) + 1] /\ queue'[o] = queue[o + 1]
          BY <3>4, <3>5, <5>1
        <5>3. way[(o + 1) + 1] = Plus(way[o + 1], queue[o + 1].move)
              /\ queue[o + 1].left = 2 * Events(queue[o + 1].move)
          BY <1>5, <2>1, <5>1 DEF WayInv
        <5> QED
          BY <5>2, <5>3
      <4>3. Unpublished' + 1 = 1
        BY <3>3
      <4> QED
        BY <4>1, <4>2, <4>3 DEF WayInv
    <3>8. HandInv(from, move, short)'
      BY <3>3 DEF HandInv
    <3>9. Joined(from, move, first2, short, i, end, w)'
      <4>1. ~(w <= Waiting')
        BY <1>9, <1>11, <1>c
      <4>2. BlockAt(w)' = NextBlock(i)
        BY <1>11, <3>3, <4>1 DEF BlockAt
      <4>3. DoneAt(first2, w)' = 0
        BY <1>11, <3>3, <4>1 DEF DoneAt
      <4>4. StartAt(from, short, w)' = short[1]
        BY <1>11, <4>1 DEF StartAt
      <4> QED
        BY <1>7, <1>8, <2>3, <3>6, <4>2, <4>3, <4>4, <1>b DEF Joined
    <3>10. 1 .. Len(queue') + 1 = 1 .. Len(queue)
      BY <1>2, <3>4
    <3> QED
      BY <3>5, <3>7, <3>8, <3>9, <3>10
  <2>4. now > 0 \/ now = 0
    BY <1>3, <1>a
  <2> QED
    BY <2>2, <2>3, <2>4
<1>14. ASSUME NEW k \in 1 .. Waiting + 1
       PROVE  /\ BlockAt(k)' = BlockAt(k) /\ DoneAt(first2, k)' = DoneAt(first, k)
              /\ StartAt(from, way2, k)' = StartAt(from, way, k)
  <2>1. k <= Waiting'
    BY <1>9, <1>11
  <2>2. CASE k <= Waiting
    <3>1. Here(k) \in 0 .. N - 1 /\ Here(k) # head
      BY <1>11, <2>2
    <3> QED
      BY <1>10, <1>11, <1>12, <2>1, <2>2, <3>1 DEF BlockAt, DoneAt, StartAt
  <2>3. CASE k = Waiting + 1
    <3>1. ~(k <= Waiting) /\ Here(k) = head
      BY <1>9, <1>11, <2>3
    <3>2. BlockAt(k)' = i /\ DoneAt(first2, k)' = begin /\ StartAt(from, way2, k)' = from[i]
      BY <1>10, <1>11, <1>12, <2>1, <3>1 DEF BlockAt, DoneAt, StartAt
    <3>3. BlockAt(k) = i /\ DoneAt(first, k) = begin /\ StartAt(from, way, k) = way[1]
      BY <1>5, <3>1, <1>a, <1>b DEF BlockAt, DoneAt, StartAt
    <3> QED
      BY <1>7, <3>2, <3>3
  <2> QED
    BY <1>9, <2>2, <2>3
<1> HIDE DEF Started, BlockAt, DoneAt, StartAt
<1>15. ASSUME NEW k \in 1 .. Waiting' PROVE PartInv(from, move, first2, last2, way2, k)'
  <2>1. CASE k \in 1 .. Waiting
    <3>1. PartInv(from, move, first, last, way, k)
      BY <1>1, <2>1 DEF PathOf
    <3>2. k + 1 \in 1 .. Waiting + 1 /\ Here(k) \in 0 .. N - 1 /\ Here(k) # head
      BY <1>9, <1>11, <2>1
    <3>3. ring'[Here(k)] = ring[Here(k)] /\ first2[Here(k)] = first[Here(k)]
          /\ last2[Here(k)] = last[Here(k)]
      BY <1>10, <1>12, <3>2
    <3>4. /\ BlockAt(k + 1)' = BlockAt(k + 1) /\ DoneAt(first2, k + 1)' = DoneAt(first, k + 1)
          /\ StartAt(from, way2, k + 1)' = StartAt(from, way, k + 1)
      BY <1>14, <3>2
    <3> QED
      BY <1>4, <1>11, <3>1, <3>3, <3>4 DEF PartInv, Joined
  <2>2. CASE k = Waiting + 1
    <3>1. Here(k)' = head /\ k + 1 = w
      BY <1>9, <1>11, <1>c, <2>2
    <3>2. Joined(from, move, first2, way2, i, end, k + 1)'
      BY <1>13, <3>1
    <3>3. ring'[head].index = i /\ ring'[head].level = level
          /\ ring'[head].n = (end - begin) * Factor(level)
      BY <1>8, <1>10
    <3> QED
      BY <1>3, <1>4, <1>7, <1>8, <1>12, <3>1, <3>2, <3>3, <1>b DEF PartInv
  <2> QED
    BY <1>9, <1>11, <2>1, <2>2
<1>16. IF st'.segment THEN Tracing(from, move, last2, st)'
       ELSE Between(from, move, first2, way2)'
  <2>1. CASE st.segment
    <3>1. tail # head
      BY <2>1 DEF All, Inv, SlotInv, TracedInv
    <3>2. ring'[tail] = ring[tail] /\ last2[tail] = last[tail]
      BY <1>9, <1>10, <1>12, <3>1
    <3> QED
      BY <1>1, <1>4, <2>1, <3>2 DEF PathOf, Tracing, OnBlock
  <2>2. CASE ~st.segment
    <3>1. 1 \in 1 .. Waiting + 1
      BY <1>9
    <3>2. /\ BlockAt(1)' = BlockAt(1) /\ DoneAt(first2, 1)' = DoneAt(first, 1)
          /\ StartAt(from, way2, 1)' = StartAt(from, way, 1)
      BY <1>14, <3>1
    <3> QED
      BY <1>1, <1>4, <2>2, <3>2 DEF PathOf, Between, OnBlock
  <2> QED
    BY <2>1, <2>2
<1>17. PathOf(from, move, first2, last2, way2)'
  BY <1>1, <1>12, <1>13, <1>15, <1>16 DEF PathOf
<1> QED
  BY <1>17 DEF PathInv

LEMMA SegmentPath == PathInv /\ All /\ Segment => PathInv'
<1> SUFFICES ASSUME PathInv, All, Segment PROVE PathInv'
  OBVIOUS
<1>1. PICK now \in 0 .. Head(queue).left, level \in 0 .. MaxAmassLevel :
        LET n == Steps(Head(queue).left) - Steps(now)
        IN \/ n = 0 /\ now > 0 /\ StopShort(now)
           \/ n \in 1 .. MaxSegment /\ Publish(n, level) /\ CheckOut(now)
  BY SegmentCases
<1> QED
  BY <1>1, StopPath, PublishPath

LEMMA BlockFacts ==
  ASSUME MaxAmassLevel > 0, NEW v \in Moves
  PROVE  /\ Bresenham(v).events = Events(v) * Scale
         /\ Bresenham(v).events \in Nat /\ Bresenham(v).events >= 2
         /\ Events(v) \in Nat /\ Events(v) >= 1
         /\ Bresenham(v).dir = {a \in Axis : v[a] < 0}
         /\ \A a \in Axis : /\ Magnitude(v)[a] \in Nat /\ v[a] \in Int
                            /\ Magnitude(v)[a] = IF v[a] < 0 THEN -v[a] ELSE v[a]
                            /\ Bresenham(v).steps[a] = Magnitude(v)[a] * Scale
                            /\ Bresenham(v).steps[a] \in Nat
                            /\ Bresenham(v).steps[a] <= Bresenham(v).events
<1> DEFINE e == Events(v)
           m == Magnitude(v)
           c == Scale
<1>1. c \in Nat /\ c >= 2
  BY ScaleRange
<1>2. m \in [Axis -> Nat] /\ e \in Nat /\ e >= 1 /\ \A a \in Axis : m[a] <= e
  BY EventsRange
<1>3. v \in [Axis -> Int] /\ \A a \in Axis : m[a] = IF v[a] < 0 THEN -v[a] ELSE v[a]
  BY SegmentsAssumption DEF SegmentsAssumption, Magnitude
<1>4. /\ Bresenham(v).events = e * c /\ Bresenham(v).dir = {a \in Axis : v[a] < 0}
      /\ \A a \in Axis : Bresenham(v).steps[a] = m[a] * c
  BY DEF Bresenham
<1> HIDE DEF e, m, c
<1>5. e * c \in Nat /\ e * c >= c
  BY <1>1, <1>2
<1>6. \A a \in Axis : m[a] * c \in Nat /\ m[a] * c <= e * c
  <2> SUFFICES ASSUME NEW a \in Axis PROVE m[a] * c \in Nat /\ m[a] * c <= e * c
    OBVIOUS
  <2>1. m[a] \in Nat /\ m[a] <= e
    BY <1>2
  <2> QED
    BY <1>1, <1>2, <2>1
<1> QED
  BY <1>1, <1>2, <1>3, <1>4, <1>5, <1>6 DEF e, m, c

(* The oldest segment.                                                     *)
LEMMA OldestPart ==
  ASSUME Inv, Fine, head # tail, NEW from, NEW move, NEW first, NEW last, NEW way,
         PathOf(from, move, first, last, way)
  PROVE  LET i == ring[tail].index
         IN /\ i \in Slots /\ ring[tail].level \in 0 .. MaxAmassLevel /\ ring[tail].n \in Nat
            /\ move[i] \in Moves /\ blocks[i] = Bresenham(move[i])
            /\ first[tail] \in Nat /\ last[tail] \in Nat
            /\ first[tail] < last[tail] /\ last[tail] <= Events(move[i])
            /\ ring[tail].n = (last[tail] - first[tail]) * Factor(ring[tail].level)
            /\ Joined(from, move, first, way, i, last[tail], 2)
            /\ BlockAt(1) = i /\ DoneAt(first, 1) = first[tail]
            /\ StartAt(from, way, 1) = from[i]
<1>1. head \in 0 .. N - 1 /\ tail \in 0 .. N - 1
  BY DEF Inv, SlotInv, ShapeInv
<1>2. Waiting \in Nat /\ Waiting >= 1 /\ Here(1) = tail
  BY <1>1, WaitingRange, WaitingGet DEF Waiting, Here
<1>3. ring[tail] \in SegmentType
  BY <1>1 DEF Fine, Typed, BufferOK
<1>4. ring[tail].index \in Slots /\ ring[tail].level \in 0 .. MaxAmassLevel
      /\ ring[tail].n \in Nat
  BY <1>3, WordTypes DEF SegmentType
<1> HIDE DEF Waiting, Here
<1>5. PartInv(from, move, first, last, way, 1)
  BY <1>2 DEF PathOf
<1>6. first[tail] \in Nat /\ last[tail] \in Nat
  BY <1>1 DEF PathOf
<1>7. BlockAt(1) = ring[tail].index /\ DoneAt(first, 1) = first[tail]
      /\ StartAt(from, way, 1) = from[ring[tail].index]
  BY <1>2 DEF BlockAt, DoneAt, StartAt
<1>8. 1 + 1 = 2
  OBVIOUS
<1> QED
  BY <1>2, <1>4, <1>5, <1>6, <1>7, <1>8, Zenon DEF PartInv

(* A tracer that pops a segment goes on where the one before ended.        *)
LEMMA PoppedPath ==
  ASSUME MaxAmassLevel > 0, Inv, Fine, timer, st.segment \/ head # tail,
         NEW from, NEW move, NEW first, NEW last, NEW way,
         PathOf(from, move, first, last, way)
  PROVE  Tracing(from, move, last, LoadedStepper)
<1>1. CASE st.segment
  <2>1. LoadedStepper = st
    BY <1>1 DEF LoadedStepper
  <2> QED
    BY <1>1, <2>1 DEF PathOf
<1>2. CASE ~st.segment
  <2> DEFINE s == LoadedStepper
             g == ring[tail]
             i == g.index
             v == move[i]
             b == blocks[i]
             d == last[tail]
             f == first[tail]
  <2>1. head # tail
    BY <1>2
  <2>2. /\ i \in Slots /\ g.level \in 0 .. MaxAmassLevel /\ g.n \in Nat
        /\ v \in Moves /\ b = Bresenham(v) /\ f \in Nat /\ d \in Nat /\ f < d
        /\ g.n = (d - f) * Factor(g.level)
        /\ BlockAt(1) = i /\ DoneAt(first, 1) = f /\ StartAt(from, way, 1) = from[i]
    BY <2>1, OldestPart
  <2>3. Between(from, move, first, way)
    BY <1>2 DEF PathOf
  <2>4. st \in StepperType
    BY DEF Fine, Typed, StepperOK
  <2>5. /\ s.index = i /\ s.count = g.n
        /\ s.counter = IF i = st.index THEN st.counter ELSE [a \in Axis |-> b.events \div 2]
        /\ \A a \in Axis : s.steps[a] = b.steps[a] \div Factor(g.level)
    <3>1. s = [st EXCEPT !.segment = TRUE, !.index = i, !.count = g.n,
                 !.counter = IF i = st.index THEN st.counter
                             ELSE [a \in Axis |-> b.events \div 2],
                 !.dir = b.dir, !.steps = [a \in Axis |-> b.steps[a] \div Factor(g.level)]]
      BY <1>2, Zenon DEF LoadedStepper
    <3> HIDE DEF s, i, b, g
    <3> QED
      BY <2>4, <3>1 DEF StepperType
  <2>6. PICK fac : fac = Factor(g.level)
    OBVIOUS
  <2>7. fac \in Nat /\ fac >= 1
    BY <2>2, <2>6, PowersOfTwo
  <2>8. g.n > 0
    <3> HIDE DEF g, d, f
    <3>1. d - f \in Nat /\ d - f >= 1
      BY <2>2
    <3>2. (d - f) * fac >= 1
      BY <2>7, <3>1
    <3> QED
      BY <2>2, <2>6, <3>2
  <2>9. OnBlock(from, move, s, i, d)
    <3> SUFFICES ASSUME NEW a \in Axis
                 PROVE  Balanced(b.events, b.steps[a], Taken(v[a], from[i][a], position[a]),
                                 s.counter[a], s.count * s.steps[a], d)
      BY DEF OnBlock
    <3>1. /\ b.events \in Nat /\ b.events >= 2 /\ b.steps[a] \in Nat
          /\ b.steps[a] = Magnitude(v)[a] * Scale /\ Magnitude(v)[a] \in Nat
          /\ v[a] \in Int
      BY <2>2, BlockFacts
    <3>2. from[i][a] \in Int /\ position[a] \in Int
      BY <2>2 DEF PathOf, Fine, Typed, PathOK
    <3>3. s.count * s.steps[a] = (d - f) * b.steps[a]
      <4>1. d - f \in Nat
        BY <2>2
      <4>2. ((d - f) * Factor(g.level)) * ((Magnitude(v)[a] * Scale) \div Factor(g.level))
              = (d - f) * (Magnitude(v)[a] * Scale)
        BY <2>2, <3>1, <4>1, LevelTotal
      <4>3. s.steps[a] = (Magnitude(v)[a] * Scale) \div Factor(g.level)
        BY <2>5, <3>1
      <4> HIDE DEF s, g, v, d, f, b
      <4> QED
        BY <2>2, <2>5, <3>1, <4>2, <4>3
    <3>4. CASE f = 0
      <4>1. position = from[i] /\ st.index # i
        BY <2>2, <2>3, <3>4 DEF Between
      <4>2. s.counter[a] = b.events \div 2
        BY <2>5, <4>1
      <4>3. Taken(v[a], from[i][a], position[a]) = 0
        BY <3>1, <3>2, <4>1 DEF Taken
      <4> HIDE DEF s, g, v, d, f, b, i
      <4>4. b.events \div 2 \in 1 .. b.events
        BY <3>1
      <4>5. d - f = d
        BY <2>2, <3>4
      <4>6. 0 * b.events = 0 /\ d * b.steps[a] \in Int /\ b.events \div 2 \in Int
        BY <2>2, <3>1
      <4> QED
        BY <3>3, <4>2, <4>3, <4>4, <4>5, <4>6 DEF Balanced
    <3>5. CASE f # 0
      <4>1. st.count = 0 /\ st.index = i /\ OnBlock(from, move, st, i, f)
        BY <2>2, <2>3, <3>5 DEF Between
      <4>2. Balanced(b.events, b.steps[a], Taken(v[a], from[i][a], position[a]),
                     st.counter[a], st.count * st.steps[a], f)
        BY <4>1 DEF OnBlock
      <4>3. s.counter[a] = st.counter[a]
        BY <2>5, <4>1
      <4>4. st.steps[a] \in Nat /\ st.counter[a] \in Nat
        BY <2>4 DEF StepperType
      <4> DEFINE taken == Taken(v[a], from[i][a], position[a])
      <4>5. taken \in Int
        BY <3>1, <3>2 DEF Taken
      <4> HIDE DEF taken, s, g, v, d, f, b, i
      <4>6. st.count * st.steps[a] = 0
        BY <4>1, <4>4
      <4>7. (d - f) * b.steps[a] = d * b.steps[a] - f * b.steps[a]
        BY <2>2, <3>1
      <4>8. /\ taken * b.events \in Int /\ d * b.steps[a] \in Int /\ f * b.steps[a] \in Int
            /\ b.events \div 2 \in Int
        BY <2>2, <3>1, <4>5
      <4> QED
        BY <3>3, <4>2, <4>3, <4>4, <4>6, <4>7, <4>8 DEF Balanced, taken
    <3> QED
      BY <3>4, <3>5
  <2> QED
    BY <2>2, <2>5, <2>8, <2>9 DEF Tracing
<1> QED
  BY <1>1, <1>2

LEMMA CountDownIs ==
  ASSUME NEW s, s.count \in Word, s.count > 0
  PROVE  CountDown(s) = s.count - 1 /\ s.count \in Nat
<1>1. s.count \in Nat /\ s.count < WordSize
  BY WordIs
<1> QED
  BY <1>1, WordSizeRange DEF CountDown

(* One tick of the line tracer, axis by axis.                              *)
LEMMA TracedOn ==
  ASSUME MaxAmassLevel > 0, Inv, Fine, head # tail,
         NEW from, NEW move, NEW first, NEW last, NEW way,
         PathOf(from, move, first, last, way),
         NEW s \in StepperType, Tracing(from, move, last, s), Trace(s),
         UNCHANGED blocks, NEW i, NEW d, i = ring[tail].index, d = last[tail]
  PROVE  /\ OnBlock(from, move, st, i, d)'
         /\ st'.count = s.count - 1 /\ st'.segment = (st'.count # 0) /\ st'.index = i
         /\ s.count - 1 \in Nat /\ st'.steps = s.steps
<1> DEFINE v == move[i]
           b == blocks[i]
           counter == [a \in Axis |-> IF a \in Stepped(s) THEN Sum(s)[a] - blocks[s.index].events
                                      ELSE Sum(s)[a]]
<1>1. /\ i \in Slots /\ ring[tail].level \in 0 .. MaxAmassLevel /\ v \in Moves
      /\ b = Bresenham(v) /\ d \in Nat
  BY OldestPart
<1>2. /\ s.count > 0 /\ s.index = i /\ OnBlock(from, move, s, i, d)
      /\ \A a \in Axis : s.steps[a] = b.steps[a] \div Factor(ring[tail].level)
  BY DEF Tracing
<1>3. s.count \in Word /\ s.counter \in [Axis -> Nat] /\ s.steps \in [Axis -> Nat]
  BY DEF StepperType
<1>4. CountDown(s) = s.count - 1 /\ s.count \in Nat
  BY <1>2, <1>3, CountDownIs
<1>5. /\ st' = [s EXCEPT !.counter = counter, !.out = Stepped(s), !.count = CountDown(s),
                         !.segment = (CountDown(s) # 0)]
      /\ position' = Moved(position, Stepped(s), blocks[s.index].dir)
  BY DEF Trace
<1> HIDE DEF counter, v
<1>6. /\ st'.counter = counter /\ st'.count = s.count - 1 /\ st'.segment = (st'.count # 0)
      /\ st'.index = i /\ st'.steps = s.steps
  BY <1>2, <1>4, <1>5 DEF StepperType
<1>7. ASSUME NEW a \in Axis
      PROVE  Balanced(b.events, b.steps[a], Taken(v[a], from[i][a], position'[a]),
                      counter[a], (s.count - 1) * s.steps[a], d)
  <2>1. /\ b.events \in Nat /\ b.steps[a] \in Nat /\ b.steps[a] <= b.events /\ v[a] \in Int
        /\ b.steps[a] = Magnitude(v)[a] * Scale /\ Magnitude(v)[a] \in Nat
        /\ b.dir = {o \in Axis : v[o] < 0}
    BY <1>1, BlockFacts
  <2>2. from[i][a] \in Int /\ position[a] \in Int
    BY <1>1 DEF PathOf, Fine, Typed, PathOK
  <2>3. s.steps[a] \in Nat /\ s.counter[a] \in Nat /\ s.steps[a] <= b.events
    <3>1. 0 \in Nat
      OBVIOUS
    <3>2. s.steps[a] <= Magnitude(v)[a] * Scale
      BY <1>1, <1>2, <2>1, <3>1, LevelTotal
    <3> HIDE DEF b
    <3> QED
      BY <1>3, <2>1, <3>2
  <2>4. Balanced(b.events, b.steps[a], Taken(v[a], from[i][a], position[a]),
                 s.counter[a], s.count * s.steps[a], d)
    BY <1>2 DEF OnBlock, v
  <2>5. Sum(s)[a] = s.counter[a] + s.steps[a]
    BY DEF Sum
  <2>6. a \in Stepped(s) <=> s.counter[a] + s.steps[a] > b.events
    BY <1>2, <2>5 DEF Stepped
  <2>7. counter[a] = IF s.counter[a] + s.steps[a] > b.events
                       THEN s.counter[a] + s.steps[a] - b.events
                       ELSE s.counter[a] + s.steps[a]
    <3>1. s.index = i
      BY <1>2
    <3>2. counter[a] = IF a \in Stepped(s) THEN Sum(s)[a] - b.events ELSE Sum(s)[a]
      BY <3>1 DEF counter
    <3> HIDE DEF b, counter
    <3>3. CASE a \in Stepped(s)
      <4>1. counter[a] = Sum(s)[a] - b.events
        BY <3>2, <3>3, Zenon
      <4>2. s.counter[a] + s.steps[a] > b.events
        BY <2>6, <3>3
      <4>3. counter[a] = s.counter[a] + s.steps[a] - b.events
        BY <2>1, <2>3, <2>5, <4>1
      <4> QED
        BY <4>2, <4>3, Zenon
    <3>4. CASE a \notin Stepped(s)
      <4>1. counter[a] = Sum(s)[a]
        BY <3>2, <3>4, Zenon
      <4>2. ~(s.counter[a] + s.steps[a] > b.events)
        BY <2>6, <3>4
      <4> QED
        BY <2>5, <4>1, <4>2
    <3> QED
      BY <3>3, <3>4
  <2>8. position'[a] = IF ~(s.counter[a] + s.steps[a] > b.events) THEN position[a]
                       ELSE IF v[a] < 0 THEN position[a] - 1 ELSE position[a] + 1
    <3>1. (a \in b.dir) = (v[a] < 0)
      BY <2>1
    <3> QED
      BY <1>2, <1>5, <2>6, <3>1 DEF Moved
  <2>9. Taken(v[a], from[i][a], position[a]) \in Int
    BY <2>1, <2>2 DEF Taken
  <2>10. Taken(v[a], from[i][a], position'[a]) =
           IF s.counter[a] + s.steps[a] > b.events
             THEN Taken(v[a], from[i][a], position[a]) + 1
             ELSE Taken(v[a], from[i][a], position[a])
    <3> HIDE DEF b
    <3> QED
      BY <2>1, <2>2, <2>8 DEF Taken
  <2>11. IF s.counter[a] + s.steps[a] > b.events
           THEN Balanced(b.events, b.steps[a], Taken(v[a], from[i][a], position[a]) + 1,
                         s.counter[a] + s.steps[a] - b.events, (s.count - 1) * s.steps[a], d)
           ELSE Balanced(b.events, b.steps[a], Taken(v[a], from[i][a], position[a]),
                         s.counter[a] + s.steps[a], (s.count - 1) * s.steps[a], d)
    <3> HIDE DEF b
    <3>1. s.counter[a] \in Int
      BY <2>3
    <3> QED
      BY <1>1, <1>2, <1>4, <2>1, <2>3, <2>4, <2>9, <3>1, BalancedTick
  <2> HIDE DEF b
  <2> QED
    BY <2>7, <2>10, <2>11
<1>8. OnBlock(from, move, st, i, d)'
  BY <1>6, <1>7 DEF OnBlock, v
<1> QED
  BY <1>2, <1>4, <1>6, <1>8

(* At the end of a block every axis has come all its way.                  *)
LEMMA BlockEnds ==
  ASSUME MaxAmassLevel > 0, NEW v \in Moves, NEW b, b = Bresenham(v),
         NEW p \in [Axis -> Int], NEW x \in [Axis -> Int], NEW counter \in [Axis -> Int],
         \A a \in Axis : Balanced(b.events, b.steps[a], Taken(v[a], p[a], x[a]),
                                  counter[a], 0, Events(v))
  PROVE  x = Plus(p, v)
<1>1. ASSUME NEW a \in Axis PROVE x[a] = p[a] + v[a]
  <2>1. /\ b.events = Events(v) * Scale /\ b.steps[a] = Magnitude(v)[a] * Scale
        /\ Events(v) \in Nat /\ Events(v) >= 1 /\ Magnitude(v)[a] \in Nat /\ v[a] \in Int
        /\ Magnitude(v)[a] = IF v[a] < 0 THEN -v[a] ELSE v[a]
    BY BlockFacts
  <2>2. Scale \in Nat /\ Scale >= 2
    BY ScaleRange
  <2>3. p[a] \in Int /\ x[a] \in Int /\ counter[a] \in Int
    OBVIOUS
  <2>4. Taken(v[a], p[a], x[a]) \in Int
    BY <2>1, <2>3 DEF Taken
  <2>5. Balanced(Events(v) * Scale, Magnitude(v)[a] * Scale, Taken(v[a], p[a], x[a]),
                 counter[a], 0, Events(v))
    BY <2>1
  <2>6. Taken(v[a], p[a], x[a]) = Magnitude(v)[a]
    BY <2>1, <2>2, <2>3, <2>4, <2>5, BalancedEnd
  <2> QED
    BY <2>1, <2>3, <2>6 DEF Taken
<1> QED
  BY <1>1 DEF Plus

LEMMA TickPath ==
  ASSUME SegmentBufferSize > 2, MaxAmassLevel > 0, PathInv, Inv, Fine, Tick
  PROVE  PathInv'
<1>1. PICK from, move, first, last, way : PathOf(from, move, first, last, way)
  BY DEF PathInv
<1>2. timer /\ UNCHANGED <<queue, planned, prep, blocks, ring, head>>
  BY DEF Tick, main
<1>3. CASE ~(st.segment \/ head # tail)
  BY <1>2, <1>3, PathKept DEF Tick, Started
<1>4. CASE st.segment \/ head # tail
  <2> DEFINE s == LoadedStepper
  <2>1. Trace(s) /\ head # tail
    BY <1>2, <1>4, LoadedFacts DEF Tick
  <2>2. Tracing(from, move, last, s) /\ s \in StepperType
    BY <1>1, <1>2, <1>4, PoppedPath, PoppedType
  <2>3. PICK i, d : i = ring[tail].index /\ d = last[tail]
    OBVIOUS
  <2>4. /\ i \in Slots /\ move[i] \in Moves /\ blocks[i] = Bresenham(move[i])
        /\ d \in Nat /\ first[tail] \in Nat /\ first[tail] < d
        /\ Joined(from, move, first, way, i, d, 2)
    BY <1>1, <2>1, <2>3, OldestPart
  <2>5. /\ OnBlock(from, move, st, i, d)'
        /\ st'.count = s.count - 1 /\ st'.segment = (st'.count # 0) /\ st'.index = i
        /\ s.count - 1 \in Nat /\ st'.steps = s.steps
    BY <1>1, <1>2, <2>1, <2>2, <2>3, TracedOn
  <2>6. CountDown(s) = s.count - 1
    BY <2>2, CountDownIs DEF Tracing, StepperType
  <2>7. tail' = IF st'.count = 0 THEN NextSlot(tail) ELSE tail
    BY <2>1, <2>5, <2>6 DEF Trace
  <2>8. s.index = i /\ \A a \in Axis : s.steps[a] = blocks[i].steps[a] \div Factor(ring[tail].level)
    BY <2>2, <2>3 DEF Tracing
  <2> HIDE DEF s
  <2>9. WayInv(way)' /\ HandInv(from, move, way)'
    BY <1>1, <1>2 DEF PathOf, WayInv, HandInv, Started, Unpublished
  <2>10. CASE st'.count # 0
    <3>1. tail' = tail /\ st'.segment
      BY <2>5, <2>7, <2>10
    <3>2. Waiting' = Waiting /\ \A k : Here(k)' = Here(k)
      BY <1>2, <3>1 DEF Waiting, Here
    <3>3. \A k : BlockAt(k)' = BlockAt(k) /\ DoneAt(first, k)' = DoneAt(first, k)
                 /\ StartAt(from, way, k)' = StartAt(from, way, k)
      <4> HIDE DEF Waiting, Here
      <4> QED
        BY <1>2, <3>2 DEF BlockAt, DoneAt, StartAt, Started
    <3> HIDE DEF Waiting, Here, BlockAt, DoneAt, StartAt
    <3>4. \A k \in 1 .. Waiting' : PartInv(from, move, first, last, way, k)'
      BY <1>1, <1>2, <3>2, <3>3 DEF PathOf, PartInv, Joined
    <3>5. Tracing(from, move, last, st)'
      <4>1. OnBlock(from, move, st, st.index, last[tail])'
        BY <2>3, <2>5, <3>1 DEF OnBlock
      <4>2. st'.count > 0
        <5>1. st'.count \in Nat
          BY <2>5
        <5> QED
          BY <2>10, <5>1
      <4>3. st'.index = ring'[tail'].index
        <5>1. ring' = ring /\ tail' = tail /\ st'.index = i
          BY <1>2, <2>5, <3>1
        <5> QED
          BY <2>3, <5>1, Zenon
      <4>4. \A a \in Axis : st'.steps[a] = blocks'[st'.index].steps[a] \div Factor(ring'[tail'].level)
        BY <1>2, <2>5, <2>8, <3>1
      <4> QED
        BY <4>1, <4>2, <4>3, <4>4 DEF Tracing
    <3>6. PathOf(from, move, first, last, way)'
      BY <1>1, <1>2, <2>9, <3>1, <3>4, <3>5 DEF PathOf
    <3> QED
      BY <3>6 DEF PathInv
  <2>11. CASE st'.count = 0
    <3>1. tail' = NextSlot(tail) /\ ~st'.segment
      BY <2>5, <2>7, <2>11
    <3>2. head \in 0 .. N - 1 /\ tail \in 0 .. N - 1 /\ Waiting \in Nat /\ Waiting >= 1
      BY <2>1, WaitingRange DEF Inv, SlotInv, ShapeInv, Waiting
    <3>3. Waiting' = Waiting - 1 /\ \A k \in 1 .. Waiting - 1 : Here(k)' = Here(k + 1)
      BY <1>2, <2>1, <3>1, <3>2, WaitingGet DEF Waiting, Here
    <3> HIDE DEF Waiting, Here
    <3>4. ASSUME NEW k \in 1 .. Waiting
          PROVE  /\ BlockAt(k)' = BlockAt(k + 1) /\ DoneAt(first, k)' = DoneAt(first, k + 1)
                 /\ StartAt(from, way, k)' = StartAt(from, way, k + 1)
      <4>1. CASE k \in 1 .. Waiting - 1
        <5>1. k <= Waiting' /\ k + 1 <= Waiting /\ Here(k)' = Here(k + 1)
          BY <3>2, <3>3, <4>1
        <5> QED
          BY <1>2, <5>1 DEF BlockAt, DoneAt, StartAt
      <4>2. CASE k = Waiting
        <5>1. ~(k <= Waiting') /\ ~(k + 1 <= Waiting)
          BY <3>2, <3>3, <4>2
        <5> QED
          BY <1>2, <5>1 DEF BlockAt, DoneAt, StartAt, Started
      <4> QED
        BY <3>2, <4>1, <4>2
    <3>5. /\ BlockAt(1)' = BlockAt(2) /\ DoneAt(first, 1)' = DoneAt(first, 2)
          /\ StartAt(from, way, 1)' = StartAt(from, way, 2)
      <4>1. 1 \in 1 .. Waiting /\ 1 + 1 = 2
        BY <3>2
      <4> QED
        BY <3>4, <4>1
    <3> HIDE DEF BlockAt, DoneAt, StartAt
    <3>6. ASSUME NEW k \in 1 .. Waiting' PROVE PartInv(from, move, first, last, way, k)'
      <4>1. k + 1 \in 1 .. Waiting /\ Here(k)' = Here(k + 1)
        BY <3>2, <3>3
      <4>2. PartInv(from, move, first, last, way, k + 1)
        BY <1>1, <4>1 DEF PathOf
      <4> QED
        BY <1>2, <3>4, <4>1, <4>2 DEF PartInv, Joined
    <3>7. ~(NextBlock(i) = i)
      BY <2>4, SegmentsAssumption DEF NextBlock, NextIndex, SegmentsAssumption, Slots
    <3>8. Between(from, move, first, way)'
      <4>1. CASE d < Events(move[i]) /\ BlockAt(2) = i /\ DoneAt(first, 2) = d
        <5>1. DoneAt(first, 1)' # 0 /\ DoneAt(first, 1)' = d
          BY <2>4, <3>5, <4>1
        <5>2. st'.index = BlockAt(1)' /\ st'.index = i
          BY <2>5, <3>5, <4>1
        <5>3. OnBlock(from, move, st, st.index, DoneAt(first, 1))'
          BY <2>5, <5>1, <5>2 DEF OnBlock
        <5> QED
          BY <2>11, <5>1, <5>2, <5>3 DEF Between
      <4>2. CASE /\ d = Events(move[i]) /\ BlockAt(2) = NextBlock(i) /\ DoneAt(first, 2) = 0
                 /\ StartAt(from, way, 2) = Plus(from[i], move[i])
        <5>1. st'.counter \in [Axis -> Nat] /\ st'.steps \in [Axis -> Nat]
              /\ position' \in [Axis -> Int]
          <6>1. Fine'
            BY TickFine
          <6> QED
            BY <6>1 DEF Fine, Typed, StepperOK, PathOK, StepperType
        <5>2. from[i] \in [Axis -> Int] /\ st'.counter \in [Axis -> Int]
          BY <1>1, <2>4, <5>1 DEF PathOf
        <5>3. \A a \in Axis :
                Balanced(blocks[i].events, blocks[i].steps[a],
                         Taken(move[i][a], from[i][a], position'[a]), st'.counter[a], 0,
                         Events(move[i]))
          <6> SUFFICES ASSUME NEW a \in Axis
                       PROVE  Balanced(blocks[i].events, blocks[i].steps[a],
                                Taken(move[i][a], from[i][a], position'[a]), st'.counter[a], 0,
                                Events(move[i]))
            OBVIOUS
          <6>1. Balanced(blocks[i].events, blocks[i].steps[a],
                         Taken(move[i][a], from[i][a], position'[a]), st'.counter[a],
                         st'.count * st'.steps[a], d)
            BY <1>2, <2>5 DEF OnBlock
          <6>2. st'.count * st'.steps[a] = 0
            BY <2>11, <5>1
          <6> QED
            BY <4>2, <6>1, <6>2
        <5>4. position' = Plus(from[i], move[i])
          BY <2>4, <5>1, <5>2, <5>3, BlockEnds
        <5> QED
          BY <2>5, <2>11, <3>5, <3>7, <4>2, <5>4 DEF Between
      <4> QED
        BY <2>4, <4>1, <4>2 DEF Joined
    <3>9. PathOf(from, move, first, last, way)'
      BY <1>1, <1>2, <2>9, <3>1, <3>6, <3>8 DEF PathOf
    <3> QED
      BY <3>9 DEF PathInv
  <2> QED
    BY <2>10, <2>11
<1> QED
  BY <1>3, <1>4

(* When everything queued has been traced, the machine is where the        *)
(* planner's last block ends: no step is lost or gained between queue and  *)
(* pulses.  The tracer starts a block afresh by its index alone, so two    *)
(* blocks in a row need different slots; and half an event is a whole      *)
(* number only of the doubled counts.                                      *)
THEOREM PathTheorem ==
  ASSUME SegmentBufferSize > 2, MaxAmassLevel > 0
  PROVE  Spec => []EndsWherePlanned
<1>1. Init => (~starved => PathInv)
  BY PathInit
<1>2. All /\ PathInv /\ [Next]_vars => PathInv'
  <2> SUFFICES ASSUME All, PathInv, [Next]_vars PROVE PathInv'
    OBVIOUS
  <2>1. Inv /\ Fine
    BY DEF All
  <2>2. CASE Queue \/ Probe
    BY <2>1, <2>2, QueuePath
  <2>3. CASE \/ CycleStart \/ Hold \/ Enter \/ Leave \/ WakeUp \/ (Load /\ prep.partial)
             \/ CycleStop \/ ProbeDone \/ UNCHANGED vars
    BY <2>1, <2>3, IdlePath
  <2>4. CASE ProbeFinish
    BY <2>1, <2>4, CancelPath
  <2>5. CASE Load /\ ~prep.partial
    BY <2>1, <2>5, LoadPath
  <2>6. CASE Segment
    BY <2>6, SegmentPath
  <2>7. CASE Tick
    BY <2>1, <2>7, TickPath
  <2> QED
    BY <2>2, <2>3, <2>4, <2>5, <2>6, <2>7 DEF Next
<1>3. (~starved => All) /\ (~starved => PathInv) /\ [Next]_vars => (~starved => PathInv)'
  BY <1>2, StarvedStays
<1>4. (~starved => All) /\ (~starved => PathInv) => EndsWherePlanned
  BY PathEnds DEF All, EndsWherePlanned
<1> QED
  BY <1>1, <1>3, <1>4, StopTheorem, PTL DEF Spec
=============================================================================
