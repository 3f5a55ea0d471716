------------------------ MODULE SegmentsProperties ------------------------
(***************************************************************************)
(* What the path from planner blocks to step pulses must keep, and the     *)
(* instance on which TLC checks it.                                        *)
(***************************************************************************)
EXTENDS Segments, TLC

Vector(x, y) == "x" :> x @@ "y" :> y
MCMoves == {Vector(3, -1), Vector(0, 1)}

(* The slots of segments still to be traced, or being traced.              *)
Pending ==
  {Slot(tail, k, SegmentBufferSize) : k \in 1 .. Count(head, tail, SegmentBufferSize)}

Word == 0 .. WordSize - 1

(* Every variable has its type; the index of the block data being prepared *)
(* stays within st_block_buffer, which is one slot shorter than the ring.  *)
TypeOK ==
  /\ queue \in Seq([move : Moves, left : Nat \ {0}])
  /\ planned \in [Axis -> Int] /\ position \in [Axis -> Int] /\ motor \in [Axis -> Int]
  /\ made \in 0 .. MaxMoves
  /\ state \in {"IDLE", "CYCLE", "HOLD", "MOTION_CANCEL"}
  /\ job \in {"lines", "begin", "probe", "finish"} /\ cancel \in BOOLEAN
  /\ ready \in BOOLEAN /\ cycleStop \in BOOLEAN /\ timer \in BOOLEAN
  /\ dry \in BOOLEAN /\ starved \in BOOLEAN /\ restarted \in BOOLEAN
  /\ prep \in [loaded : BOOLEAN, partial : BOOLEAN, index : Slots, exit : BOOLEAN,
               speed : BOOLEAN, complete : Nat,
               at : {"main", "prep", "start", "loaded", "startLoaded"}]
  /\ blocks \in [Slots -> [steps : [Axis -> Nat], events : Nat, dir : SUBSET Axis]]
  /\ ring \in [0 .. SegmentBufferSize - 1 ->
                 [n : Word, index : Slots, level : 0 .. MaxAmassLevel]]
  /\ head \in DOMAIN ring /\ tail \in DOMAIN ring
  /\ st \in [segment : BOOLEAN, index : Slots, counter : [Axis -> Nat],
             steps : [Axis -> Nat], count : Word, dir : SUBSET Axis,
             out : SUBSET Axis]

(* When everything queued has run, the step counters are where the planner *)
(* ended its last block: however the blocks were cut into segments, at     *)
(* whatever smoothing levels, held, resumed, cancelled, replanned or       *)
(* starved.  Excepted is what follows a segment without steps (see         *)
(* EverySegmentSteps).                                                     *)
EndsWherePlanned ==
  ~starved /\ queue = <<>> /\ head = tail /\ state = "IDLE" => position = planned

(* While the timer is off, the motors have received every step counted in  *)
(* sys.position, in the direction it was counted, and no other: the last   *)
(* pulse goes out in the tick that finds the buffer empty.  One step can be*)
(* lost for good: the checkpoint at motion_control.c:318 lets a '~' start  *)
(* the rest of a probing motion (protocol.c:304-322), and the st_reset()   *)
(* behind it stops the timer with a step counted and not sent.             *)
MotorsAreCounted == ~timer /\ ~restarted => motor = position

(* st_prep_buffer() never overwrites block data that a segment still in    *)
(* the ring, the one being traced included, is to be traced with.          *)
SlotsAreNotReused ==
  [][\A i \in Slots : blocks'[i] # blocks[i] =>
       \A k \in Pending : ring[k].index # i]_vars

(* Every segment has a step.  The code does not agree with itself here:    *)
(* the interrupt "expects at least one step to be executed per segment"    *)
(* (stepper.c:276), the load of n_step says "Can sometimes be zero when    *)
(* moving slow" (stepper.c:319), and the countdown at stepper.c:391 takes  *)
(* a zero for 65536.  Slowness alone is no reason, as req_mm_increment     *)
(* keeps the segments of slow motions long enough.  What is left is a      *)
(* motion starved in a hold: when the buffer runs dry before the           *)
(* deceleration is prepared, a resume carries on with its profile, and its *)
(* end within a step becomes a segment of its own.                         *)
EverySegmentSteps == ~starved => \A k \in Pending : ring[k].n > 0
=============================================================================
