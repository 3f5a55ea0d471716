------------------------------ MODULE Planner ------------------------------
(***************************************************************************)
(* planner.c: the look-ahead of Grbl, and the part of stepper.c that takes *)
(* speeds from it and gives them back.  Speeds are squared, as in the      *)
(* code, and a distance is what it lets the squared speed change by at the *)
(* block's acceleration, `reach' = 2*acceleration*millimeters: all sums    *)
(* the planner makes are then sums of integers.  The ring of blocks is a   *)
(* sequence, oldest first, and block_buffer_planned a position in it.      *)
(***************************************************************************)
EXTENDS Integers, Sequences

CONSTANTS
  MaxBlocks, \* BLOCK_BUFFER_SIZE - 1
  MaxEntries,\* the max_entry_speed_sqr a junction may have
  Reaches    \* the reach a block may have

ASSUME PlannerAssumption ==
  /\ MaxBlocks \in Nat \ {0}
  /\ MaxEntries \subseteq Nat /\ Reaches \subseteq Nat \ {0}

VARIABLES
  blocks,  \* the planner's blocks: max (entry speed), reach and entry (speed)
  planned, \* position of block_buffer_planned
  loaded,  \* pl_block # NULL: the profile of the first block is computed
  partial, \* prep.flag_partial_block: the first block has been loaded before
  speed,   \* prep.current_speed
  exit,    \* prep.exit_speed
  held     \* a feed hold is in progress: STATE_HOLD and its like

stepper == <<loaded, partial, speed, exit>>
vars == <<blocks, planned, stepper, held>>

Least(a, b) == IF a < b THEN a ELSE b
Dist(a, b) == IF a < b THEN b - a ELSE a - b

(* plan_reset() and st_reset().                                            *)
Init == /\ blocks = << >> /\ planned = 1
        /\ loaded = FALSE /\ partial = FALSE
        /\ speed = 0 /\ exit = 0 /\ held = FALSE

-----------------------------------------------------------------------------
(* planner_recalculate() of the blocks bs from position p onward.          *)

(* The reverse pass: entry speeds from which the machine can still brake;  *)
(* a block already at its maximum is skipped.                              *)
BackwardNoBrake(bs, p) ==  \* mutant: the last block is planned from its maximum
  LET f[k \in (p + 1)..Len(bs)] ==
        IF k = Len(bs) \/ bs[k].entry = bs[k].max
          THEN bs[k].max
          ELSE Least(bs[k].max, f[k + 1] + bs[k].reach)
  IN  f

Backward(bs, p) ==
  LET f[k \in (p + 1)..Len(bs)] ==
        IF k = Len(bs) THEN Least(bs[k].max, bs[k].reach)
        ELSE IF bs[k].entry = bs[k].max THEN bs[k].max
        ELSE Least(bs[k].max, f[k + 1] + bs[k].reach)
  IN  f

(* The forward pass: no faster than the machine can accelerate to.         *)
Forward(bs, p) ==
  LET rev == Backward(bs, p)
      f[k \in p..Len(bs)] ==
        IF k = p THEN bs[p].entry
                 ELSE Least(rev[k], f[k - 1] + bs[k - 1].reach)
  IN  f

(* Where the planned pointer comes to stand: the last block reached at     *)
(* full acceleration, or entered at its maximum speed.                     *)
PlannedAtTop(bs, p) ==  \* mutant: any block reached while accelerating counts
  LET fwd == Forward(bs, p)
      done == {k \in (p + 1)..Len(bs) : fwd[k - 1] < fwd[k] \/ fwd[k] = bs[k].max}
  IN  IF done = {} THEN p ELSE CHOOSE k \in done : \A j \in done : j <= k

PlannedAfter(bs, p) ==
  LET fwd == Forward(bs, p)
      rev == Backward(bs, p)
      done == {k \in (p + 1)..Len(bs) : fwd[k] < rev[k] \/ fwd[k] = bs[k].max}
  IN  IF done = {} THEN p ELSE CHOOSE k \in done : \A j \in done : j <= k

Replanned(bs, p) ==
  LET fwd == Forward(bs, p)
  IN  [k \in 1..Len(bs) |-> IF k > p THEN [bs[k] EXCEPT !.entry = fwd[k]] ELSE bs[k]]

(* st_update_plan_block_parameters(): the block being executed goes on     *)
(* from the current speed, and its profile is computed anew.               *)
Updated(bs) == IF loaded THEN [bs EXCEPT ![1].entry = speed] ELSE bs

NotifyStepper == loaded' = FALSE /\ partial' = (loaded \/ partial)

KeepProfile(bs) ==  \* mutant of Recalculate: the stepper is not told
  /\ blocks' = IF Len(bs) > planned THEN Replanned(bs, planned) ELSE bs
  /\ planned' = IF Len(bs) > planned THEN PlannedAfter(bs, planned) ELSE planned
  /\ UNCHANGED <<loaded, partial>>

(* With fewer than two blocks from the planned pointer there is nothing to *)
(* do; a plan that goes back to the first block tells the stepper.         *)
Recalculate(bs) ==
  IF Len(bs) <= planned
    THEN blocks' = bs /\ UNCHANGED <<planned, loaded, partial>>
    ELSE LET cs == IF planned = 1 THEN Updated(bs) ELSE bs
         IN  /\ blocks' = Replanned(cs, planned)
             /\ planned' = PlannedAfter(cs, planned)
             /\ IF planned = 1 THEN NotifyStepper ELSE UNCHANGED <<loaded, partial>>

-----------------------------------------------------------------------------
(* plan_buffer_line(), when mc_line() has found room; the first block of   *)
(* an empty buffer starts from rest.  Nothing is queued during a hold.     *)
BufferLine ==
  /\ ~held /\ Len(blocks) < MaxBlocks
  /\ \E max \in MaxEntries, reach \in Reaches :
       Recalculate(Append(blocks, IF blocks = << >>
         THEN [max |-> 0, reach |-> reach, entry |-> 0]
         ELSE [max |-> max, reach |-> reach, entry |-> 0]))
  /\ UNCHANGED <<speed, exit, held>>

ExitSpeed == IF Len(blocks) > 1 THEN blocks[2].entry ELSE 0

(* st_prep_buffer() takes up the first block: a new one at its planned     *)
(* entry speed, or in a hold at the speed the last one was left at.        *)
Load ==
  /\ ~loaded /\ blocks # << >>
  /\ held /\ partial => speed # 0
  /\ loaded' = TRUE /\ partial' = FALSE
  /\ speed' = CASE partial -> speed [] held /\ ~partial -> exit [] OTHER -> blocks[1].entry
  /\ blocks' = IF held /\ ~partial THEN [blocks EXCEPT ![1].entry = exit] ELSE blocks
  /\ exit' = IF ~held THEN ExitSpeed
             ELSE IF speed' > blocks[1].reach THEN speed' - blocks[1].reach ELSE 0
  /\ UNCHANGED <<planned, held>>

(* plan_discard_current_block(), at the end of a block.                    *)
DiscardStill ==  \* mutant: the planned pointer is not pushed off the block
  /\ blocks' = Tail(blocks)
  /\ planned' = planned - 1
  /\ loaded' = FALSE /\ partial' = partial

Discard ==
  /\ blocks' = Tail(blocks)
  /\ planned' = IF planned = 1 THEN 1 ELSE planned - 1
  /\ loaded' = FALSE /\ partial' = partial

(* A segment covers d of the first block; inside it the speed is any from  *)
(* which the exit speed can be met.  At the end of the block it is the     *)
(* exit speed, although a deceleration leaves an older current_speed: that *)
(* is not read again before Load but to see that it is not zero.           *)
Segment ==
  /\ loaded /\ ~held
  /\ \E d \in 1..blocks[1].reach :
       IF d = blocks[1].reach
         THEN Discard /\ speed' = exit
         ELSE /\ speed' \in {v \in 0..(speed + d) :
                              /\ Dist(v, speed) <= d
                              /\ Dist(v, exit) <= blocks[1].reach - d}
              /\ blocks' = [blocks EXCEPT ![1].reach = @ - d]
              /\ UNCHANGED <<planned, loaded, partial>>
  /\ UNCHANGED <<exit, held>>

-----------------------------------------------------------------------------
(* A feed hold: brake at full deceleration, through several blocks if need *)
(* be, then plan again from rest.                                          *)

HoldBegin ==
  /\ ~held
  /\ held' = TRUE
  /\ blocks' = Updated(blocks)
  /\ NotifyStepper
  /\ UNCHANGED <<planned, speed, exit>>

(* plan_cycle_reinitialize() with the current speed at zero.               *)
Reinitialize(bs) ==
  LET cs == [bs EXCEPT ![1].entry = 0]
  IN  /\ blocks' = IF Len(cs) > 1 THEN Replanned(cs, 1) ELSE cs
      /\ planned' = IF Len(cs) > 1 THEN PlannedAfter(cs, 1) ELSE 1
      /\ loaded' = FALSE /\ partial' = TRUE

HoldSegment ==
  /\ loaded /\ held
  /\ \E d \in 0..Least(speed, blocks[1].reach) :
       /\ d > 0 \/ speed = 0
       /\ speed' = speed - d
       /\ IF d = blocks[1].reach
            THEN Discard
            ELSE LET bs == [blocks EXCEPT ![1].reach = @ - d]
                 IN  IF speed' = 0
                       THEN Reinitialize(bs)
                       ELSE blocks' = bs /\ UNCHANGED <<planned, loaded, partial>>
  /\ UNCHANGED <<exit, held>>

(* The user resumes: the machine is at rest, and the block at the front    *)
(* starts from there or, if nothing has moved since the reset, did so      *)
(* already.                                                                *)
Resume ==
  /\ held /\ ~loaded
  /\ blocks # << >> => speed = 0 /\ (partial \/ blocks[1].entry = 0)
  /\ held' = FALSE
  /\ UNCHANGED <<blocks, planned, stepper>>

(* An abort: plan_reset() and st_reset().                                  *)
Reset ==
  /\ blocks' = << >> /\ planned' = 1
  /\ loaded' = FALSE /\ partial' = FALSE
  /\ speed' = 0 /\ exit' = 0 /\ held' = FALSE

Next == BufferLine \/ Load \/ Segment \/ HoldBegin \/ HoldSegment \/ Resume
        \/ Reset

Spec == Init /\ [][Next]_vars
=============================================================================
