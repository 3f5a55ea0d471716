------------------------- MODULE PlannerProperties -------------------------
(* What the look-ahead promises.                                           *)
EXTENDS Planner

(* The distance still to go, as reach: from block k on, and altogether.    *)
Rest(bs) ==
  LET rest[k \in 1..(Len(bs) + 1)] ==
        IF k > Len(bs) THEN 0 ELSE bs[k].reach + rest[k + 1]
  IN  rest

Travel(bs) == Rest(bs)[1]

(* Every variable stays in its type, the planned pointer stands on a       *)
(* block, and no entry speed is above the maximum of its junction.         *)
TypeOK ==
  /\ Len(blocks) <= MaxBlocks
  /\ \A k \in 1..Len(blocks) :
       /\ blocks[k].max \in MaxEntries \cup {0}
       /\ blocks[k].reach \in Nat \ {0} /\ blocks[k].entry \in Nat
       /\ k > 1 => blocks[k].entry <= blocks[k].max
  /\ planned \in 1..(Len(blocks) + 1)
  /\ planned <= Len(blocks) \/ blocks = << >>
  /\ loaded \in BOOLEAN /\ partial \in BOOLEAN /\ held \in BOOLEAN
  /\ loaded => blocks # << >>
  /\ speed \in Nat /\ exit \in Nat

(* The speed at the start of what is left of the first block.              *)
StartSpeed == IF loaded \/ partial THEN speed ELSE blocks[1].entry

(* The fastest plan there is: from the last block back to the speeds the   *)
(* machine can still brake from, then forward to those it can accelerate   *)
(* to, over all blocks and with nothing skipped.                           *)
Braking(bs) ==
  LET rev[k \in 2..Len(bs)] ==
        Least(bs[k].max, bs[k].reach + IF k = Len(bs) THEN 0 ELSE rev[k + 1])
  IN  rev

BestPlan ==
  LET fwd[k \in 1..Len(blocks)] ==
        IF k = 1 THEN StartSpeed
        ELSE Least(Braking(blocks)[k], fwd[k - 1] + blocks[k - 1].reach)
  IN  fwd

(* However blocks were queued, executed, held and discarded, the plan that *)
(* is only ever recomputed from the planned pointer is the one a full      *)
(* recomputation would give.                                               *)
PlanIsBest ==
  ~held => \A k \in 2..Len(blocks) : blocks[k].entry = BestPlan[k]

(* The profile being executed ends at the speed the next block is planned  *)
(* to start with, even if that speed was raised after it was computed.     *)
ExitFresh == loaded /\ ~held => exit = ExitSpeed

(* The speed never changes by more than the distance covered allows.       *)
NoJump ==
  [][Reset \/ speed' = speed
     \/ Dist(speed, speed') <= Travel(blocks) - Travel(blocks')]_vars

(* A feed hold comes to rest before the queued motion ends.                *)
HoldFits == held => speed <= Travel(blocks)
=============================================================================
