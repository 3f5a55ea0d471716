-------------------------- MODULE CyclesProperties --------------------------
(***************************************************************************)
(* What homing and probing must tell the truth about.                      *)
(***************************************************************************)
EXTENDS Cycles

HomedAxes == HomingCycle0 \cup HomingCycle1

(* When $H reports that homing is complete, every homed axis is off its    *)
(* switch and at rest, it is counted one pull-off away from machine zero,  *)
(* and machine zero really is at the switch, or, when the end of the last  *)
(* search cut the pull-off short, beyond it.                               *)
HomedIsTrue ==
  at = "homed" =>
    /\ ~stepping
    /\ \A a \in HomedAxes :
         /\ a \notin Pressed
         /\ position[a] = -Pulloff
         /\ carriage[a] + Pulloff >= Trip
         /\ stale \/ carriage[a] + Pulloff <= End

(* A homing cycle cut short after it has begun to move leaves the machine  *)
(* in alarm, its position being lost, unless the reset that cut it short   *)
(* was already pending when $H was accepted.                               *)
LostIsAlarm == at = "homeFailed" => state = "ALARM" \/ early

HomingIsTrue == HomedIsTrue /\ LostIsAlarm

(* A probe cycle that reports success has recorded the very position at    *)
(* which the probe touched, however far the machine ran on after it.       *)
ProbeIsTrue ==
  at = "probed" /\ succeeded =>
    contact - position[ProbeAxis] = Touch - carriage[ProbeAxis]
=============================================================================
