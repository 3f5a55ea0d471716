----------------------------- MODULE GrblClaims -----------------------------
(* What the comments of the source say of Grbl and the code does not keep. *)
EXTENDS Grbl

(* protocol_buffer_synchronize() blocks until the buffered motion is       *)
(* executed: with no hold, reset or limit in sight, a line that waits in   *)
(* it is finished.                                                         *)
SyncReturns == (job = "spindle") ~> (job # "spindle")

(* A reset given during a motion kills the steppers and raises an alarm.   *)
ResetKillsMotion ==
  [][stepping /\ "RESET" \notin rt /\ "RESET" \in rt'
       => ~stepping' /\ alarm' # {}]_vars

(* In the critical-event halt everything has shut down.                    *)
HaltIsStill == at = "halt" => ~stepping /\ ~spindle
=============================================================================
