--------------------------- MODULE GrblProperties ---------------------------
(* What Grbl's realtime executive and main program promise.                *)
EXTENDS Grbl

(* Every variable stays within its type and its bounds: the planner never  *)
(* holds more than MaxBlocks blocks and the ring never more than SegCap    *)
(* segments, and a hold never needs more braking than it was given.        *)
FlagTypes ==
  /\ at \in Labels /\ ret \in MainLabels
  /\ state \in States /\ suspend \subseteq Suspends
  /\ rt \subseteq Flags /\ exec \subseteq Flags /\ alarm \subseteq Alarms
  /\ job \in AllJobs \cup {"none"}

SwitchTypes ==
  /\ abort \in BOOLEAN /\ softLimit \in BOOLEAN /\ asked \in BOOLEAN
  /\ moving \in BOOLEAN /\ stepping \in BOOLEAN
  /\ spindle \in BOOLEAN /\ modal \in BOOLEAN

MotionTypes ==
  /\ todo \in 0..(SegsPerBlock * MaxBlocks)
  /\ segs \in 0..SegCap
  /\ brake \in 0..MaxBrake

TypeOK == FlagTypes /\ SwitchTypes /\ MotionTypes

(* The steppers never run in a state that tells the user, or the main      *)
(* program, that the machine is at rest: idle, check mode, or a hold that  *)
(* is ready to resume.                                                     *)
RestIsStill ==
  state \in {"IDLE", "CHECK_MODE"} \/ (state # "CYCLE" /\ "ENABLE_READY" \in suspend)
    => ~stepping

Resuming == at \in {"prime", "wake"}

(* A state only the end of the motion can leave always has that end        *)
(* coming: the stepper interrupt is on, or CYCLE_STOP or a reset is        *)
(* pending.  Otherwise the main program would wait for ever.               *)
MotionEnds ==
  \/ state = "CYCLE" /\ ~Resuming
  \/ state \in Holding /\ "ENABLE_READY" \notin suspend
  => \/ stepping
     \/ "CYCLE_STOP" \in rt \cup exec
     \/ "RESET" \in rt
     \/ at \in {"clearRt", "clearAlarm", "boot"}

(* While the safety door holds the machine, ready to resume, the spindle   *)
(* is off, from the checkpoint that stops it to the one that resumes.      *)
DoorDeEnergized ==
  /\ {"ENERGIZE", "ENABLE_READY"} \subseteq suspend
  /\ at \notin {"start", "stop", "resume", "prime", "wake"}
  /\ ~abort
  => ~spindle

(* A hold that is ready resumes only on a cycle start the user gave, never *)
(* on the auto-start of the main program.                                  *)
HoldNeedsUser ==
  [][at = "start" /\ at' = "resume" /\ "ENABLE_READY" \in suspend => asked]_vars

(* An alarm lasts until the user unlocks it: no motion ending, hold or     *)
(* re-initialization clears it.                                            *)
AlarmLatched ==
  [][state = "ALARM" /\ state' # "ALARM" => job = "unlock"]_vars

(* protocol_buffer_synchronize() returns to a machine at rest, so that a   *)
(* spindle change or a program pause never happens during a motion.        *)
SyncAtRest ==
  at = "synced" /\ ~abort => ~stepping

-----------------------------------------------------------------------------
(* Liveness, under FairSpec.                                               *)

(* Every hold comes to rest: the machine reports that it is ready to       *)
(* resume, unless an alarm or a reset ended the hold first.                *)
HoldSettles ==
  (state \in Holding /\ "ENABLE_READY" \notin suspend)
    ~> ("ENABLE_READY" \in suspend \/ state \notin Holding)

(* A reset is always served: wherever the main program is, waiting in a    *)
(* sync, for room in the planner or in a hold, it gets to the              *)
(* re-initialization, or to the critical-event halt, which discards the    *)
(* reset that is pending as it is entered (protocol.c:210).  A reset       *)
(* raised while the program stands in the halt gets it out of there, to    *)
(* the re-initialization.  (One raised during re-initialization is wiped   *)
(* by it.)                                                                 *)
ResetServed ==
  /\ ("RESET" \in rt) ~> (at \in {"halt", "reset", "clearRt"})
  /\ (at = "halt" /\ "RESET" \in rt) ~> (at \in {"reset", "clearRt"})

(* A feed hold asked for during a cycle is never forgotten: the machine    *)
(* holds, or the cycle ends.                                               *)
HoldHonoured ==
  ("FEED_HOLD" \in rt /\ state = "CYCLE")
    ~> (state # "CYCLE" \/ at = "reset")

(* A line that goes beyond the soft limits ends in the halt or a reset,    *)
(* never in the execution of the line.                                     *)
SoftLimitStops == softLimit ~> (at \in {"halt", "reset"} \/ ~softLimit)
=============================================================================
