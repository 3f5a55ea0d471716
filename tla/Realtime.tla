------------------------------ MODULE Realtime ------------------------------
(***************************************************************************)
(* The realtime executive of Grbl: protocol_execute_realtime(), the        *)
(* checkpoint every loop of the main program runs through, and the         *)
(* interrupts that talk to it through two flag bytes, sys_rt_exec_state    *)
(* (here rt) and sys_rt_exec_alarm (here alarm).                           *)
(*                                                                         *)
(* The main program is one thread of control: `at' is the label it stands  *)
(* at, and `ret' the label of the caller the checkpoint returns to.  An    *)
(* interrupt may run between any two labels, never inside one; a label is  *)
(* placed wherever an interrupt could see, or change, something the main   *)
(* program has read and not yet used.                                      *)
(*                                                                         *)
(* Motion is counted in step segments (stepper.c): `todo' segments are     *)
(* still in the planner, SegsPerBlock to a block, and `segs' have been     *)
(* moved to the segment ring the stepper interrupt empties.                *)
(***************************************************************************)
EXTENDS Integers, FiniteSets

CONSTANTS
  SegsPerBlock, \* segments one planner block is cut into
  MaxBlocks,    \* BLOCK_BUFFER_SIZE - 1: blocks the planner can hold
  SegCap,       \* SEGMENT_BUFFER_SIZE - 1: segments the ring can hold
  MaxBrake,     \* most segments a feed hold needs to come to rest
  Events,       \* the interrupts that happen in this instance
  Underrun      \* may the ring run dry while the planner still feeds it?

ASSUME SegsPerBlockAssumption == SegsPerBlock \in Nat \ {0}
ASSUME MaxBlocksAssumption == MaxBlocks \in Nat \ {0}
ASSUME SegCapAssumption == SegCap \in Nat \ {0}
ASSUME MaxBrakeAssumption == MaxBrake \in Nat
ASSUME UnderrunAssumption == Underrun \in BOOLEAN

VARIABLES
  at, ret,   \* where the main program is, and where the checkpoint returns
  state,     \* sys.state
  suspend,   \* sys.suspend, the set of its bits
  rt,        \* sys_rt_exec_state, the set of flags raised
  exec,      \* rt_exec, the checkpoint's copy of rt
  alarm,     \* sys_rt_exec_alarm, the set of flags raised
  abort,     \* sys.abort
  softLimit, \* sys.soft_limit
  todo,      \* segments the planner's blocks still have to be cut into
  segs,      \* segments in the ring
  moving,    \* prep.current_speed is not zero: prep has more to give
  brake,     \* segments left to prepare until a hold comes to rest
  stepping,  \* OCIE1A: the stepper interrupt is enabled
  spindle,   \* the spindle output is on (coolant goes the same way)
  modal,     \* gc_state.modal.spindle is not SPINDLE_DISABLE
  asked      \* the pending CYCLE_START came from the user, not auto-start

control == <<at, ret>>
motion  == <<todo, segs, moving, brake>>
power   == <<spindle, modal>>
rtVars  == <<at, ret, state, suspend, rt, exec, alarm, abort, softLimit,
             todo, segs, moving, brake, stepping, spindle, modal, asked>>

States == {"IDLE", "ALARM", "CHECK_MODE", "HOMING", "CYCLE", "HOLD",
           "SAFETY_DOOR", "MOTION_CANCEL"}
Suspends == {"ENABLE_HOLD", "ENABLE_READY", "ENERGIZE", "MOTION_CANCEL"}
HoldFlags == {"MOTION_CANCEL", "FEED_HOLD", "SAFETY_DOOR"}
Flags == HoldFlags \cup {"CYCLE_START", "CYCLE_STOP", "RESET"}
Alarms == {"CRITICAL_EVENT", "HARD_LIMIT", "SOFT_LIMIT", "ABORT_CYCLE",
           "PROBE_FAIL", "HOMING_FAIL"}
Holding == {"HOLD", "MOTION_CANCEL", "SAFETY_DOOR"}
RtLabels == {"alarm", "halt", "unalarm", "snap", "hold", "start", "resume",
             "prime", "wake", "stop", "prep"}

Least(a, b) == IF a < b THEN a ELSE b

-----------------------------------------------------------------------------
(* mc_reset(): the first call raises RESET and stops the spindle; if the   *)
(* machine is seen moving it also kills the steppers and raises an alarm.  *)
(* `more' are alarm flags the caller raises right after it.                *)
McReset(more) ==
  LET first == "RESET" \notin rt
      kill  == /\ first
               /\ state \in {"CYCLE", "HOMING"} \/ suspend = {"ENABLE_HOLD"}
      lost  == IF state = "HOMING" THEN "HOMING_FAIL" ELSE "ABORT_CYCLE"
  IN  /\ rt' = rt \cup {"RESET"}
      /\ alarm' = alarm \cup more \cup (IF kill THEN {lost} ELSE {})
      /\ stepping' = (stepping /\ ~kill)
      /\ spindle' = (spindle /\ ~first)

(* st_prep_buffer(): move segments from the planner to the ring until it   *)
(* is full, the planner is empty, or a hold has been brought to rest.      *)
Prep ==
  LET held == state \in Holding
      room == Least(SegCap - segs, todo)
      n    == IF ~held THEN room ELSE IF moving THEN Least(room, brake) ELSE 0
  IN  /\ todo' = todo - n
      /\ segs' = segs + n
      /\ brake' = IF held THEN brake - n ELSE brake
      /\ moving' = IF held THEN moving /\ todo' # 0 /\ brake' # 0
                   ELSE IF n # 0 THEN todo' # 0 ELSE moving

(* plan_get_current_block() and plan_check_full_buffer().                  *)
HasBlock == todo > 0
PlannerFullLate == todo > SegsPerBlock * MaxBlocks  \* mutant: one block too many
PlannerFull == todo > SegsPerBlock * (MaxBlocks - 1)

(* A call of protocol_execute_realtime() that will return to label r.      *)
CallRt(r) == at' = "alarm" /\ ret' = r

Goto(from, to) == at = from /\ at' = to /\ ret' = ret

-----------------------------------------------------------------------------
(* protocol_execute_realtime(), one action per label.                      *)

(* Alarms come first.  A critical one discards a pending reset and waits.  *)
RtAlarm ==
  /\ at = "alarm"
  /\ ret' = ret
  /\ IF alarm = {}
       THEN at' = "snap" /\ UNCHANGED <<state, rt>>
       ELSE /\ state' = "ALARM"
            /\ IF "CRITICAL_EVENT" \in alarm
                 THEN at' = "halt" /\ rt' = rt \ {"RESET"}
                 ELSE at' = "unalarm" /\ rt' = rt
  /\ UNCHANGED <<suspend, exec, alarm, abort, softLimit, motion, stepping,
                 power, asked>>

(* Mutant of RtHalt: the loop discards resets, not only its entry.         *)
RtHaltDeaf ==
  /\ at = "halt"
  /\ rt' = rt \ {"RESET"}
  /\ UNCHANGED <<control, state, suspend, exec, alarm, abort, softLimit,
                 motion, stepping, power, asked>>

(* The critical event loop: nothing but a reset leaves it.                 *)
RtHalt ==
  /\ Goto("halt", "unalarm")
  /\ "RESET" \in rt
  /\ UNCHANGED <<state, suspend, rt, exec, alarm, abort, softLimit, motion,
                 stepping, power, asked>>

RtUnalarm ==
  /\ Goto("unalarm", "snap")
  /\ alarm' = {}
  /\ UNCHANGED <<state, suspend, rt, exec, abort, softLimit, motion,
                 stepping, power, asked>>

(* Copy the volatile flags; a reset aborts at once, leaving it raised.     *)
RtSnap ==
  /\ at = "snap"
  /\ ret' = ret
  /\ IF "RESET" \in rt
       THEN abort' = TRUE /\ at' = ret /\ exec' = {}
       ELSE abort' = abort /\ at' = "hold" /\ exec' = rt
  /\ UNCHANGED <<state, suspend, rt, alarm, softLimit, motion, stepping,
                 power, asked>>

(* Mutant of RtHold: the whole flag byte is cleared, not the hold flags.   *)
RtHoldClearsAll ==
  /\ Goto("hold", "start")
  /\ rt' = IF exec \cap HoldFlags = {} THEN rt ELSE {}
  /\ IF exec \cap HoldFlags = {} \/ state \in {"ALARM", "CHECK_MODE"}
       THEN UNCHANGED <<state, suspend>>
       ELSE /\ state' = "HOLD"
            /\ suspend' = CASE state = "CYCLE" -> {"ENABLE_HOLD"}
                            [] state = "IDLE"  -> {"ENABLE_READY"}
                            [] OTHER           -> suspend
  /\ UNCHANGED <<exec, brake, alarm, abort, softLimit, todo, segs, moving,
                 stepping, power, asked>>

(* Mutant of RtHold: a hold in idle waits for a motion to end.             *)
RtHoldNeverReady ==
  /\ Goto("hold", "start")
  /\ rt' = IF exec \cap HoldFlags = {} THEN rt ELSE rt \ HoldFlags
  /\ IF exec \cap HoldFlags = {} \/ state \in {"ALARM", "CHECK_MODE"}
       THEN UNCHANGED <<state, suspend>>
       ELSE state' = "HOLD" /\ suspend' = {"ENABLE_HOLD"}
  /\ UNCHANGED <<exec, brake, alarm, abort, softLimit, todo, segs, moving,
                 stepping, power, asked>>

(* The hold states: motion cancel, feed hold, safety door.                 *)
RtHold ==
  /\ Goto("hold", "start")
  /\ rt' = IF exec \cap HoldFlags = {} THEN rt ELSE rt \ HoldFlags
  /\ IF exec \cap HoldFlags = {} \/ state \in {"ALARM", "CHECK_MODE"}
       THEN UNCHANGED <<state, suspend, exec, brake>>
       ELSE
         LET begun  == CASE state = "CYCLE" -> {"ENABLE_HOLD"}
                         [] state = "IDLE"  -> {"ENABLE_READY"}
                         [] OTHER           -> suspend
             cancel == "MOTION_CANCEL" \in exec
             door   == "SAFETY_DOOR" \in exec
             s1 == IF cancel /\ state = "CYCLE" THEN "MOTION_CANCEL" ELSE state
             s2 == IF "FEED_HOLD" \in exec /\ s1 # "SAFETY_DOOR" THEN "HOLD" ELSE s1
         IN  /\ state' = IF door THEN "SAFETY_DOOR" ELSE s2
             /\ suspend' = begun \cup (IF cancel THEN {"MOTION_CANCEL"} ELSE {})
                                 \cup (IF door THEN {"ENERGIZE"} ELSE {})
             /\ exec' = IF door /\ "ENABLE_READY" \in begun
                          THEN exec \cup {"CYCLE_STOP"} ELSE exec
             /\ IF state \in {"CYCLE", "IDLE"} /\ moving
                  THEN brake' \in 0..MaxBrake
                  ELSE brake' = IF state \in {"CYCLE", "IDLE"} THEN 0 ELSE brake
  /\ UNCHANGED <<alarm, abort, softLimit, todo, segs, moving, stepping, power,
                 asked>>

StartableOverHold ==  \* mutant: a hold in the same snapshot does not block
  /\ "CYCLE_START" \in exec
  /\ \/ state = "IDLE"
     \/ state \in {"HOLD", "MOTION_CANCEL"} /\ "ENABLE_READY" \in suspend

Startable ==
  /\ "CYCLE_START" \in exec
  /\ exec \cap HoldFlags = {}
  /\ \/ state = "IDLE"
     \/ state \in {"HOLD", "MOTION_CANCEL"} /\ "ENABLE_READY" \in suspend

(* CYCLE_START refused, or not asked for.                                  *)
RtNoStart ==
  /\ Goto("start", "stop")
  /\ ~Startable
  /\ rt' = IF "CYCLE_START" \in exec THEN rt \ {"CYCLE_START"} ELSE rt
  /\ asked' = (asked /\ "CYCLE_START" \notin exec)
  /\ UNCHANGED <<state, suspend, exec, alarm, abort, softLimit, motion,
                 stepping, power>>

(* CYCLE_START accepted: power a spindle the door had stopped, and wait.   *)
RtStart ==
  /\ Goto("start", "resume")
  /\ Startable
  /\ spindle' = (spindle \/ ("ENERGIZE" \in suspend /\ modal))
  /\ UNCHANGED <<state, suspend, rt, exec, alarm, abort, softLimit, motion,
                 stepping, modal, asked>>

(* After the delay: start the queued motion ...                            *)
RtResume ==
  /\ Goto("resume", "prime")
  /\ HasBlock /\ "MOTION_CANCEL" \notin suspend
  /\ state' = "CYCLE"
  /\ UNCHANGED <<suspend, rt, exec, alarm, abort, softLimit, motion,
                 stepping, power, asked>>

(* ... or, with nothing to run, go idle.                                   *)
RtResumeIdle ==
  /\ Goto("resume", "stop")
  /\ ~HasBlock \/ "MOTION_CANCEL" \in suspend
  /\ state' = "IDLE"
  /\ suspend' = {}
  /\ rt' = rt \ {"CYCLE_START"}
  /\ asked' = FALSE
  /\ UNCHANGED <<exec, alarm, abort, softLimit, motion, stepping, power>>

RtPrime ==
  /\ Goto("prime", "wake")
  /\ Prep
  /\ UNCHANGED <<state, suspend, rt, exec, alarm, abort, softLimit, stepping,
                 power, asked>>

(* Mutant of RtWake: every flag is cleared with CYCLE_START.               *)
RtWakeClearsAll ==
  /\ Goto("wake", "stop")
  /\ stepping' = TRUE
  /\ suspend' = {}
  /\ rt' = rt \cap {"RESET"}
  /\ asked' = FALSE
  /\ UNCHANGED <<state, exec, alarm, abort, softLimit, motion, power>>

(* st_wake_up() and the end of the CYCLE_START branch.                     *)
RtWake ==
  /\ Goto("wake", "stop")
  /\ stepping' = TRUE
  /\ suspend' = {}
  /\ rt' = rt \ {"CYCLE_START"}
  /\ asked' = FALSE
  /\ UNCHANGED <<state, exec, alarm, abort, softLimit, motion, power>>

(* Mutant of RtStop: the door leaves the spindle on.                       *)
RtStopEnergized ==
  /\ Goto("stop", "prep")
  /\ IF "CYCLE_STOP" \notin exec
       THEN UNCHANGED <<state, suspend, rt>>
       ELSE /\ rt' = rt \ {"CYCLE_STOP"}
            /\ IF state \in {"HOLD", "SAFETY_DOOR"} /\ ~softLimit
                 THEN suspend' = suspend \cup {"ENABLE_READY"} /\ state' = state
                 ELSE suspend' = {} /\ state' = "IDLE"
  /\ exec' = {}
  /\ UNCHANGED <<alarm, abort, softLimit, motion, stepping, power, asked>>

(* Mutant of RtStop: the hold of a soft limit is one to resume from.       *)
RtStopSoftLimit ==
  /\ Goto("stop", "prep")
  /\ IF "CYCLE_STOP" \notin exec
       THEN UNCHANGED <<state, suspend, rt>>
       ELSE /\ rt' = rt \ {"CYCLE_STOP"}
            /\ IF state \in {"HOLD", "SAFETY_DOOR"}
                 THEN suspend' = suspend \cup {"ENABLE_READY"} /\ state' = state
                 ELSE suspend' = {} /\ state' = "IDLE"
  /\ exec' = {}
  /\ UNCHANGED <<alarm, abort, softLimit, motion, stepping, power, asked>>

(* CYCLE_STOP: the steppers ran dry.  A hold is now ready to resume; any   *)
(* other motion is over.                                                   *)
RtStop ==
  /\ Goto("stop", "prep")
  /\ IF "CYCLE_STOP" \notin exec
       THEN UNCHANGED <<state, suspend, rt, spindle>>
       ELSE /\ rt' = rt \ {"CYCLE_STOP"}
            /\ IF state \in {"HOLD", "SAFETY_DOOR"} /\ ~softLimit
                 THEN /\ suspend' = suspend \cup {"ENABLE_READY"}
                      /\ spindle' = (spindle /\ "ENERGIZE" \notin suspend)
                      /\ state' = state
                 ELSE /\ suspend' = {}
                      /\ state' = "IDLE"
                      /\ spindle' = spindle
  /\ exec' = {}
  /\ UNCHANGED <<alarm, abort, softLimit, motion, stepping, modal, asked>>

(* Refill the ring, unlatch a closed door, and loop while suspended.       *)
RtPrep ==
  /\ at = "prep"
  /\ ret' = ret
  /\ IF state \in Holding \cup {"CYCLE", "HOMING"} THEN Prep ELSE UNCHANGED motion
  /\ state' = IF state = "SAFETY_DOOR" /\ "ENABLE_READY" \in suspend
                THEN "HOLD" ELSE state
  /\ at' = IF suspend = {} THEN ret ELSE "alarm"
  /\ UNCHANGED <<suspend, rt, exec, alarm, abort, softLimit, stepping, power,
                 asked>>

RtStep == \/ RtAlarm \/ RtHalt \/ RtUnalarm \/ RtSnap \/ RtHold \/ RtNoStart
          \/ RtStart \/ RtResume \/ RtResumeIdle \/ RtPrime \/ RtWake
          \/ RtStop \/ RtPrep

-----------------------------------------------------------------------------
(* The interrupts.                                                         *)

Raise(e, flags) ==
  /\ e \in Events
  /\ rt' = rt \cup flags
  /\ UNCHANGED <<control, state, suspend, exec, alarm, abort, softLimit,
                 motion, stepping, power>>

(* Realtime characters '~', '!' and '@', picked off by the serial          *)
(* interrupt, or the cycle-start and feed-hold pins.                       *)
CycleStartCmd == Raise("start", {"CYCLE_START"}) /\ asked' = TRUE
FeedHoldCmd   == Raise("hold", {"FEED_HOLD"}) /\ UNCHANGED asked
SafetyDoorCmd == Raise("door", {"SAFETY_DOOR"}) /\ UNCHANGED asked

(* Ctrl-x, or the reset pin.                                               *)
ResetCmd ==
  /\ "reset" \in Events
  /\ McReset({})
  /\ UNCHANGED <<control, state, suspend, exec, abort, softLimit, motion,
                 modal, asked>>

(* A limit switch changes.                                                 *)
LimitHit ==
  /\ "limit" \in Events
  /\ state # "ALARM"
  /\ alarm = {}
  /\ McReset({"HARD_LIMIT", "CRITICAL_EVENT"})
  /\ UNCHANGED <<control, state, suspend, exec, abort, softLimit, motion,
                 modal, asked>>

(* The stepper interrupt finishes one segment of the ring ...              *)
StepSegment ==
  /\ stepping
  /\ segs > 0
  /\ segs' = segs - 1
  /\ UNCHANGED <<control, state, suspend, rt, exec, alarm, abort, softLimit,
                 todo, moving, brake, stepping, power, asked>>

(* ... or finds it empty: st_go_idle() and CYCLE_STOP.  Without Underrun   *)
(* the ring is taken to outlast the main program's way from one            *)
(* st_prep_buffer() to the next, as the comment of that function states.   *)
StepEmpty ==
  /\ stepping
  /\ segs = 0
  /\ Underrun \/ ~moving \/ state = "ALARM"
  /\ stepping' = FALSE
  /\ rt' = rt \cup {"CYCLE_STOP"}
  /\ UNCHANGED <<control, state, suspend, exec, alarm, abort, softLimit,
                 motion, power, asked>>

Stepper == StepSegment \/ StepEmpty

Interrupt == \/ CycleStartCmd \/ FeedHoldCmd \/ SafetyDoorCmd \/ ResetCmd
             \/ LimitHit \/ Stepper
=============================================================================
