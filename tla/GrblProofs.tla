----------------------------- MODULE GrblProofs -----------------------------
(***************************************************************************)
(* Machine-checked proofs of what GrblProperties states, for every size of *)
(* planner, segment ring and block, every set of interrupts and every set  *)
(* of lines.  Inv is the inductive invariant; its parts say what each      *)
(* label of the main program may rely on although interrupts run between   *)
(* the labels.                                                             *)
(***************************************************************************)
EXTENDS GrblProperties, TLAPS

Snapped == {"hold", "start", "resume", "prime", "wake", "stop"}
Working == MainLabels \ {"reset", "clearRt", "clearAlarm", "boot"}
AtRest == \/ state \in {"IDLE", "CHECK_MODE"}
          \/ state # "CYCLE" /\ "ENABLE_READY" \in suspend

(* The snapshot exists only while the checkpoint works on it.              *)
SnapshotInv ==
  /\ at \notin Snapped => exec = {}
  /\ at = "hold" => exec \subseteq rt
  /\ at \in Snapped => ~abort

(* A machine at rest has no stop to come; a stop that is pending, or read, *)
(* means that the steppers are off.                                        *)
StopInv ==
  /\ state # "HOMING"
  /\ AtRest => ~stepping /\ "CYCLE_STOP" \notin rt
  /\ "CYCLE_STOP" \in rt \cup exec => ~stepping
  /\ at = "start" /\ "CYCLE_STOP" \in exec
       => "CYCLE_STOP" \in rt \/ "SAFETY_DOOR" \in exec
  /\ state = "ALARM" => "CYCLE_STOP" \notin exec

(* Between the accepted cycle start and st_wake_up() nothing moves.        *)
StartInv ==
  /\ at \in {"resume", "prime", "wake"}
       => ~stepping /\ "CYCLE_STOP" \notin rt \cup exec
  /\ at = "resume" => state \in {"IDLE", "HOLD", "MOTION_CANCEL"}
  /\ at \in {"prime", "wake"} => state = "CYCLE"
  /\ at \notin {"prime", "wake"} /\ state = "CYCLE"
       => "ENABLE_READY" \notin suspend

(* An alarm or an abort always comes with the reset that will end it.      *)
ResetInv ==
  /\ alarm # {} => "RESET" \in rt \/ at \in {"halt", "clearAlarm"}
  /\ abort => "RESET" \in rt \/ at \in {"halt", "reset", "clearRt"}
  /\ at \in {"reset", "clearRt"} => abort
  /\ at = "unalarm" => "RESET" \in rt
  /\ state = "ALARM" /\ (stepping \/ "CYCLE_STOP" \in rt)
       => abort \/ at \in {"halt", "unalarm"} \/ (at = "snap" /\ "RESET" \in rt)
  /\ at \in {"clearRt", "clearAlarm", "boot"} => ~stepping /\ ~spindle
  /\ at \in {"clearAlarm", "boot"} => "CYCLE_STOP" \notin rt
  /\ at = "boot" => suspend = {}

(* The checkpoint returns to a program that is not suspended.              *)
ReturnInv ==
  /\ at \in Working /\ ~abort => suspend = {}
  /\ at \in RtLabels \cup Working /\ state \in Holding => suspend # {}
  /\ at = "synced" /\ ~abort => state # "CYCLE"
  /\ at \in RtLabels => ret \in Working \ {"synced"}

(* The door's stop of the spindle is always still to come, or done.        *)
DoorInv ==
  /\ {"ENERGIZE", "ENABLE_READY"} \subseteq suspend /\ spindle /\ ~abort
  => \/ at \in {"start", "stop"} /\ "CYCLE_STOP" \in exec
     \/ at \in {"resume", "prime", "wake"}

(* A cycle start pending in a hold is the user's, unless it was in the     *)
(* snapshot that began the hold.                                           *)
AskedInv ==
  /\ at \in {"hold", "start"} /\ "CYCLE_START" \in rt \ exec
       => asked
  /\ suspend # {} /\ ~abort /\ "CYCLE_START" \in rt
       => asked \/ at \in {"resume", "prime", "wake"}
          \/ (at = "start" /\ exec \cap HoldFlags # {})
  /\ suspend # {} /\ at \in {"hold", "start"} /\ "CYCLE_START" \in exec
       => asked \/ (at = "start" /\ exec \cap HoldFlags # {})

Inv == /\ TypeOK
       /\ SnapshotInv /\ StopInv /\ StartInv /\ ResetInv /\ ReturnInv
       /\ MotionEnds /\ DoorInv /\ AskedInv

-----------------------------------------------------------------------------
(* Types and bounds.                                                       *)

USE DEF vars, rtVars, control, motion, power, sysVars

(* The planner's capacity in segments is a number.                         *)
LEMMA Capacity == SegsPerBlock * MaxBlocks \in Nat
  BY SegsPerBlockAssumption, MaxBlocksAssumption

(* Least() is the smaller of its arguments.                                *)
LEMMA LeastSmaller ==
  ASSUME NEW a \in Nat, NEW b \in Nat
  PROVE  Least(a, b) \in Nat /\ Least(a, b) <= a /\ Least(a, b) <= b
  BY DEF Least

(* st_prep_buffer() neither overfills the ring nor takes more from the     *)
(* planner, or from the braking distance, than is there.                   *)
LEMMA PrepTypes ==
  ASSUME TypeOK, Prep
  PROVE  MotionTypes' /\ moving' \in BOOLEAN
<1> DEFINE held == state \in Holding
           room == Least(SegCap - segs, todo)
           n == IF ~held THEN room ELSE IF moving THEN Least(room, brake) ELSE 0
<1>1. /\ todo \in 0..(SegsPerBlock * MaxBlocks)
      /\ segs \in 0..SegCap /\ brake \in 0..MaxBrake
  BY DEF TypeOK, MotionTypes
<1>2. SegCap \in Nat /\ MaxBrake \in Nat
  BY SegCapAssumption, MaxBrakeAssumption
<1>3. room \in Nat /\ room <= SegCap - segs /\ room <= todo
  <2>1. SegCap - segs \in Nat /\ todo \in Nat
    BY <1>1, <1>2, Capacity
  <2> QED
    BY <2>1, LeastSmaller
<1>4. n \in Nat /\ n <= room /\ (held => n <= brake)
  <2> HIDE DEF room
  <2>1. brake \in Nat
    BY <1>1, <1>2
  <2>2. moving => Least(room, brake) \in Nat /\ Least(room, brake) <= room
                  /\ Least(room, brake) <= brake
    BY <1>3, <2>1, LeastSmaller
  <2> QED
    BY <1>3, <2>1, <2>2
<1>5. /\ todo' = todo - n /\ segs' = segs + n
      /\ brake' = IF held THEN brake - n ELSE brake
      /\ moving' = IF held THEN moving /\ todo' # 0 /\ brake' # 0
                   ELSE IF n # 0 THEN todo' # 0 ELSE moving
  BY DEF Prep
<1>6. MotionTypes'
  <2> HIDE DEF n, room
  <2> QED
    BY <1>1, <1>2, <1>3, <1>4, <1>5, Capacity DEF MotionTypes
<1>7. moving' \in BOOLEAN
  <2> HIDE DEF n, room
  <2> QED
    BY <1>5, Zenon DEF TypeOK, SwitchTypes
<1> QED
  BY <1>6, <1>7

(* Every step keeps every variable within its type and its bounds.         *)
LEMMA TypeStep == TypeOK /\ [Next]_vars => TypeOK'
<1> SUFFICES ASSUME TypeOK, [Next]_vars PROVE TypeOK'
  OBVIOUS
<1> USE SegsPerBlockAssumption, MaxBlocksAssumption, SegCapAssumption,
   MaxBrakeAssumption, JobsAssumption, Capacity DEF TypeOK, FlagTypes,
   SwitchTypes, MotionTypes, Labels, RtLabels, MainLabels, States, Suspends,
   HoldFlags, Flags, Alarms, Holding, AllJobs
<1>1. CASE Startup
  <2>1. CASE Reset
    <3>1. FlagTypes'
      BY <1>1, <2>1 DEF Reset, Goto
    <3>2. SwitchTypes'
      BY <1>1, <2>1 DEF Reset, Goto
    <3>3. MotionTypes'
      BY <1>1, <2>1 DEF Reset, Goto
    <3> QED
      BY <3>1, <3>2, <3>3
  <2>2. CASE ClearRt
    <3>1. FlagTypes'
      BY <1>1, <2>2 DEF ClearRt, Goto
    <3>2. SwitchTypes'
      BY <1>1, <2>2 DEF ClearRt, Goto
    <3>3. MotionTypes'
      BY <1>1, <2>2 DEF ClearRt, Goto
    <3> QED
      BY <3>1, <3>2, <3>3
  <2>3. CASE ClearAlarm
    <3>1. FlagTypes'
      BY <1>1, <2>3 DEF ClearAlarm, Goto
    <3>2. SwitchTypes'
      BY <1>1, <2>3 DEF ClearAlarm, Goto
    <3>3. MotionTypes'
      BY <1>1, <2>3 DEF ClearAlarm, Goto
    <3> QED
      BY <3>1, <3>2, <3>3
  <2>4. CASE Boot
    BY <1>1, <2>4 DEF Boot, Goto
  <2> QED
    BY <1>1, <2>1, <2>2, <2>3, <2>4 DEF Startup
<1>2. CASE ReadLine \/ AutoStart \/ Polled
  <2>1. CASE ReadLine
    BY <1>2, <2>1 DEF ReadLine, CallRt
  <2>2. CASE AutoStart
    BY <1>2, <2>2 DEF AutoStart, CallRt
  <2>3. CASE Polled
    BY <1>2, <2>3 DEF Polled, Goto
  <2> QED
    BY <1>2, <2>1, <2>2, <2>3
<1>3. CASE LineStep
  <2>1. CASE LineDropped
    BY <1>3, <2>1 DEF LineDropped, EndLine
  <2>2. CASE Unlock
    BY <1>3, <2>2 DEF Unlock, EndLine
  <2>3. CASE CheckMode
    <3>1. FlagTypes'
      BY <1>3, <2>3 DEF CheckMode, EndLine, McReset
    <3>2. SwitchTypes'
      BY <1>3, <2>3 DEF CheckMode, EndLine, McReset
    <3>3. MotionTypes'
      BY <1>3, <2>3 DEF CheckMode, EndLine, McReset
    <3> QED
      BY <3>1, <3>2, <3>3
  <2>4. CASE MoveLine
    BY <1>3, <2>4 DEF MoveLine, GCode
  <2>5. CASE McLineCheckMode
    BY <1>3, <2>5 DEF McLineCheckMode, EndLine
  <2>6. CASE McLine
    BY <1>3, <2>6 DEF McLine, CallRt
  <2>7. CASE McLineAborted
    BY <1>3, <2>7 DEF McLineAborted, EndLine
  <2>8. CASE McLineFull
    BY <1>3, <2>8 DEF McLineFull, CallRt, PlannerFull
  <2>9. CASE McLineQueue
    BY <1>3, <2>9 DEF McLineQueue, EndLine, PlannerFull
  <2>10. CASE SoftCheck
    <3>1. FlagTypes'
      BY <1>3, <2>10 DEF SoftCheck, CallRt, GCode
    <3>2. SwitchTypes'
      BY <1>3, <2>10 DEF SoftCheck, CallRt, GCode
    <3>3. MotionTypes'
      BY <1>3, <2>10 DEF SoftCheck, CallRt, GCode
    <3> QED
      BY <3>1, <3>2, <3>3
  <2>11. CASE SoftWait
    BY <1>3, <2>11 DEF SoftWait, CallRt
  <2>12. CASE SoftReset
    BY <1>3, <2>12 DEF SoftReset, CallRt, McReset
  <2>13. CASE SpindleCheckMode
    BY <1>3, <2>13 DEF SpindleCheckMode, EndLine, GCode
  <2>14. CASE SpindleRun
    BY <1>3, <2>14 DEF SpindleRun, GCode, StartSync, CallRt
  <2>15. CASE ProgramPause
    BY <1>3, <2>15 DEF ProgramPause, GCode, StartSync, CallRt
  <2>16. CASE SyncWait
    BY <1>3, <2>16 DEF SyncWait, CallRt
  <2>17. CASE SyncDone
    BY <1>3, <2>17 DEF SyncDone, Goto
  <2>18. CASE SpindleSet
    BY <1>3, <2>18 DEF SpindleSet, EndLine
  <2>19. CASE PauseHold
    BY <1>3, <2>19 DEF PauseHold, CallRt
  <2>20. CASE PauseCheckMode
    BY <1>3, <2>20 DEF PauseCheckMode, EndLine
  <2> QED
    BY <1>3, <2>1, <2>2, <2>3, <2>4, <2>5, <2>6, <2>7, <2>8, <2>9, <2>10,
       <2>11, <2>12, <2>13, <2>14, <2>15, <2>16, <2>17, <2>18, <2>19, <2>20 DEF
       LineStep
<1>4. CASE RtStep /\ UNCHANGED job
  <2>1. CASE RtAlarm
    <3>1. FlagTypes'
      BY <1>4, <2>1 DEF RtAlarm
    <3>2. SwitchTypes'
      BY <1>4, <2>1 DEF RtAlarm
    <3>3. MotionTypes'
      BY <1>4, <2>1 DEF RtAlarm
    <3> QED
      BY <3>1, <3>2, <3>3
  <2>2. CASE RtHalt
    BY <1>4, <2>2 DEF RtHalt, Goto
  <2>3. CASE RtUnalarm
    BY <1>4, <2>3 DEF RtUnalarm, Goto
  <2>4. CASE RtSnap
    <3>1. FlagTypes'
      BY <1>4, <2>4 DEF RtSnap
    <3>2. SwitchTypes'
      BY <1>4, <2>4 DEF RtSnap
    <3>3. MotionTypes'
      BY <1>4, <2>4 DEF RtSnap
    <3> QED
      BY <3>1, <3>2, <3>3
  <2>5. CASE RtHold
    BY <1>4, <2>5 DEF RtHold, Goto
  <2>6. CASE RtNoStart
    BY <1>4, <2>6 DEF RtNoStart, Goto
  <2>7. CASE RtStart
    BY <1>4, <2>7 DEF RtStart, Goto
  <2>8. CASE RtResume
    BY <1>4, <2>8 DEF RtResume, Goto
  <2>9. CASE RtResumeIdle
    <3>1. FlagTypes'
      BY <1>4, <2>9 DEF RtResumeIdle, Goto
    <3>2. SwitchTypes'
      BY <1>4, <2>9 DEF RtResumeIdle, Goto
    <3>3. MotionTypes'
      BY <1>4, <2>9 DEF RtResumeIdle, Goto
    <3> QED
      BY <3>1, <3>2, <3>3
  <2>10. CASE RtPrime
    BY <1>4, <2>10, PrepTypes DEF RtPrime, Goto
  <2>11. CASE RtWake
    <3>1. FlagTypes'
      BY <1>4, <2>11 DEF RtWake, Goto
    <3>2. SwitchTypes'
      BY <1>4, <2>11 DEF RtWake, Goto
    <3>3. MotionTypes'
      BY <1>4, <2>11 DEF RtWake, Goto
    <3> QED
      BY <3>1, <3>2, <3>3
  <2>12. CASE RtStop
    <3>1. FlagTypes'
      BY <1>4, <2>12 DEF RtStop, Goto
    <3>2. SwitchTypes'
      BY <1>4, <2>12 DEF RtStop, Goto
    <3>3. MotionTypes'
      BY <1>4, <2>12 DEF RtStop, Goto
    <3> QED
      BY <3>1, <3>2, <3>3
  <2>13. CASE RtPrep
    BY <1>4, <2>13, PrepTypes DEF RtPrep
  <2> QED
    BY <1>4, <2>1, <2>2, <2>3, <2>4, <2>5, <2>6, <2>7, <2>8, <2>9, <2>10,
       <2>11, <2>12, <2>13 DEF RtStep
<1>5. CASE Interrupt /\ UNCHANGED job
  <2>1. CASE CycleStartCmd
    BY <1>5, <2>1 DEF CycleStartCmd, Raise
  <2>2. CASE FeedHoldCmd
    BY <1>5, <2>2 DEF FeedHoldCmd, Raise
  <2>3. CASE SafetyDoorCmd
    BY <1>5, <2>3 DEF SafetyDoorCmd, Raise
  <2>4. CASE ResetCmd
    BY <1>5, <2>4 DEF ResetCmd, McReset
  <2>5. CASE LimitHit
    BY <1>5, <2>5 DEF LimitHit, McReset
  <2>6. CASE StepSegment
    BY <1>5, <2>6 DEF StepSegment
  <2>7. CASE StepEmpty
    <3>1. FlagTypes'
      BY <1>5, <2>7 DEF StepEmpty
    <3>2. SwitchTypes'
      BY <1>5, <2>7 DEF StepEmpty
    <3>3. MotionTypes'
      BY <1>5, <2>7 DEF StepEmpty
    <3> QED
      BY <3>1, <3>2, <3>3
  <2> QED
    BY <1>5, <2>1, <2>2, <2>3, <2>4, <2>5, <2>6, <2>7 DEF Interrupt, Stepper
<1>6. CASE UNCHANGED vars
  BY <1>6
<1> QED
  BY <1>1, <1>2, <1>3, <1>4, <1>5, <1>6 DEF Next, Main

-----------------------------------------------------------------------------
(* The inductive invariant.                                                *)

(* Every step keeps the invariant.                                         *)
LEMMA InvStep == Inv /\ [Next]_vars => Inv'
<1> SUFFICES ASSUME Inv, [Next]_vars PROVE Inv'
  OBVIOUS
<1>0. TypeOK'
  BY TypeStep DEF Inv
<1> USE DEF TypeOK, FlagTypes, SwitchTypes, MotionTypes, Inv, SnapshotInv,
   StopInv, StartInv, ResetInv, ReturnInv, MotionEnds, DoorInv, AskedInv,
   AtRest, Snapped, Working, Resuming, Labels, RtLabels, MainLabels, States,
   Suspends, HoldFlags, Flags, Alarms, Holding, AllJobs
<1>1. CASE Startup
  <2>1. CASE Reset
    BY <1>0, <1>1, <2>1 DEF Reset, Goto
  <2>2. CASE ClearRt
    BY <1>0, <1>1, <2>2 DEF ClearRt, Goto
  <2>3. CASE ClearAlarm
    BY <1>0, <1>1, <2>3 DEF ClearAlarm, Goto
  <2>4. CASE Boot
    BY <1>0, <1>1, <2>4 DEF Boot, Goto
  <2> QED
    BY <1>0, <1>1, <2>1, <2>2, <2>3, <2>4 DEF Startup
<1>2. CASE ReadLine \/ AutoStart \/ Polled
  <2>1. CASE ReadLine
    BY <1>0, <1>2, <2>1 DEF ReadLine, CallRt
  <2>2. CASE AutoStart
    BY <1>0, <1>2, <2>2 DEF AutoStart, CallRt
  <2>3. CASE Polled
    BY <1>0, <1>2, <2>3 DEF Polled, Goto
  <2> QED
    BY <1>0, <1>2, <2>1, <2>2, <2>3
<1>3. CASE LineStep
  <2>1. CASE LineDropped
    BY <1>0, <1>3, <2>1 DEF LineDropped, EndLine
  <2>2. CASE Unlock
    BY <1>0, <1>3, <2>2 DEF Unlock, EndLine
  <2>3. CASE CheckMode
    BY <1>0, <1>3, <2>3 DEF CheckMode, EndLine, McReset
  <2>4. CASE MoveLine
    BY <1>0, <1>3, <2>4 DEF MoveLine, GCode
  <2>5. CASE McLineCheckMode
    BY <1>0, <1>3, <2>5 DEF McLineCheckMode, EndLine
  <2>6. CASE McLine
    BY <1>0, <1>3, <2>6 DEF McLine, CallRt
  <2>7. CASE McLineAborted
    BY <1>0, <1>3, <2>7 DEF McLineAborted, EndLine
  <2>8. CASE McLineFull
    BY <1>0, <1>3, <2>8 DEF McLineFull, CallRt
  <2>9. CASE McLineQueue
    BY <1>0, <1>3, <2>9 DEF McLineQueue, EndLine
  <2>10. CASE SoftCheck
    BY <1>0, <1>3, <2>10 DEF SoftCheck, CallRt, GCode
  <2>11. CASE SoftWait
    BY <1>0, <1>3, <2>11 DEF SoftWait, CallRt
  <2>12. CASE SoftReset
    BY <1>0, <1>3, <2>12 DEF SoftReset, CallRt, McReset
  <2>13. CASE SpindleCheckMode
    BY <1>0, <1>3, <2>13 DEF SpindleCheckMode, EndLine, GCode
  <2>14. CASE SpindleRun
    BY <1>0, <1>3, <2>14 DEF SpindleRun, GCode, StartSync, CallRt
  <2>15. CASE ProgramPause
    BY <1>0, <1>3, <2>15 DEF ProgramPause, GCode, StartSync, CallRt
  <2>16. CASE SyncWait
    BY <1>0, <1>3, <2>16 DEF SyncWait, CallRt, SyncBusy
  <2>17. CASE SyncDone
    BY <1>0, <1>3, <2>17 DEF SyncDone, Goto, SyncBusy
  <2>18. CASE SpindleSet
    BY <1>0, <1>3, <2>18 DEF SpindleSet, EndLine
  <2>19. CASE PauseHold
    BY <1>0, <1>3, <2>19 DEF PauseHold, CallRt
  <2>20. CASE PauseCheckMode
    BY <1>0, <1>3, <2>20 DEF PauseCheckMode, EndLine
  <2> QED
    BY <1>0, <1>3, <2>1, <2>2, <2>3, <2>4, <2>5, <2>6, <2>7, <2>8, <2>9, <2>10,
       <2>11, <2>12, <2>13, <2>14, <2>15, <2>16, <2>17, <2>18, <2>19, <2>20 DEF
       LineStep
<1>4. CASE RtStep /\ UNCHANGED job
  <2>1. CASE RtAlarm
    BY <1>0, <1>4, <2>1 DEF RtAlarm
  <2>2. CASE RtHalt
    BY <1>0, <1>4, <2>2 DEF RtHalt, Goto
  <2>3. CASE RtUnalarm
    BY <1>0, <1>4, <2>3 DEF RtUnalarm, Goto
  <2>4. CASE RtSnap
    BY <1>0, <1>4, <2>4 DEF RtSnap
  <2>5. CASE RtHold
    BY <1>0, <1>4, <2>5 DEF RtHold, Goto
  <2>6. CASE RtNoStart
    BY <1>0, <1>4, <2>6 DEF RtNoStart, Goto, Startable
  <2>7. CASE RtStart
    BY <1>0, <1>4, <2>7 DEF RtStart, Goto, Startable
  <2>8. CASE RtResume
    BY <1>0, <1>4, <2>8 DEF RtResume, Goto
  <2>9. CASE RtResumeIdle
    BY <1>0, <1>4, <2>9 DEF RtResumeIdle, Goto
  <2>10. CASE RtPrime
    BY <1>0, <1>4, <2>10 DEF RtPrime, Goto
  <2>11. CASE RtWake
    BY <1>0, <1>4, <2>11 DEF RtWake, Goto
  <2>12. CASE RtStop
    <3>1. SnapshotInv' /\ StopInv' /\ StartInv' /\ ResetInv' /\ ReturnInv'
          /\ MotionEnds' /\ AskedInv'
      <4>1. CASE "CYCLE_STOP" \notin exec
        BY <4>1, <1>0, <1>4, <2>12 DEF RtStop, Goto
      <4>2. CASE /\ "CYCLE_STOP" \in exec
                 /\ state \in {"HOLD", "SAFETY_DOOR"} /\ ~softLimit
        BY <4>2, <1>0, <1>4, <2>12 DEF RtStop, Goto
      <4>3. CASE /\ "CYCLE_STOP" \in exec
                 /\ ~(state \in {"HOLD", "SAFETY_DOOR"} /\ ~softLimit)
        BY <4>3, <1>0, <1>4, <2>12 DEF RtStop, Goto
      <4> QED
        BY <4>1, <4>2, <4>3
    <3>2. DoorInv'
      <4>1. CASE "CYCLE_STOP" \notin exec
        BY <4>1, <1>4, <2>12 DEF RtStop, Goto
      <4>2. CASE /\ "CYCLE_STOP" \in exec
                 /\ state \in {"HOLD", "SAFETY_DOOR"} /\ ~softLimit
        <5>1. spindle' = (spindle /\ "ENERGIZE" \notin suspend)
              /\ suspend' = suspend \cup {"ENABLE_READY"}
          BY <4>2, <1>4, <2>12 DEF RtStop
        <5>2. spindle' => "ENERGIZE" \notin suspend'
          BY <5>1
        <5> QED
          BY <5>2
      <4>3. CASE /\ "CYCLE_STOP" \in exec
                 /\ ~(state \in {"HOLD", "SAFETY_DOOR"} /\ ~softLimit)
        BY <4>3, <1>4, <2>12 DEF RtStop, Goto
      <4> QED
        BY <4>1, <4>2, <4>3
    <3> QED
      BY <1>0, <3>1, <3>2
  <2>13. CASE RtPrep
    BY <1>0, <1>4, <2>13 DEF RtPrep
  <2> QED
    BY <1>0, <1>4, <2>1, <2>2, <2>3, <2>4, <2>5, <2>6, <2>7, <2>8, <2>9, <2>10,
       <2>11, <2>12, <2>13 DEF RtStep
<1>5. CASE Interrupt /\ UNCHANGED job
  <2>1. CASE CycleStartCmd
    BY <1>0, <1>5, <2>1 DEF CycleStartCmd, Raise
  <2>2. CASE FeedHoldCmd
    BY <1>0, <1>5, <2>2 DEF FeedHoldCmd, Raise
  <2>3. CASE SafetyDoorCmd
    BY <1>0, <1>5, <2>3 DEF SafetyDoorCmd, Raise
  <2>4. CASE ResetCmd
    BY <1>0, <1>5, <2>4 DEF ResetCmd, McReset
  <2>5. CASE LimitHit
    BY <1>0, <1>5, <2>5 DEF LimitHit, McReset
  <2>6. CASE StepSegment
    BY <1>0, <1>5, <2>6 DEF StepSegment
  <2>7. CASE StepEmpty
    BY <1>0, <1>5, <2>7 DEF StepEmpty
  <2> QED
    BY <1>0, <1>5, <2>1, <2>2, <2>3, <2>4, <2>5, <2>6, <2>7 DEF Interrupt, Stepper
<1>6. CASE UNCHANGED vars
  BY <1>0, <1>6
<1> QED
  BY <1>0, <1>1, <1>2, <1>3, <1>4, <1>5, <1>6 DEF Next, Main

-----------------------------------------------------------------------------
(* The theorems.                                                           *)

(* The program starts within the types.                                    *)
LEMMA TypeInit == Init => TypeOK
<1> SUFFICES ASSUME Init PROVE TypeOK
  OBVIOUS
<1>1. FlagTypes
  BY DEF Init, FlagTypes, Labels, MainLabels, States, AllJobs
<1>2. SwitchTypes
  BY DEF Init, SwitchTypes
<1>3. MotionTypes
  BY Capacity, SegCapAssumption, MaxBrakeAssumption DEF Init, MotionTypes
<1> QED
  BY <1>1, <1>2, <1>3 DEF TypeOK

(* Every reachable state is within the types: the planner, the ring and    *)
(* the braking distance never leave their bounds, whatever they are.       *)
THEOREM TypeCorrect == Spec => []TypeOK
<1>1. Init => TypeOK
  BY TypeInit
<1>2. TypeOK /\ [Next]_vars => TypeOK'
  BY TypeStep
<1> QED
  BY <1>1, <1>2, PTL DEF Spec

(* The program starts with the invariant.                                  *)
LEMMA InvInit == Init => Inv
<1> SUFFICES ASSUME Init PROVE Inv
  OBVIOUS
<1>1. TypeOK
  BY TypeInit
<1> QED
  BY <1>1 DEF Init, Inv, SnapshotInv, StopInv, StartInv, ResetInv, ReturnInv,
     MotionEnds, DoorInv, AskedInv, AtRest, Snapped, Working, RtLabels,
     MainLabels, Holding

(* The invariant holds in every reachable state.                           *)
THEOREM Invariance == Spec => []Inv
  BY InvInit, InvStep, PTL DEF Spec

(* The steppers are off whenever the machine is idle, in check mode or in  *)
(* a hold that is ready to resume.                                         *)
THEOREM RestTheorem == Spec => []RestIsStill
<1>1. Inv => RestIsStill
  BY DEF Inv, StopInv, AtRest, RestIsStill
<1> QED
  BY <1>1, Invariance, PTL

(* A cycle or a hold always has its end coming.                            *)
THEOREM MotionEndsTheorem == Spec => []MotionEnds
<1>1. Inv => MotionEnds
  BY DEF Inv
<1> QED
  BY <1>1, Invariance, PTL

(* The spindle is off while the safety door holds the machine.             *)
THEOREM DoorTheorem == Spec => []DoorDeEnergized
<1>1. Inv => DoorDeEnergized
  BY DEF Inv, DoorInv, DoorDeEnergized
<1> QED
  BY <1>1, Invariance, PTL

(* A synchronized program finds the steppers at rest.                      *)
THEOREM SyncTheorem == Spec => []SyncAtRest
<1>1. Inv => SyncAtRest
  BY DEF Inv, TypeOK, FlagTypes, StopInv, ResetInv, ReturnInv, MotionEnds,
     AtRest, SyncAtRest, States, Holding, Working, MainLabels
<1> QED
  BY <1>1, Invariance, PTL

(* No hold is resumed by the main program's auto-start.                    *)
THEOREM HoldTheorem == Spec => HoldNeedsUser
<1>1. Inv /\ [Next]_vars
        => [at = "start" /\ at' = "resume" /\ "ENABLE_READY" \in suspend
              => asked]_vars
  <2> SUFFICES ASSUME Inv, [Next]_vars, at = "start", at' = "resume",
                      "ENABLE_READY" \in suspend
               PROVE  asked
    OBVIOUS
  <2>1. RtStart
    <3>1. ~(Startup \/ ReadLine \/ AutoStart \/ Polled \/ LineStep)
      BY DEF Startup, Reset, ClearRt, ClearAlarm, Boot, ReadLine, AutoStart,
         Polled, LineStep, LineDropped, Unlock, CheckMode, MoveLine,
         McLineCheckMode, McLine, McLineAborted, McLineFull, McLineQueue,
         SoftCheck, SoftWait, SoftReset, SpindleCheckMode, SpindleRun,
         ProgramPause, SyncWait, SyncDone, SpindleSet, PauseHold,
         PauseCheckMode, GCode, Goto
    <3>2. ~Interrupt
      BY DEF Interrupt, CycleStartCmd, FeedHoldCmd, SafetyDoorCmd, ResetCmd,
         LimitHit, Stepper, StepSegment, StepEmpty, Raise
    <3>3. RtStep => RtStart
      BY DEF RtStep, RtAlarm, RtHalt, RtUnalarm, RtSnap, RtHold, RtNoStart,
         RtResume, RtResumeIdle, RtPrime, RtWake, RtStop, RtPrep, Goto
    <3> QED
      BY <3>1, <3>2, <3>3 DEF Next, Main
  <2>2. "CYCLE_START" \in exec /\ exec \cap HoldFlags = {}
    BY <2>1 DEF RtStart, Startable
  <2> QED
    BY <2>2 DEF Inv, AskedInv
<1> QED
  BY <1>1, Invariance, PTL DEF Spec, HoldNeedsUser

(* Only the unlock command ends an alarm.                                  *)
THEOREM AlarmTheorem == Spec => AlarmLatched
<1>1. Inv /\ [Next]_vars
        => [state = "ALARM" /\ state' # "ALARM" => job = "unlock"]_vars
  <2> SUFFICES ASSUME Inv, state = "ALARM", state' # "ALARM", [Next]_vars
               PROVE  job = "unlock"
    OBVIOUS
  <2>1. ~Startup
    BY DEF Startup, Reset, ClearRt, ClearAlarm, Boot
  <2>2. ~(ReadLine \/ AutoStart \/ Polled)
    BY DEF ReadLine, AutoStart, Polled
  <2>3. LineStep => Unlock
    BY DEF LineStep, LineDropped, CheckMode, MoveLine, McLineCheckMode, McLine,
       McLineAborted, McLineFull, McLineQueue, SoftCheck, SoftWait, SoftReset,
       SpindleCheckMode, SpindleRun, ProgramPause, StartSync, SyncWait,
       SyncDone, SpindleSet, PauseHold, PauseCheckMode
  <2>4. ~RtStep
    BY DEF RtStep, RtAlarm, RtHalt, RtUnalarm, RtSnap, RtHold, RtNoStart,
       RtStart, RtResume, RtResumeIdle, RtPrime, RtWake, RtStop, RtPrep, Goto,
       Inv, StopInv, StartInv
  <2>5. ~Interrupt
    BY DEF Interrupt, CycleStartCmd, FeedHoldCmd, SafetyDoorCmd, ResetCmd,
       LimitHit, Stepper, StepSegment, StepEmpty, Raise
  <2> QED
    BY <2>1, <2>2, <2>3, <2>4, <2>5 DEF Next, Main, Unlock
<1> QED
  BY <1>1, Invariance, PTL DEF Spec, AlarmLatched
=============================================================================
