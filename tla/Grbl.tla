-------------------------------- MODULE Grbl --------------------------------
(***************************************************************************)
(* The main program of Grbl around the realtime executive: main()'s        *)
(* re-initialization, the line loop of protocol_main_loop(), and the lines *)
(* whose execution runs checkpoints: a motion (mc_line), a motion beyond   *)
(* the soft limits (limits_soft_check), a spindle change (spindle_run), a  *)
(* program pause (M0) and the commands $X and $C.                          *)
(***************************************************************************)
EXTENDS Realtime

CONSTANT Jobs  \* the lines the host sends in this instance

VARIABLE job   \* the line being executed, "none" between lines

vars == <<rtVars, job>>

AllJobs == {"move", "over", "spindle", "pause", "unlock", "check"}
MainLabels == {"reset", "clearRt", "clearAlarm", "boot", "loop", "polled",
               "line", "mcline", "room", "softWait", "softReset", "sync",
               "synced"}
Labels == RtLabels \cup MainLabels

ASSUME JobsAssumption == Jobs \subseteq AllJobs

Init ==
  /\ at = "reset" /\ ret = "reset"
  /\ state \in {"IDLE", "ALARM"}   \* HOMING_INIT_LOCK when homing is enabled
  /\ suspend = {} /\ rt = {} /\ exec = {} /\ alarm = {}
  /\ abort = TRUE
  /\ softLimit = FALSE
  /\ todo = 0 /\ segs = 0 /\ moving = FALSE /\ brake = 0
  /\ stepping = FALSE
  /\ spindle = FALSE /\ modal = FALSE
  /\ asked = FALSE
  /\ job = "none"

-----------------------------------------------------------------------------
(* main(): the re-initialization after power-up and after every abort.     *)

(* Mutant of Reset: st_reset() without its st_go_idle().                   *)
ResetRunning ==
  /\ Goto("reset", "clearRt")
  /\ modal' = FALSE /\ spindle' = FALSE
  /\ todo' = 0 /\ segs' = 0 /\ moving' = FALSE /\ brake' = 0
  /\ UNCHANGED <<state, suspend, rt, exec, alarm, abort, softLimit, stepping,
                 asked, job>>

(* gc_init(), spindle_init(), plan_reset(), st_reset().                    *)
Reset ==
  /\ Goto("reset", "clearRt")
  /\ modal' = FALSE /\ spindle' = FALSE
  /\ todo' = 0 /\ segs' = 0 /\ moving' = FALSE /\ brake' = 0
  /\ stepping' = FALSE
  /\ UNCHANGED <<state, suspend, rt, exec, alarm, abort, softLimit, asked, job>>

ClearRt ==
  /\ Goto("clearRt", "clearAlarm")
  /\ abort' = FALSE
  /\ rt' = {} /\ asked' = FALSE
  /\ UNCHANGED <<state, suspend, exec, alarm, softLimit, motion, stepping,
                 power, job>>

ClearAlarm ==
  /\ Goto("clearAlarm", "boot")
  /\ alarm' = {} /\ suspend' = {} /\ softLimit' = FALSE
  /\ UNCHANGED <<state, rt, exec, abort, motion, stepping, power, asked, job>>

(* Mutant of Boot: an alarm does not survive the reset.                    *)
BootIdle ==
  /\ Goto("boot", "loop")
  /\ state' = "IDLE"
  /\ UNCHANGED <<suspend, rt, exec, alarm, abort, softLimit, motion,
                 stepping, power, asked, job>>

(* protocol_main_loop() keeps an alarm and makes everything else idle.     *)
Boot ==
  /\ Goto("boot", "loop")
  /\ state' = IF state = "ALARM" THEN "ALARM" ELSE "IDLE"
  /\ UNCHANGED <<suspend, rt, exec, alarm, abort, softLimit, motion,
                 stepping, power, asked, job>>

-----------------------------------------------------------------------------
(* protocol_main_loop().                                                   *)

sysVars == <<state, suspend, rt, exec, alarm, abort, softLimit, motion,
             stepping, power, asked>>

(* A complete line arrives: protocol_execute_line() opens with a checkpoint*)
ReadLine ==
  /\ at = "loop"
  /\ \E j \in Jobs : job' = j
  /\ CallRt("line")
  /\ UNCHANGED sysVars

(* No character left: protocol_auto_cycle_start(), then a checkpoint.      *)
AutoStart ==
  /\ at = "loop"
  /\ rt' = rt \cup {"CYCLE_START"}
  /\ CallRt("polled")
  /\ UNCHANGED <<state, suspend, exec, alarm, abort, softLimit, motion,
                 stepping, power, asked, job>>

Polled ==
  /\ Goto("polled", IF abort THEN "reset" ELSE "loop")
  /\ UNCHANGED <<sysVars, job>>

EndLine == at' = "loop" /\ ret' = ret /\ job' = "none"

(* The line is dropped on abort, and g-code is locked out in an alarm.     *)
LineDropped ==
  /\ at = "line"
  /\ abort \/ (state = "ALARM" /\ job \notin {"unlock", "check"})
  /\ EndLine
  /\ UNCHANGED sysVars

(* $X.                                                                     *)
Unlock ==
  /\ at = "line" /\ ~abort /\ job = "unlock"
  /\ EndLine
  /\ state' = IF state = "ALARM" THEN "IDLE" ELSE state
  /\ UNCHANGED <<suspend, rt, exec, alarm, abort, softLimit, motion,
                 stepping, power, asked>>

(* $C: check mode is entered from idle and left by a reset.                *)
CheckMode ==
  /\ at = "line" /\ ~abort /\ job = "check"
  /\ EndLine
  /\ IF state = "CHECK_MODE"
       THEN McReset({}) /\ state' = state
       ELSE /\ state' = IF state = "IDLE" THEN "CHECK_MODE" ELSE state
            /\ UNCHANGED <<rt, alarm, stepping, spindle>>
  /\ UNCHANGED <<suspend, exec, abort, softLimit, motion, modal, asked>>

GCode(j) == at = "line" /\ ~abort /\ state # "ALARM" /\ job = j

-----------------------------------------------------------------------------
(* mc_line().                                                              *)

MoveLine ==
  /\ GCode("move")
  /\ at' = "mcline" /\ UNCHANGED <<ret, sysVars, job>>

McLineCheckMode ==
  /\ at = "mcline" /\ state = "CHECK_MODE"
  /\ EndLine /\ UNCHANGED sysVars

McLine ==
  /\ at = "mcline" /\ state # "CHECK_MODE"
  /\ CallRt("room") /\ UNCHANGED <<sysVars, job>>

McLineAborted ==
  /\ at = "room" /\ abort
  /\ EndLine /\ UNCHANGED sysVars

(* Wait for room, auto-starting the cycle while the planner is full.       *)
McLineFull ==
  /\ at = "room" /\ ~abort /\ PlannerFull
  /\ rt' = rt \cup {"CYCLE_START"}
  /\ CallRt("room")
  /\ UNCHANGED <<state, suspend, exec, alarm, abort, softLimit, motion,
                 stepping, power, asked, job>>

(* plan_buffer_line().                                                     *)
McLineQueue ==
  /\ at = "room" /\ ~abort /\ ~PlannerFull
  /\ todo' = todo + SegsPerBlock
  /\ EndLine
  /\ UNCHANGED <<state, suspend, rt, exec, alarm, abort, softLimit, segs,
                 moving, brake, stepping, power, asked>>

-----------------------------------------------------------------------------
(* limits_soft_check() of a target outside the machine's travel.           *)

(* A running cycle is first brought to rest with a feed hold.              *)
SoftCheck ==
  /\ GCode("over")
  /\ softLimit' = TRUE
  /\ IF state = "CYCLE"
       THEN rt' = rt \cup {"FEED_HOLD"} /\ CallRt("softWait")
       ELSE rt' = rt /\ at' = "softReset" /\ ret' = ret
  /\ UNCHANGED <<state, suspend, exec, alarm, abort, motion, stepping, power,
                 asked, job>>

SoftWait ==
  /\ at = "softWait"
  /\ CASE abort -> at' = "mcline" /\ ret' = ret
       [] ~abort /\ state # "IDLE" -> CallRt("softWait")
       [] OTHER -> at' = "softReset" /\ ret' = ret
  /\ UNCHANGED <<sysVars, job>>

(* The limit itself: reset, critical alarm, and the halt in the checkpoint.*)
SoftReset ==
  /\ at = "softReset"
  /\ McReset({"SOFT_LIMIT", "CRITICAL_EVENT"})
  /\ CallRt("mcline")
  /\ UNCHANGED <<state, suspend, exec, abort, softLimit, motion, modal, asked,
                 job>>

-----------------------------------------------------------------------------
(* protocol_buffer_synchronize() and its callers.                          *)

StartSync ==
  /\ rt' = rt \cup {"CYCLE_START"}
  /\ CallRt("sync")
  /\ UNCHANGED <<state, suspend, exec, alarm, abort, softLimit, motion,
                 stepping, power, asked, job>>

(* spindle_run() returns at once in check mode; the modal state changes.   *)
SpindleCheckMode ==
  /\ GCode("spindle") /\ state = "CHECK_MODE"
  /\ modal' = ~modal
  /\ EndLine
  /\ UNCHANGED <<state, suspend, rt, exec, alarm, abort, softLimit, motion,
                 stepping, spindle, asked>>

SpindleRun == GCode("spindle") /\ state # "CHECK_MODE" /\ StartSync

ProgramPause == GCode("pause") /\ StartSync

SyncBusyNoCycle == ~abort /\ HasBlock                  \* mutant
SyncBusy == ~abort /\ (HasBlock \/ state = "CYCLE")

SyncWait ==
  /\ at = "sync"
  /\ SyncBusy
  /\ CallRt("sync")
  /\ UNCHANGED <<sysVars, job>>

SyncDone ==
  /\ Goto("sync", "synced")
  /\ ~SyncBusy
  /\ UNCHANGED <<sysVars, job>>

(* spindle_set_state(), whether or not the wait was aborted.               *)
SpindleSet ==
  /\ at = "synced" /\ job = "spindle"
  /\ modal' = ~modal /\ spindle' = ~modal
  /\ EndLine
  /\ UNCHANGED <<state, suspend, rt, exec, alarm, abort, softLimit, motion,
                 stepping, asked>>

(* M0 holds the program with the feed hold flag.                           *)
PauseHold ==
  /\ at = "synced" /\ job = "pause" /\ state # "CHECK_MODE"
  /\ rt' = rt \cup {"FEED_HOLD"}
  /\ CallRt("loop") /\ job' = "none"
  /\ UNCHANGED <<state, suspend, exec, alarm, abort, softLimit, motion,
                 stepping, power, asked>>

PauseCheckMode ==
  /\ at = "synced" /\ job = "pause" /\ state = "CHECK_MODE"
  /\ EndLine /\ UNCHANGED sysVars

-----------------------------------------------------------------------------
Startup == Reset \/ ClearRt \/ ClearAlarm \/ Boot

LineStep == \/ LineDropped \/ Unlock \/ CheckMode
            \/ MoveLine \/ McLineCheckMode \/ McLine \/ McLineAborted
            \/ McLineFull \/ McLineQueue
            \/ SoftCheck \/ SoftWait \/ SoftReset
            \/ SpindleCheckMode \/ SpindleRun \/ ProgramPause
            \/ SyncWait \/ SyncDone \/ SpindleSet \/ PauseHold \/ PauseCheckMode

Main == Startup \/ ReadLine \/ AutoStart \/ Polled \/ LineStep
        \/ (RtStep /\ UNCHANGED job)

Next == Main \/ (Interrupt /\ UNCHANGED job)

Spec == Init /\ [][Next]_vars

(* The processor always gets back to the main program, and an enabled      *)
(* timer interrupt always fires.  While an abort has the main loop drop    *)
(* every line, it empties the receive buffer faster than the serial line   *)
(* fills it, so it does see it empty.  Nothing is assumed of the user, of  *)
(* the switches or of what the host sends.                                 *)
Fairness ==
  /\ WF_vars(Main)
  /\ WF_vars(Stepper /\ UNCHANGED job)
  /\ SF_vars(abort /\ AutoStart)

FairSpec == Spec /\ Fairness
=============================================================================
