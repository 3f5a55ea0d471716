------------------------------- MODULE Cycles -------------------------------
(***************************************************************************)
(* The two cycles in which Grbl moves by itself and watches a switch:      *)
(* $H, which runs limits_go_home() once for every homing cycle, and G38.x, *)
(* mc_probe_cycle() with its monitor in the step interrupt.  They run      *)
(* around the realtime executive of Realtime and in the line loop of Grbl. *)
(*                                                                         *)
(* An axis stands `carriage' steps from the far end of its travel and its  *)
(* limit switch is pressed from Trip on; End is where the frame stops it.  *)
(* A segment is one step.  A probe touches the workpiece from Touch on.    *)
(***************************************************************************)
EXTENDS Grbl

CONSTANTS
  Axes,
  HomingCycle0, HomingCycle1,        \* the axes of either, {} if not defined
  Trip, End, Touch,                  \* positions, see above
  Seek,          \* homing: length of the first search
  Pulloff,       \* homing: settings.homing_pulloff
  LocateScalar,  \* homing: HOMING_AXIS_LOCATE_SCALAR
  ProbeAxis,     \* the axis G38.x moves, and
  ProbeTravel,   \* how far
  Commands       \* which of {"home", "probe"} the host sends

ASSUME CyclesAssumption ==
  /\ HomingCycle0 \cup HomingCycle1 \subseteq Axes /\ ProbeAxis \in Axes
  /\ HomingCycle0 # {}   \* required by config.h
  /\ {Trip, End, Touch, Seek, Pulloff, LocateScalar, ProbeTravel} \subseteq Nat \ {0}
  /\ Trip <= End /\ LocateScalar > 1
  /\ Commands \subseteq {"home", "probe"}

VARIABLES
  carriage,  \* where each axis really is
  position,  \* sys.position
  heading,   \* the direction of the block in execution, for every axis
  lock,      \* sys.homing_axis_lock: the axes that may still step
  cycle,     \* the homing cycle running, 0 or 1
  pass,      \* its pass: 1 and 3 approach the switches, 2 and 4 pull off
  probe,     \* sys_probe_state
  contact,   \* sys.probe_position of ProbeAxis
  succeeded, \* sys.probe_succeeded
  fetched,   \* the flag byte the interrupted monitor is about to store
  early,     \* history: a reset was pending before the state was HOMING
  stale      \* history: a CYCLE_STOP of the search before was pending when
             \* the last pull-off began

machine  == <<carriage, position>>
homing   == <<heading, lock, cycle, pass, early, stale>>
probing  == <<probe, contact, succeeded, fetched>>
cycleVars == <<machine, homing, probing>>

Here == UNCHANGED cycleVars

CyclesInit ==
  /\ Init
  /\ carriage = [a \in Axes |-> 0] /\ position = [a \in Axes |-> 0]
  /\ heading = [a \in Axes |-> 0] /\ lock = {}
  /\ cycle = 0 /\ pass = 1
  /\ probe = "off" /\ contact = 0 /\ succeeded = FALSE
  /\ fetched = <<>>
  /\ early = FALSE /\ stale = FALSE

CycleAxes(c) == IF c = 0 THEN HomingCycle0 ELSE HomingCycle1
Pressed == {a \in Axes : carriage[a] >= Trip}        \* limits_get_state()
Touching == carriage[ProbeAxis] >= Touch              \* probe_get_state()

Towards(axes, sign) == [a \in Axes |-> IF a \in axes THEN sign ELSE 0]

ReadCommand ==
  /\ at = "loop"
  /\ \E c \in Commands : job' = c
  /\ CallRt("line")
  /\ UNCHANGED <<sysVars, cycleVars>>

Return == EndLine /\ UNCHANGED sysVars

-----------------------------------------------------------------------------
(* $H: system_execute_line() and mc_homing_cycle().                        *)

HomeRefused ==
  /\ at = "line" /\ job = "home"
  /\ abort \/ state \notin {"IDLE", "ALARM"}
  /\ Return /\ Here

Home ==
  /\ at = "line" /\ job = "home"
  /\ ~abort /\ state \in {"IDLE", "ALARM"}
  /\ state' = "HOMING"
  /\ early' = ("RESET" \in rt) /\ stale' = FALSE
  /\ cycle' = 0 /\ pass' = 1
  /\ at' = "goHome" /\ ret' = ret
  /\ UNCHANGED <<suspend, rt, exec, alarm, abort, softLimit, motion, stepping,
                 power, asked, job, machine, heading, lock, probing>>

(* limits_go_home() is entered for the next cycle and returns at once after*)
(* an abort; mc_homing_cycle() closes with a checkpoint.                   *)
GoHome ==
  /\ at = "goHome"
  /\ IF abort \/ cycle > 1 \/ CycleAxes(cycle) = {}
       THEN CallRt("homeEnd") ELSE at' = "homePass" /\ ret' = ret
  /\ UNCHANGED <<sysVars, job, cycleVars>>

Approach == pass \in {1, 3}
Length == CASE pass = 1 -> Seek
            [] pass = 3 -> Pulloff * LocateScalar
            [] OTHER    -> Pulloff

(* One pass: zero the position, free the axes, plan the one block.  Nothing*)
(* clears the flags: a CYCLE_STOP that came after the search had found its *)
(* switches ends this pass early.                                          *)
HomePass ==
  /\ Goto("homePass", "homePrime")
  /\ position' = [a \in Axes |-> IF a \in CycleAxes(cycle) THEN 0 ELSE position[a]]
  /\ lock' = CycleAxes(cycle)
  /\ heading' = Towards(CycleAxes(cycle), IF Approach THEN 1 ELSE -1)
  /\ todo' = Length
  /\ stale' = (stale \/ (pass = 4 /\ "CYCLE_STOP" \in rt))
  /\ UNCHANGED <<state, suspend, rt, exec, alarm, abort, softLimit, segs,
                 moving, brake, stepping, power, asked, job, carriage, cycle,
                 pass, early, probing>>

HomePrime ==
  /\ Goto("homePrime", "homeWake")
  /\ Prep
  /\ UNCHANGED <<state, suspend, rt, exec, alarm, abort, softLimit, stepping,
                 power, asked, job, cycleVars>>

HomeWake ==
  /\ Goto("homeWake", "homeLook")
  /\ stepping' = TRUE
  /\ UNCHANGED <<state, suspend, rt, exec, alarm, abort, softLimit, motion,
                 power, asked, job, cycleVars>>

(* Lock every axis whose switch is pressed; on a pull-off all stay free.   *)
HomeLook ==
  /\ Goto("homeLook", "homePrep")
  /\ lock' = IF Approach THEN lock \ Pressed ELSE lock
  /\ UNCHANGED <<sysVars, job, machine, heading, cycle, pass, early, stale,
                 probing>>

HomePrep ==
  /\ Goto("homePrep", "homeCheck")
  /\ Prep
  /\ UNCHANGED <<state, suspend, rt, exec, alarm, abort, softLimit, stepping,
                 power, asked, job, cycleVars>>

Stops == rt \cap {"SAFETY_DOOR", "RESET", "CYCLE_STOP"}

PassFailsBlind ==  \* mutant: the switches are not read after a pull-off
  \/ Stops \cap {"SAFETY_DOOR", "RESET"} # {}
  \/ Approach /\ "CYCLE_STOP" \in Stops

PassFails ==
  \/ Stops \cap {"SAFETY_DOOR", "RESET"} # {}
  \/ ~Approach /\ Stops # {} /\ Pressed \cap CycleAxes(cycle) # {}
  \/ Approach /\ "CYCLE_STOP" \in Stops

HomeGoesOn ==
  /\ at = "homeCheck" /\ Stops = {}
  /\ at' = IF lock = {} THEN "homeKill" ELSE "homeLook"
  /\ ret' = ret
  /\ UNCHANGED <<sysVars, job, cycleVars>>

HomePulledOff ==
  /\ Goto("homeCheck", "homeKill")
  /\ Stops # {} /\ ~PassFails
  /\ rt' = rt \ {"CYCLE_STOP"}
  /\ UNCHANGED <<state, suspend, exec, alarm, abort, softLimit, motion,
                 stepping, power, asked, job, cycleVars>>

HomeFails ==
  /\ at = "homeCheck" /\ PassFails
  /\ McReset({})
  /\ CallRt("homeFailed")
  /\ UNCHANGED <<state, suspend, exec, abort, softLimit, motion, modal, asked,
                 job, cycleVars>>

NextCycle == cycle' = cycle + 1 /\ pass' = 1

HomeFailed ==
  /\ Goto("homeFailed", "goHome")
  /\ NextCycle
  /\ UNCHANGED <<sysVars, job, machine, heading, lock, early, stale, probing>>

(* st_reset() and plan_reset() between the passes, and, after the last one,*)
(* the position of a switch just pulled off from.                          *)
HomeKill ==
  /\ at = "homeKill" /\ ret' = ret
  /\ stepping' = FALSE
  /\ todo' = 0 /\ segs' = 0 /\ moving' = FALSE /\ brake' = 0
  /\ IF pass < 4
       THEN at' = "homePass" /\ pass' = pass + 1 /\ UNCHANGED <<cycle, position>>
       ELSE /\ at' = "goHome"
            /\ NextCycle
            /\ position' = [a \in Axes |-> IF a \in CycleAxes(cycle) THEN -Pulloff
                                                                     ELSE position[a]]
  /\ UNCHANGED <<state, suspend, rt, exec, alarm, abort, softLimit, power,
                 asked, job, carriage, heading, lock, early, stale, probing>>

(* The variables of limits_go_home() are gone with it.                     *)
Forget == lock' = {} /\ cycle' = 0 /\ pass' = 1 /\ early' = FALSE /\ stale' = FALSE

HomeAborted ==
  /\ at = "homeEnd" /\ abort
  /\ Return /\ Forget
  /\ UNCHANGED <<machine, heading, probing>>

(* "Homing cycle complete!": gc_sync_position(), limits_init().            *)
HomeComplete ==
  /\ Goto("homeEnd", "homed") /\ ~abort
  /\ UNCHANGED <<sysVars, job, cycleVars>>

Homed ==
  /\ at = "homed"
  /\ state' = "IDLE" /\ stepping' = FALSE
  /\ EndLine /\ Forget
  /\ heading' = Towards({}, 0)
  /\ UNCHANGED <<suspend, rt, exec, alarm, abort, softLimit, motion, power,
                 asked, machine, probing>>

-----------------------------------------------------------------------------
(* G38.x: mc_probe_cycle().                                                *)

ProbeCheckMode ==
  /\ GCode("probe") /\ state = "CHECK_MODE"
  /\ Return /\ Here

ProbeSync == GCode("probe") /\ state # "CHECK_MODE" /\ StartSync /\ Here

ProbeInitBlind ==  \* mutant: the pin is not read before the motion
  /\ at = "synced" /\ job = "probe"
  /\ succeeded' = FALSE
  /\ at' = "probeReady" /\ ret' = ret
  /\ UNCHANGED <<state, suspend, rt, exec, alarm, abort, softLimit, motion,
                 stepping, power, asked, job, machine, homing, probe, contact,
                 fetched>>

(* A probe that touches already raises an alarm, and the cycle goes on.    *)
ProbeInit ==
  /\ at = "synced" /\ job = "probe"
  /\ succeeded' = FALSE
  /\ IF Touching
       THEN alarm' = alarm \cup {"PROBE_FAIL"} /\ CallRt("probeReady")
       ELSE alarm' = alarm /\ at' = "probeReady" /\ ret' = ret
  /\ UNCHANGED <<state, suspend, rt, exec, abort, softLimit, motion, stepping,
                 power, asked, job, machine, homing, probe, contact, fetched>>

(* mc_line().  An abort there is seen only after the next checkpoint.      *)
ProbeLine ==
  /\ at = "probeReady" /\ ~abort
  /\ CallRt("probeRoom")
  /\ UNCHANGED <<sysVars, job, cycleVars>>

ProbeQueue ==
  /\ Goto("probeRoom", "probeArm")
  /\ todo' = IF abort THEN todo ELSE todo + ProbeTravel
  /\ heading' = IF abort THEN heading ELSE Towards({ProbeAxis}, 1)
  /\ UNCHANGED <<state, suspend, rt, exec, alarm, abort, softLimit, segs,
                 moving, brake, stepping, power, asked, job, machine, lock,
                 cycle, pass, early, stale, probing>>

ProbeArm ==
  /\ at = "probeArm"
  /\ probe' = "active"
  /\ rt' = rt \cup {"CYCLE_START"}
  /\ CallRt("probeWait")
  /\ UNCHANGED <<state, suspend, exec, alarm, abort, softLimit, motion,
                 stepping, power, asked, job, machine, homing, contact,
                 succeeded, fetched>>

ProbeWait ==
  /\ at = "probeWait" /\ ~abort /\ state # "IDLE"
  /\ CallRt("probeWait")
  /\ UNCHANGED <<sysVars, job, cycleVars>>

(* The motion is over: by contact, or at its end, which is an error unless *)
(* the word was G38.3 or G38.5.                                            *)
ProbeOver ==
  /\ at = "probeWait" /\ ~abort /\ state = "IDLE"
  /\ probe' = "off"
  /\ IF probe = "off"
       THEN succeeded' = TRUE /\ UNCHANGED <<alarm, contact>>
       ELSE /\ succeeded' = succeeded
            /\ \/ contact' = position[ProbeAxis] /\ alarm' = alarm
               \/ contact' = contact /\ alarm' = alarm \cup {"PROBE_FAIL"}
  /\ CallRt("probed")
  /\ UNCHANGED <<state, suspend, rt, exec, abort, softLimit, motion, stepping,
                 power, asked, job, machine, homing, fetched>>

(* st_reset() and plan_reset() take the rest of the motion away.           *)
Probed ==
  /\ at = "probed" /\ ~abort
  /\ stepping' = FALSE
  /\ todo' = 0 /\ segs' = 0 /\ moving' = FALSE /\ brake' = 0
  /\ EndLine
  /\ UNCHANGED <<state, suspend, rt, exec, alarm, abort, softLimit, power,
                 asked, cycleVars>>

ProbeAborted ==
  /\ at \in {"probeReady", "probeWait", "probed"} /\ abort
  /\ Return /\ Here

-----------------------------------------------------------------------------
(* The step interrupt.                                                     *)

Reached(a) ==
  IF state = "HOMING" /\ a \notin lock THEN carriage[a]
  ELSE LET to == carriage[a] + heading[a] IN IF to > End THEN End ELSE to

Displace ==
  /\ segs' = segs - 1
  /\ position' = [a \in Axes |-> position[a] + heading[a]]
  /\ carriage' = [a \in Axes |-> Reached(a)]

Contact == probe = "active" /\ Touching

Step ==
  /\ stepping /\ segs > 0 /\ fetched = <<>>
  /\ ~Contact
  /\ Displace
  /\ UNCHANGED <<control, state, suspend, rt, exec, alarm, abort, softLimit,
                 todo, moving, brake, stepping, power, asked, job, homing,
                 probing>>

(* probe_state_monitor(): bit_true() reads the flag byte ...               *)
Monitor ==
  /\ stepping /\ segs > 0 /\ fetched = <<>>
  /\ Contact
  /\ probe' = "off"
  /\ contact' = position[ProbeAxis]
  /\ fetched' = <<rt>>
  /\ UNCHANGED <<rtVars, job, machine, homing, succeeded>>

(* ... and writes it back: the serial interrupt may have come between.     *)
MonitorStore ==
  /\ fetched # <<>>
  /\ rt' = fetched[1] \cup {"MOTION_CANCEL"}
  /\ fetched' = <<>>
  /\ Displace
  /\ UNCHANGED <<control, state, suspend, exec, alarm, abort, softLimit,
                 todo, moving, brake, stepping, power, asked, job, homing,
                 probe, contact, succeeded>>

-----------------------------------------------------------------------------
LineLoop ==
  \/ Startup \/ ReadLine \/ AutoStart \/ Polled \/ Unlock \/ CheckMode
  \/ job = "probe" /\ LineDropped
  \/ SyncWait \/ SyncDone
  \/ RtStep /\ UNCHANGED job

HomingStep ==
  \/ HomeRefused \/ Home \/ GoHome \/ HomePass \/ HomePrime \/ HomeWake
  \/ HomeLook \/ HomePrep \/ HomeGoesOn \/ HomePulledOff \/ HomeFails
  \/ HomeFailed \/ HomeKill \/ HomeAborted \/ HomeComplete \/ Homed

ProbingStep ==
  \/ ProbeCheckMode \/ ProbeSync \/ ProbeInit \/ ProbeLine \/ ProbeQueue
  \/ ProbeArm \/ ProbeWait \/ ProbeOver \/ Probed \/ ProbeAborted

MainStep ==
  /\ fetched = <<>>
  /\ ReadCommand \/ HomingStep \/ ProbingStep \/ (LineLoop /\ Here)

(* The interrupts that raise flags also come inside the monitor.           *)
Command ==
  /\ CycleStartCmd \/ FeedHoldCmd \/ SafetyDoorCmd \/ ResetCmd
  /\ UNCHANGED job /\ Here

StepInterrupt ==
  \/ Step \/ Monitor \/ MonitorStore
  \/ fetched = <<>> /\ StepEmpty /\ UNCHANGED job /\ Here

CyclesNext == MainStep \/ Command \/ StepInterrupt

CyclesSpec == CyclesInit /\ [][CyclesNext]_<<vars, cycleVars>>
=============================================================================
