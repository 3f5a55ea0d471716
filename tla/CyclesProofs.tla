---------------------------- MODULE CyclesProofs ----------------------------
(***************************************************************************)
(* Machine-checked proofs that homing and probing tell the truth           *)
(* (CyclesProperties), for any axes, distances and sizes, as long as the   *)
(* segment ring does not run dry and the frame is out of the probe's reach.*)
(***************************************************************************)
EXTENDS CyclesProperties, TLAPS

Passing == {"homePrime", "homeWake", "homeLook", "homePrep", "homeCheck", "homeKill"}
Homing == Passing \cup {"homePass"}
Resting == {"clearRt", "clearAlarm", "boot", "loop", "polled", "line", "sync",
            "synced", "probeReady", "probeRoom", "goHome", "homePass", "homeEnd",
            "homed"}
Probing == {"probeArm", "probeWait", "probed"}
Callers == {"line", "polled", "sync", "homeFailed", "homeEnd", "probeReady",
            "probeRoom", "probeWait", "probed"}
Own == Resting \cup Passing \cup Probing \cup {"reset", "homeFailed"}
Snapped == {"hold", "start", "resume", "prime", "wake", "stop"}

(* The label the main program stands at, or will return to.                *)
Where == IF at \in RtLabels THEN ret ELSE at

-----------------------------------------------------------------------------
(* The inductive invariant.                                                *)

LabelTypes ==
  /\ at \in RtLabels \cup Own
  /\ at \in RtLabels => ret \in Callers
  /\ at \notin Snapped => exec = {}
CountTypes ==
  /\ todo \in Nat /\ segs \in 0 .. SegCap /\ brake \in Nat
  /\ pass \in 1 .. 4 /\ cycle \in 0 .. 2
  /\ Where \in Homing \cup {"homeFailed"} => cycle # 2
PlaceTypes ==
  /\ carriage \in [Axes -> Int] /\ position \in [Axes -> Int]
  /\ heading \in [Axes -> Int] /\ contact \in Int
  /\ \A a \in Axes : carriage[a] <= End
  /\ probe \in {"off", "active"}
TypeInv == LabelTypes /\ CountTypes /\ PlaceTypes

(* The monitor is interrupted before the step of its tick; what it will    *)
(* write back is an older state of the flags.                              *)
FetchedInv ==
  fetched # <<>> =>
    /\ segs > 0 /\ probe = "off"
    /\ fetched[1] \subseteq rt
    /\ "CYCLE_STOP" \in rt => "CYCLE_STOP" \in fetched[1]

(* Nothing moves, and nothing is queued, outside of the passes of a homing *)
(* cycle and the motion of a probe, but after an abort.                    *)
Quiet == todo = 0 /\ segs = 0 /\ ~moving /\ ~stepping
QuietInv ==
  Where \in Resting /\ (~abort \/ at = "clearRt") => Quiet /\ at \notin {"prime", "wake"}

(* A line begins without a CYCLE_STOP of the motion before.                *)
StopInv ==
  /\ ~abort /\ ret \in {"line", "polled", "homeEnd"} =>
       /\ at \in Snapped /\ "CYCLE_STOP" \in rt => "CYCLE_STOP" \in exec
       /\ at = "prep" => "CYCLE_STOP" \notin rt
  /\ ~abort /\ (at = "line" \/ Where \in {"sync", "synced", "probeReady", "probeRoom"})
       => "CYCLE_STOP" \notin rt

(* Homing is cut short by a reset, which has raised an alarm.              *)
Announced == alarm # {} \/ early
LostInv ==
  /\ "CRITICAL_EVENT" \notin alarm
  /\ at \in Homing \cup {"homed"} => ~abort
  /\ at \in Homing \/ (at = "goHome" /\ ~abort) =>
       state = "HOMING" /\ ("RESET" \in rt => Announced)
  /\ at \in RtLabels /\ ret = "homeFailed" =>
       /\ "RESET" \in rt /\ (fetched # <<>> => "RESET" \in fetched[1])
       /\ at = "alarm" => Announced
       /\ at = "unalarm" => state = "ALARM"
       /\ at = "snap" => state = "ALARM" \/ early
       /\ at \in {"alarm", "unalarm", "snap"}
  /\ at = "homeFailed" => abort /\ (state = "ALARM" \/ early)

(* What a pass has left of its way, and where it stops.                    *)
PassInv ==
  at \in Passing =>
    /\ heading = Towards(CycleAxes(cycle), IF Approach THEN 1 ELSE -1)
    /\ todo + segs <= Length /\ lock \subseteq CycleAxes(cycle)
    /\ IF at = "homePrime" THEN todo = Length /\ ~stepping /\ ~moving
                           ELSE moving <=> todo # 0
    /\ IF Approach
       THEN /\ \A a \in CycleAxes(cycle) \ lock : carriage[a] \in Trip .. End
            /\ at = "homeKill" => lock = {}
       ELSE /\ lock = CycleAxes(cycle)
            /\ \A a \in CycleAxes(cycle) : carriage[a] + Length - todo - segs \in Trip .. End
            /\ at = "homeKill" => Pressed \cap CycleAxes(cycle) = {}
    /\ pass = 4 /\ ~stale /\ ("CYCLE_STOP" \in rt \/ at = "homeKill") => todo + segs = 0

HomedAxis(a) == /\ a \notin Pressed
                /\ position[a] = -Pulloff
                /\ carriage[a] + Pulloff >= Trip
                /\ stale \/ carriage[a] + Pulloff <= End
Done == CASE cycle = 0 -> {}
          [] cycle = 1 -> HomingCycle0
          [] OTHER     -> HomedAxes
HomedInv ==
  /\ at \in Homing => CycleAxes(cycle) # {}
  /\ at = "homePass" /\ ~Approach => \A a \in CycleAxes(cycle) : carriage[a] \in Trip .. End
  /\ at \in Homing => \A a \in Done \ CycleAxes(cycle) : HomedAxis(a)
  /\ at = "goHome" /\ ~abort => pass = 1 /\ \A a \in Done : HomedAxis(a)
  /\ Where \in {"homeEnd", "homed"} /\ ~abort => \A a \in HomedAxes : HomedAxis(a)

(* The motion of a probe that touched before it is held up by the alarm;   *)
(* any other has not gone beyond the point of contact, or has recorded it. *)
Blocked ==
  /\ IF at = "alarm" THEN alarm # {} \/ state = "ALARM" ELSE state = "ALARM"
  /\ "CYCLE_STOP" \notin rt /\ "CYCLE_STOP" \notin exec
  /\ segs = 0 /\ ~stepping /\ at \notin {"resume", "prime", "wake"}
Matched == contact - position[ProbeAxis] = Touch - carriage[ProbeAxis]
Heads ==
  /\ heading = Towards({ProbeAxis}, 1)
  /\ carriage[ProbeAxis] + todo + segs < Touch + ProbeTravel
Runs == Heads /\ IF probe = "off" THEN Matched ELSE carriage[ProbeAxis] <= Touch
ProbeInv ==
  /\ state = "HOMING" /\ ~abort =>
       Where \in Homing \cup {"clearAlarm", "boot", "goHome", "homeFailed", "homeEnd", "homed"}
  /\ Where \in {"probeReady", "probeRoom", "probeArm", "probeWait"} /\ ~abort =>
       ~succeeded
  /\ Where \in {"probeReady", "probeRoom"} /\ ~abort =>
       carriage[ProbeAxis] < Touch \/ Blocked
  /\ at = "probeArm" /\ ~abort =>
       segs = 0 /\ ~stepping /\ ((carriage[ProbeAxis] < Touch /\ Heads) \/ Blocked)
  /\ Where = "probeWait" /\ ~abort => Blocked \/ Runs
  /\ Where = "probed" => Heads /\ state # "HOMING" /\ probe = "off" /\ (succeeded => Matched)

RestInv == TypeInv /\ FetchedInv /\ QuietInv /\ StopInv /\ LostInv
HomingInv == RestInv /\ PassInv /\ HomedInv
ProbingInv == RestInv /\ ProbeInv

-----------------------------------------------------------------------------
(* Distances and segments.                                                 *)

USE DEF vars, rtVars, control, motion, power, sysVars, cycleVars, machine,
        homing, probing, Here, Goto, CallRt, EndLine, Return

(* Trip, End and the rest are lengths.                                     *)
LEMMA Distances ==
  /\ Trip \in Nat \ {0} /\ End \in Nat \ {0} /\ Touch \in Nat \ {0}
  /\ Seek \in Nat \ {0} /\ Pulloff \in Nat \ {0} /\ LocateScalar \in Nat \ {0}
  /\ ProbeTravel \in Nat \ {0} /\ SegCap \in Nat \ {0}
  /\ Trip <= End /\ ProbeAxis \in Axes
  /\ HomingCycle0 \subseteq Axes /\ HomingCycle1 \subseteq Axes
  BY CyclesAssumption, SegCapAssumption

(* No pass has nothing to do.                                              *)
LEMMA LengthType == ASSUME pass \in 1 .. 4 PROVE Length \in Nat \ {0}
<1>1. Pulloff * LocateScalar \in Nat \ {0}
  BY Distances
<1> QED
  BY <1>1, Distances DEF Length

(* An axis is sent one way, or left where it is.                           *)
LEMMA TowardsType ==
  ASSUME NEW axes, NEW sign \in {-1, 0, 1}
  PROVE  Towards(axes, sign) \in [Axes -> Int]
  BY DEF Towards

(* st_prep_buffer() moves segments to the ring and neither makes nor loses *)
(* one.  Outside of a hold it knows whether it has more to give.           *)
LEMMA PrepMoves ==
  ASSUME CountTypes, Prep
  PROVE  /\ todo' \in Nat /\ segs' \in 0 .. SegCap /\ brake' \in Nat
         /\ todo' + segs' = todo + segs
         /\ segs' >= segs
         /\ todo = 0 /\ ~moving => ~moving'
         /\ state \notin Holding /\ ((moving <=> todo # 0) \/ (segs = 0 /\ todo # 0))
              => (moving' <=> todo' # 0)
<1> DEFINE held == state \in Holding
           room == Least(SegCap - segs, todo)
           n == IF ~held THEN room ELSE IF moving THEN Least(room, brake) ELSE 0
<1>1. room \in Nat /\ room <= SegCap - segs /\ room <= todo
      /\ (segs = 0 /\ todo # 0 => room # 0)
  BY Distances DEF Least, CountTypes
<1>2. /\ n \in Nat /\ n <= room /\ (held => n <= brake) /\ (~held => n = room)
  <2> HIDE DEF room
  <2> QED
    BY <1>1 DEF Least, CountTypes
<1>3. /\ todo' = todo - n /\ segs' = segs + n
      /\ brake' = IF held THEN brake - n ELSE brake
      /\ moving' = IF held THEN moving /\ todo' # 0 /\ brake' # 0
                   ELSE IF n # 0 THEN todo' # 0 ELSE moving
  BY DEF Prep
<1> HIDE DEF n, room
<1>4. todo = 0 /\ ~moving => ~moving'
  <2>1. todo = 0 => n = 0
    BY <1>1, <1>2 DEF CountTypes
  <2> QED
    BY <1>3, <2>1, Zenon
<1>5. ~held /\ n # 0 => (moving' <=> todo' # 0)
  BY <1>3, Zenon
<1>6. ~held /\ n = 0 => moving' = moving /\ todo' = todo /\ ~(segs = 0 /\ todo # 0)
  <2>1. n = 0 => todo' = todo
    BY <1>3 DEF CountTypes
  <2>2. ~held /\ n = 0 /\ segs = 0 => todo = 0
    BY <1>1, <1>2
  <2> QED
    BY <1>3, <2>1, <2>2, Zenon
<1>7. ~held /\ ((moving <=> todo # 0) \/ (segs = 0 /\ todo # 0)) => (moving' <=> todo' # 0)
  BY <1>5, <1>6, Zenon
<1> QED
  BY <1>1, <1>2, <1>3, <1>4, <1>7, Distances DEF CountTypes

(* The main program stays on its labels.                                   *)
LEMMA LabelStep ==
  ASSUME LabelTypes, [CyclesNext]_<<vars, cycleVars>>
  PROVE  LabelTypes'
<1> USE DEF LabelTypes, Where, Own, Resting, Passing, Probing, Homing,
        Callers, RtLabels, Snapped
<1>1. CASE Startup /\ Here
  BY <1>1 DEF Startup, Reset, ClearRt, ClearAlarm, Boot
<1>2. CASE ReadCommand \/ ((ReadLine \/ AutoStart \/ Polled) /\ Here)
  <2>1. CASE ReadCommand
    BY <1>2, <2>1 DEF ReadCommand
  <2>2. CASE (ReadLine \/ AutoStart \/ Polled) /\ Here
    BY <1>2, <2>2 DEF ReadLine, AutoStart, Polled
  <2> QED
    BY <1>2, <2>1, <2>2
<1>3. CASE (Unlock \/ CheckMode \/ (job = "probe" /\ LineDropped)
          \/ SyncWait \/ SyncDone) /\ Here
  BY <1>3 DEF Unlock, CheckMode, LineDropped, SyncWait, SyncDone, McReset
<1>4. CASE RtStep /\ UNCHANGED job /\ Here
  BY <1>4 DEF RtStep, RtAlarm, RtHalt, RtUnalarm, RtSnap, RtHold, RtNoStart,
     RtStart, RtResume, RtResumeIdle, RtPrime, RtWake, RtStop, RtPrep
<1>5. CASE HomingStep
  BY <1>5 DEF HomingStep, HomeRefused, Home, GoHome, HomePass, HomePrime,
     HomeWake, HomeLook, HomePrep, HomeGoesOn, HomePulledOff, HomeFails,
     HomeFailed, HomeKill, HomeAborted, HomeComplete, Homed, McReset,
     NextCycle, Forget
<1>6. CASE ProbingStep
  BY <1>6 DEF ProbingStep, ProbeCheckMode, ProbeSync, ProbeInit, ProbeLine,
     ProbeQueue, ProbeArm, ProbeWait, ProbeOver, Probed, ProbeAborted, GCode,
     StartSync
<1>7. CASE Command
  BY <1>7 DEF Command, CycleStartCmd, FeedHoldCmd, SafetyDoorCmd, ResetCmd,
     Raise, McReset
<1>8. CASE StepInterrupt
  <2>1. CASE Step \/ Monitor \/ MonitorStore
    BY <1>8, <2>1 DEF Step, Monitor, MonitorStore, Displace, Reached
  <2>2. CASE StepEmpty /\ Here
    BY <1>8, <2>2 DEF StepEmpty
  <2> QED
    BY <1>8, <2>1, <2>2 DEF StepInterrupt
<1>9. CASE UNCHANGED <<vars, cycleVars>>
  BY <1>9
<1> QED
  BY <1>1, <1>2, <1>3, <1>4, <1>5, <1>6, <1>7, <1>8, <1>9 DEF CyclesNext,
     MainStep, LineLoop, StepInterrupt

(* The counters keep their bounds.                                         *)
LEMMA CountStep ==
  ASSUME LabelTypes, CountTypes, FetchedInv, [CyclesNext]_<<vars, cycleVars>>
  PROVE  CountTypes'
<1> USE Distances DEF LabelTypes, CountTypes, Where, Own, Resting, Passing,
        Probing, Homing, Callers, RtLabels, Snapped
<1>1. CASE Startup /\ Here
  BY <1>1 DEF Startup, Reset, ClearRt, ClearAlarm, Boot
<1>2. CASE ReadCommand \/ ((ReadLine \/ AutoStart \/ Polled) /\ Here)
  <2>1. CASE ReadCommand
    BY <1>2, <2>1 DEF ReadCommand
  <2>2. CASE (ReadLine \/ AutoStart \/ Polled) /\ Here
    BY <1>2, <2>2 DEF ReadLine, AutoStart, Polled
  <2> QED
    BY <1>2, <2>1, <2>2
<1>3. CASE (Unlock \/ CheckMode \/ (job = "probe" /\ LineDropped)
          \/ SyncWait \/ SyncDone) /\ Here
  BY <1>3 DEF Unlock, CheckMode, LineDropped, SyncWait, SyncDone, McReset
<1>4. CASE RtStep /\ UNCHANGED job /\ Here
  <2>1. CASE RtAlarm \/ RtHalt \/ RtUnalarm \/ RtSnap \/ RtHold \/ RtNoStart
            \/ RtStart \/ RtResume \/ RtResumeIdle
    BY <1>4, <2>1 DEF RtAlarm, RtHalt, RtUnalarm, RtSnap, RtHold, RtNoStart,
       RtStart, RtResume, RtResumeIdle
  <2>2. CASE RtPrime
    BY <1>4, <2>2, PrepMoves DEF RtPrime
  <2>3. CASE RtWake \/ RtStop
    BY <1>4, <2>3 DEF RtWake, RtStop
  <2>4. CASE RtPrep
    BY <1>4, <2>4, PrepMoves DEF RtPrep
  <2> QED
    BY <1>4, <2>1, <2>2, <2>3, <2>4 DEF RtStep
<1>5. CASE HomingStep
  <2>1. CASE HomeRefused \/ Home \/ GoHome
    BY <1>5, <2>1 DEF HomeRefused, Home, GoHome
  <2>2. CASE HomePass
    BY <1>5, <2>2, LengthType DEF HomePass
  <2>3. CASE HomePrime
    BY <1>5, <2>3, PrepMoves DEF HomePrime
  <2>4. CASE HomeWake \/ HomeLook
    BY <1>5, <2>4 DEF HomeWake, HomeLook
  <2>5. CASE HomePrep
    BY <1>5, <2>5, PrepMoves DEF HomePrep
  <2>6. CASE HomeGoesOn \/ HomePulledOff \/ HomeFails \/ HomeFailed
    BY <1>5, <2>6 DEF HomeGoesOn, HomePulledOff, HomeFails, HomeFailed,
       McReset, NextCycle
  <2>7. CASE HomeKill
    BY <1>5, <2>7 DEF HomeKill, NextCycle
  <2>8. CASE HomeAborted \/ HomeComplete \/ Homed
    BY <1>5, <2>8 DEF HomeAborted, HomeComplete, Homed, Forget
  <2> QED
    BY <1>5, <2>1, <2>2, <2>3, <2>4, <2>5, <2>6, <2>7, <2>8 DEF HomingStep
<1>6. CASE ProbingStep
  <2>1. CASE ProbeCheckMode \/ ProbeSync \/ ProbeInit \/ ProbeLine
    BY <1>6, <2>1 DEF ProbeCheckMode, ProbeSync, ProbeInit, ProbeLine, GCode,
       StartSync
  <2>2. CASE ProbeQueue
    BY <1>6, <2>2 DEF ProbeQueue
  <2>3. CASE ProbeArm \/ ProbeWait \/ ProbeOver \/ Probed \/ ProbeAborted
    BY <1>6, <2>3 DEF ProbeArm, ProbeWait, ProbeOver, Probed, ProbeAborted
  <2> QED
    BY <1>6, <2>1, <2>2, <2>3 DEF ProbingStep
<1>7. CASE Command
  BY <1>7 DEF Command, CycleStartCmd, FeedHoldCmd, SafetyDoorCmd, ResetCmd,
     Raise, McReset
<1>8. CASE StepInterrupt
  <2>1. CASE Step \/ Monitor \/ MonitorStore
    BY <1>8, <2>1 DEF Step, Monitor, MonitorStore, Displace, Reached,
       FetchedInv
  <2>2. CASE StepEmpty /\ Here
    BY <1>8, <2>2 DEF StepEmpty
  <2> QED
    BY <1>8, <2>1, <2>2 DEF StepInterrupt
<1>9. CASE UNCHANGED <<vars, cycleVars>>
  BY <1>9
<1> QED
  BY <1>1, <1>2, <1>3, <1>4, <1>5, <1>6, <1>7, <1>8, <1>9 DEF CyclesNext,
     MainStep, LineLoop, StepInterrupt

(* No axis leaves its frame.                                               *)
LEMMA PlaceStep ==
  ASSUME PlaceTypes, [CyclesNext]_<<vars, cycleVars>>
  PROVE  PlaceTypes'
<1> USE Distances DEF PlaceTypes
<1>1. CASE Startup /\ Here
  BY <1>1 DEF Startup, Reset, ClearRt, ClearAlarm, Boot
<1>2. CASE ReadCommand \/ ((ReadLine \/ AutoStart \/ Polled) /\ Here)
  <2>1. CASE ReadCommand
    BY <1>2, <2>1 DEF ReadCommand
  <2>2. CASE (ReadLine \/ AutoStart \/ Polled) /\ Here
    BY <1>2, <2>2 DEF ReadLine, AutoStart, Polled
  <2> QED
    BY <1>2, <2>1, <2>2
<1>3. CASE (Unlock \/ CheckMode \/ (job = "probe" /\ LineDropped)
          \/ SyncWait \/ SyncDone) /\ Here
  BY <1>3 DEF Unlock, CheckMode, LineDropped, SyncWait, SyncDone, McReset
<1>4. CASE RtStep /\ UNCHANGED job /\ Here
  BY <1>4 DEF RtStep, RtAlarm, RtHalt, RtUnalarm, RtSnap, RtHold, RtNoStart,
     RtStart, RtResume, RtResumeIdle, RtPrime, RtWake, RtStop, RtPrep
<1>5. CASE HomingStep
  <2>1. CASE HomeRefused \/ Home \/ GoHome
    BY <1>5, <2>1 DEF HomeRefused, Home, GoHome
  <2>2. CASE HomePass
    BY <1>5, <2>2, TowardsType DEF HomePass
  <2>3. CASE HomePrime \/ HomeWake \/ HomeLook \/ HomePrep \/ HomeGoesOn \/
            HomePulledOff \/ HomeFails \/ HomeFailed
    BY <1>5, <2>3 DEF HomePrime, HomeWake, HomeLook, HomePrep, HomeGoesOn,
       HomePulledOff, HomeFails, HomeFailed, McReset, NextCycle
  <2>4. CASE HomeKill
    BY <1>5, <2>4 DEF HomeKill, NextCycle
  <2>5. CASE HomeAborted \/ HomeComplete
    BY <1>5, <2>5 DEF HomeAborted, HomeComplete, Forget
  <2>6. CASE Homed
    BY <1>5, <2>6, TowardsType DEF Homed, Forget
  <2> QED
    BY <1>5, <2>1, <2>2, <2>3, <2>4, <2>5, <2>6 DEF HomingStep
<1>6. CASE ProbingStep
  <2>1. CASE ProbeCheckMode \/ ProbeSync \/ ProbeInit \/ ProbeLine
    BY <1>6, <2>1 DEF ProbeCheckMode, ProbeSync, ProbeInit, ProbeLine, GCode,
       StartSync
  <2>2. CASE ProbeQueue
    BY <1>6, <2>2, TowardsType DEF ProbeQueue
  <2>3. CASE ProbeArm \/ ProbeWait \/ ProbeOver \/ Probed \/ ProbeAborted
    BY <1>6, <2>3 DEF ProbeArm, ProbeWait, ProbeOver, Probed, ProbeAborted
  <2> QED
    BY <1>6, <2>1, <2>2, <2>3 DEF ProbingStep
<1>7. CASE Command
  BY <1>7 DEF Command, CycleStartCmd, FeedHoldCmd, SafetyDoorCmd, ResetCmd,
     Raise, McReset
<1>8. CASE StepInterrupt
  <2>1. CASE Step
    BY <1>8, <2>1 DEF Step, Displace, Reached
  <2>2. CASE Monitor
    BY <1>8, <2>2 DEF Monitor
  <2>3. CASE MonitorStore
    BY <1>8, <2>3 DEF MonitorStore, Displace, Reached
  <2>4. CASE StepEmpty /\ Here
    BY <1>8, <2>4 DEF StepEmpty
  <2> QED
    BY <1>8, <2>1, <2>2, <2>3, <2>4 DEF StepInterrupt
<1>9. CASE UNCHANGED <<vars, cycleVars>>
  BY <1>9
<1> QED
  BY <1>1, <1>2, <1>3, <1>4, <1>5, <1>6, <1>7, <1>8, <1>9 DEF CyclesNext,
     MainStep, LineLoop, StepInterrupt

(* Only the step interrupt touches the byte the monitor has fetched.       *)
LEMMA MainFetched == MainStep => fetched = <<>> /\ fetched' = <<>>
  BY DEF MainStep, LineLoop, HomingStep, ProbingStep, HomeRefused, Home,
     GoHome, HomePass, HomePrime, HomeWake, HomeLook, HomePrep, HomeGoesOn,
     HomePulledOff, HomeFails, HomeFailed, HomeKill, HomeAborted,
     HomeComplete, Homed, ProbeCheckMode, ProbeSync, ProbeInit, ProbeLine,
     ProbeQueue, ProbeArm, ProbeWait, ProbeOver, Probed, ProbeAborted,
     ReadCommand, Forget

(* What the monitor has fetched is never newer than the flags.             *)
LEMMA FetchedStep ==
  ASSUME FetchedInv, [CyclesNext]_<<vars, cycleVars>>
  PROVE  FetchedInv'
<1>1. CASE MainStep
  BY <1>1, MainFetched DEF FetchedInv
<1>2. CASE Command
  BY <1>2 DEF FetchedInv, Command, CycleStartCmd, FeedHoldCmd, SafetyDoorCmd,
     ResetCmd, Raise, McReset
<1>3. CASE StepInterrupt
  BY <1>3 DEF FetchedInv, StepInterrupt, Step, Monitor, MonitorStore,
     StepEmpty, Displace
<1>4. CASE UNCHANGED <<vars, cycleVars>>
  BY <1>4 DEF FetchedInv
<1> QED
  BY <1>1, <1>2, <1>3, <1>4 DEF CyclesNext

(* A machine at rest stays at rest until a motion is planned.              *)
LEMMA QuietStep ==
  ASSUME LabelTypes, CountTypes, QuietInv, LostInv, FetchedInv,
         [CyclesNext]_<<vars, cycleVars>>
  PROVE  QuietInv'
<1> USE DEF QuietInv, Quiet, CountTypes, LabelTypes, Where, Own, Resting,
        Passing, Probing, Homing, Callers, RtLabels, Snapped
<1>1. CASE Startup /\ Here
  BY <1>1 DEF Startup, Reset, ClearRt, ClearAlarm, Boot
<1>2. CASE ReadCommand \/ ((ReadLine \/ AutoStart \/ Polled) /\ Here)
  <2>1. CASE ReadCommand
    BY <1>2, <2>1 DEF ReadCommand
  <2>2. CASE (ReadLine \/ AutoStart \/ Polled) /\ Here
    BY <1>2, <2>2 DEF ReadLine, AutoStart, Polled
  <2> QED
    BY <1>2, <2>1, <2>2
<1>3. CASE (Unlock \/ CheckMode \/ (job = "probe" /\ LineDropped)
          \/ SyncWait \/ SyncDone) /\ Here
  BY <1>3 DEF Unlock, CheckMode, McReset, LineDropped, SyncWait, SyncDone
<1>4. CASE RtStep /\ UNCHANGED job /\ Here
  <2>1. CASE RtAlarm \/ RtHalt \/ RtUnalarm \/ RtSnap \/ RtHold \/ RtNoStart
            \/ RtStart \/ RtResume \/ RtResumeIdle
    BY <1>4, <2>1 DEF RtAlarm, RtHalt, RtUnalarm, RtSnap, RtHold, RtNoStart,
       RtStart, RtResume, HasBlock, RtResumeIdle
  <2>2. CASE RtPrime
    BY <1>4, <2>2, PrepMoves DEF RtPrime, CountTypes
  <2>3. CASE RtWake \/ RtStop
    BY <1>4, <2>3 DEF RtWake, RtStop
  <2>4. CASE RtPrep
    BY <1>4, <2>4, PrepMoves DEF RtPrep, LostInv
  <2> QED
    BY <1>4, <2>1, <2>2, <2>3, <2>4 DEF RtStep
<1>5. CASE HomingStep
  <2>1. CASE HomeRefused \/ Home \/ GoHome \/ HomePass
    BY <1>5, <2>1 DEF HomeRefused, Home, GoHome, HomePass
  <2>2. CASE HomePrime
    BY <1>5, <2>2, PrepMoves DEF HomePrime, CountTypes
  <2>3. CASE HomeWake \/ HomeLook
    BY <1>5, <2>3 DEF HomeWake, HomeLook
  <2>4. CASE HomePrep
    BY <1>5, <2>4, PrepMoves DEF HomePrep, CountTypes
  <2>5. CASE HomeGoesOn \/ HomePulledOff \/ HomeFails \/ HomeFailed \/
            HomeKill \/ HomeAborted \/ HomeComplete \/ Homed
    BY <1>5, <2>5 DEF HomeGoesOn, HomePulledOff, HomeFails, McReset,
       HomeFailed, NextCycle, LostInv, HomeKill, HomeAborted, Forget,
       HomeComplete, Homed
  <2> QED
    BY <1>5, <2>1, <2>2, <2>3, <2>4, <2>5 DEF HomingStep
<1>6. CASE ProbingStep
  BY <1>6 DEF ProbingStep, ProbeCheckMode, GCode, ProbeSync, StartSync,
     ProbeInit, ProbeLine, ProbeQueue, ProbeArm, ProbeWait, ProbeOver, Probed,
     ProbeAborted
<1>7. CASE Command
  <2>1. CASE CycleStartCmd \/ FeedHoldCmd \/ SafetyDoorCmd
    BY <1>7, <2>1 DEF Command, CycleStartCmd, Raise, FeedHoldCmd,
       SafetyDoorCmd
  <2>2. CASE ResetCmd
    <3>1. /\ (stepping' => stepping)
          /\ UNCHANGED <<at, ret, abort, todo, segs, moving>>
      BY <1>7, <2>2, Zenon DEF Command, ResetCmd, McReset
    <3> QED
      BY <3>1
  <2> QED
    BY <1>7, <2>1, <2>2 DEF Command
<1>8. CASE StepInterrupt
  <2>1. CASE Step \/ Monitor \/ MonitorStore
    BY <1>8, <2>1 DEF Step, Displace, Reached, Monitor, MonitorStore,
       FetchedInv
  <2>2. CASE StepEmpty /\ Here
    BY <1>8, <2>2 DEF StepEmpty
  <2> QED
    BY <1>8, <2>1, <2>2 DEF StepInterrupt
<1>9. CASE UNCHANGED <<vars, cycleVars>>
  BY <1>9
<1> QED
  BY <1>1, <1>2, <1>3, <1>4, <1>5, <1>6, <1>7, <1>8, <1>9 DEF CyclesNext,
     MainStep, LineLoop, StepInterrupt

(* A line begins without a CYCLE_STOP of the motion before it.             *)
LEMMA StopStep ==
  ASSUME LabelTypes, FetchedInv, QuietInv, StopInv, [CyclesNext]_<<vars,
         cycleVars>>
  PROVE  StopInv'
<1> USE DEF StopInv, Where, Own, Resting, Passing, Probing, Homing,
        Callers, RtLabels, Snapped
<1>1. CASE Startup /\ Here
  BY <1>1 DEF Startup, Reset, ClearRt, ClearAlarm, Boot
<1>2. CASE ReadCommand \/ ((ReadLine \/ AutoStart \/ Polled) /\ Here)
  <2>1. CASE ReadCommand
    BY <1>2, <2>1 DEF ReadCommand
  <2>2. CASE (ReadLine \/ AutoStart \/ Polled) /\ Here
    BY <1>2, <2>2 DEF ReadLine, AutoStart, Polled
  <2> QED
    BY <1>2, <2>1, <2>2
<1>3. CASE (Unlock \/ CheckMode \/ (job = "probe" /\ LineDropped)
          \/ SyncWait \/ SyncDone) /\ Here
  BY <1>3 DEF Unlock, CheckMode, McReset, LineDropped, SyncWait, SyncDone
<1>4. CASE RtStep /\ UNCHANGED job /\ Here
  BY <1>4 DEF RtStep, RtAlarm, RtHalt, RtUnalarm, RtSnap, RtHold, HoldFlags,
     RtNoStart, RtStart, Startable, RtResume, RtResumeIdle, RtPrime, RtWake,
     RtStop, RtPrep
<1>5. CASE HomingStep
  BY <1>5 DEF HomingStep, HomeRefused, Home, GoHome, HomePass, HomePrime,
     HomeWake, HomeLook, HomePrep, HomeGoesOn, HomePulledOff, HomeFails,
     McReset, HomeFailed, NextCycle, HomeKill, HomeAborted, Forget,
     HomeComplete, Homed
<1>6. CASE ProbingStep
  BY <1>6 DEF ProbingStep, ProbeCheckMode, GCode, ProbeSync, StartSync,
     ProbeInit, ProbeLine, ProbeQueue, ProbeArm, ProbeWait, ProbeOver, Probed,
     ProbeAborted
<1>7. CASE Command
  BY <1>7 DEF Command, CycleStartCmd, Raise, FeedHoldCmd, SafetyDoorCmd,
     ResetCmd, McReset
<1>8. CASE StepInterrupt
  <2>1. CASE Step \/ Monitor \/ MonitorStore
    BY <1>8, <2>1 DEF Step, Displace, Reached, Monitor, MonitorStore,
       FetchedInv
  <2>2. CASE StepEmpty /\ Here
    BY <1>8, <2>2 DEF StepEmpty, QuietInv, Quiet
  <2> QED
    BY <1>8, <2>1, <2>2 DEF StepInterrupt
<1>9. CASE UNCHANGED <<vars, cycleVars>>
  BY <1>9
<1> QED
  BY <1>1, <1>2, <1>3, <1>4, <1>5, <1>6, <1>7, <1>8, <1>9 DEF CyclesNext,
     MainStep, LineLoop, StepInterrupt

(* A homing cycle is cut short by a reset that is announced.               *)
LEMMA LostStep ==
  ASSUME LabelTypes, FetchedInv, LostInv, [CyclesNext]_<<vars, cycleVars>>
  PROVE  LostInv'
<1> USE DEF LostInv, Announced, Where, Own, Resting, Passing, Probing, Homing,
        Callers, RtLabels, Snapped
<1>1. CASE Startup /\ Here
  BY <1>1 DEF Startup, Reset, ClearRt, ClearAlarm, Boot
<1>2. CASE ReadCommand \/ ((ReadLine \/ AutoStart \/ Polled) /\ Here)
  <2>1. CASE ReadCommand
    BY <1>2, <2>1 DEF ReadCommand
  <2>2. CASE (ReadLine \/ AutoStart \/ Polled) /\ Here
    BY <1>2, <2>2 DEF ReadLine, AutoStart, Polled
  <2> QED
    BY <1>2, <2>1, <2>2
<1>3. CASE (Unlock \/ CheckMode \/ (job = "probe" /\ LineDropped)
          \/ SyncWait \/ SyncDone) /\ Here
  BY <1>3 DEF Unlock, CheckMode, McReset, LineDropped, SyncWait, SyncDone
<1>4. CASE RtStep /\ UNCHANGED job /\ Here
  <2>1. CASE RtAlarm \/ RtHalt \/ RtUnalarm
    BY <1>4, <2>1 DEF RtAlarm, RtHalt, RtUnalarm
  <2>2. CASE RtSnap
    <3>1. CASE "RESET" \in rt
      BY <1>4, <2>2, <3>1 DEF RtSnap, LabelTypes
    <3>2. CASE "RESET" \notin rt
      BY <1>4, <2>2, <3>2 DEF RtSnap
    <3> QED
      BY <3>1, <3>2
  <2>3. CASE RtHold \/ RtNoStart \/ RtStart \/ RtResume \/ RtResumeIdle \/
            RtPrime \/ RtWake \/ RtStop
    BY <1>4, <2>3 DEF RtHold, RtNoStart, RtStart, RtResume, RtResumeIdle,
       RtPrime, RtWake, RtStop
  <2>4. CASE RtPrep
    <3>1. at = "prep" /\ at' \in {ret, "alarm"} /\ ret' = ret
          /\ UNCHANGED <<rt, alarm, abort, fetched>>
      BY <1>4, <2>4 DEF RtPrep
    <3> QED
      BY <3>1 DEF LabelTypes
  <2> QED
    BY <1>4, <2>1, <2>2, <2>3, <2>4 DEF RtStep
<1>5. CASE fetched = <<>> /\ HomingStep
  <2>1. CASE HomeRefused \/ Home
    BY <1>5, <2>1 DEF HomeRefused, Home
  <2>2. CASE GoHome \/ HomePass \/ HomePrime \/ HomeWake \/ HomeLook \/ HomePrep
    BY <1>5, <2>2 DEF GoHome, HomePass, HomePrime, HomeWake, HomeLook, HomePrep
  <2>3. CASE HomeGoesOn \/ HomePulledOff
    BY <1>5, <2>3 DEF HomeGoesOn, HomePulledOff
  <2>4. CASE HomeFails
    BY <1>5, <2>4 DEF HomeFails, McReset
  <2>5. CASE HomeFailed \/ HomeKill \/ HomeAborted \/ HomeComplete \/ Homed
    BY <1>5, <2>5 DEF HomeFailed, NextCycle, HomeKill, HomeAborted, Forget,
       HomeComplete, Homed
  <2> QED
    BY <1>5, <2>1, <2>2, <2>3, <2>4, <2>5 DEF HomingStep
<1>6. CASE ProbingStep
  BY <1>6 DEF ProbingStep, ProbeCheckMode, GCode, ProbeSync, StartSync,
     ProbeInit, ProbeLine, ProbeQueue, ProbeArm, ProbeWait, ProbeOver, Probed,
     ProbeAborted
<1>7. CASE Command
  BY <1>7 DEF Command, CycleStartCmd, Raise, FeedHoldCmd, SafetyDoorCmd,
     ResetCmd, McReset
<1>8. CASE StepInterrupt
  <2>1. CASE Step \/ Monitor \/ MonitorStore
    BY <1>8, <2>1 DEF Step, Displace, Reached, Monitor, MonitorStore,
       FetchedInv
  <2>2. CASE StepEmpty /\ Here
    BY <1>8, <2>2 DEF StepEmpty
  <2> QED
    BY <1>8, <2>1, <2>2 DEF StepInterrupt
<1>9. CASE UNCHANGED <<vars, cycleVars>>
  BY <1>9
<1> QED
  BY <1>1, <1>2, <1>3, <1>4, <1>5, <1>6, <1>7, <1>8, <1>9 DEF CyclesNext,
     MainStep, LineLoop, StepInterrupt

(* The length and the direction of a pass depend on its number alone, the  *)
(* switches that are pressed on the places of the axes.                    *)
LEMMA Frame ==
  /\ pass' = pass => Length' = Length /\ (Approach' <=> Approach)
  /\ carriage' = carriage => Pressed' = Pressed
  BY DEF Length, Approach, Pressed

(* The axes of a homing cycle are axes.                                    *)
LEMMA CycleInAxes == CycleAxes(cycle) \subseteq Axes
  BY Distances DEF CycleAxes

(* Only the axes of the homing cycle that runs move, those that have found *)
(* their switch wait, and on a pull-off all move back together.            *)
LEMMA PassMoves ==
  ASSUME TypeInv, LostInv, PassInv, at \in Passing, Displace
  PROVE  /\ CycleAxes(cycle) \subseteq Axes
         /\ segs' = segs - 1
         /\ \A a \in Axes \ CycleAxes(cycle) :
              carriage'[a] = carriage[a] /\ position'[a] = position[a]
         /\ Approach => \A a \in CycleAxes(cycle) \ lock : carriage'[a] = carriage[a]
         /\ ~Approach => \A a \in CycleAxes(cycle) : carriage'[a] = carriage[a] - 1
<1>1. CycleAxes(cycle) \subseteq Axes
  BY CycleInAxes
<1>2. /\ state = "HOMING" /\ lock \subseteq CycleAxes(cycle)
      /\ heading = Towards(CycleAxes(cycle), IF Approach THEN 1 ELSE -1)
      /\ ~Approach => lock = CycleAxes(cycle)
  BY DEF PassInv, LostInv, Homing
<1>3. \A a \in Axes : carriage[a] \in Int /\ carriage[a] <= End /\ position[a] \in Int
  BY DEF TypeInv, PlaceTypes
<1>4. segs' = segs - 1 /\ \A a \in Axes :
        carriage'[a] = Reached(a) /\ position'[a] = position[a] + heading[a]
  BY DEF Displace
<1>5. \A a \in Axes \ CycleAxes(cycle) : heading[a] = 0
  BY <1>2 DEF Towards
<1>6. ~Approach => \A a \in CycleAxes(cycle) : heading[a] = -1
  BY <1>1, <1>2 DEF Towards
<1>7. \A a \in Axes \ lock : Reached(a) = carriage[a]
  BY <1>2 DEF Reached
<1>8. ~Approach => \A a \in CycleAxes(cycle) : Reached(a) = carriage[a] - 1
  BY <1>1, <1>2, <1>3, <1>6, Distances DEF Reached
<1> QED
  BY <1>1, <1>2, <1>3, <1>4, <1>5, <1>7, <1>8

(* A step of a pass takes the axes one segment further on its way.         *)
LEMMA PassDisplaced ==
  ASSUME TypeInv, LostInv, PassInv, at \in Passing, Displace, segs > 0,
         UNCHANGED <<at, todo, moving, stepping, heading, lock, cycle, pass, stale>>,
         "CYCLE_STOP" \in rt' => "CYCLE_STOP" \in rt
  PROVE  PassInv'
<1>1. /\ segs' = segs - 1 /\ todo \in Nat /\ segs \in Nat
      /\ Length' = Length /\ Length \in Nat /\ (Approach' <=> Approach)
  BY PassMoves, Frame, LengthType, Distances DEF TypeInv, CountTypes
<1>2. at # "homePrime"
  BY <1>1 DEF PassInv
<1>3. \A a \in CycleAxes(cycle) : carriage[a] \in Int
  BY PassMoves DEF TypeInv, PlaceTypes
<1>4. Approach' => /\ \A a \in CycleAxes(cycle) \ lock : carriage'[a] \in Trip .. End
                   /\ at = "homeKill" => lock = {}
  BY <1>1, PassMoves DEF PassInv
<1>5. ~Approach' =>
        /\ lock = CycleAxes(cycle)
        /\ \A a \in CycleAxes(cycle) : carriage'[a] + Length - todo - segs' \in Trip .. End
        /\ at = "homeKill" => Pressed' \cap CycleAxes(cycle) = {}
  <2>1. ~Approach => \A a \in CycleAxes(cycle) :
          carriage'[a] + Length - todo - segs' = carriage[a] + Length - todo - segs
    BY <1>1, <1>3, PassMoves
  <2>2. ~Approach /\ Pressed \cap CycleAxes(cycle) = {}
          => Pressed' \cap CycleAxes(cycle) = {}
    BY <1>3, PassMoves, Distances DEF Pressed
  <2> QED
    BY <1>1, <2>1, <2>2 DEF PassInv
<1>6. pass = 4 /\ ~stale /\ ("CYCLE_STOP" \in rt' \/ at = "homeKill") => todo + segs' = 0
  BY <1>1 DEF PassInv
<1> QED
  BY <1>1, <1>2, <1>4, <1>5, <1>6 DEF PassInv

(* A pass keeps to its way.                                                *)
LEMMA PassStep ==
  ASSUME ~Underrun, TypeInv, FetchedInv, QuietInv, LostInv,
         HomedInv, PassInv, [CyclesNext]_<<vars, cycleVars>>
  PROVE  PassInv'
<1> USE Frame DEF PassInv, TypeInv, LabelTypes, Where, Own, Resting, Passing,
        Probing, Homing, Callers, RtLabels, Snapped
<1>1. CASE Startup /\ Here
  BY <1>1 DEF Startup, Reset, ClearRt, ClearAlarm, Boot
<1>2. CASE ReadCommand \/ ((ReadLine \/ AutoStart \/ Polled) /\ Here)
  <2>1. CASE ReadCommand
    BY <1>2, <2>1 DEF ReadCommand
  <2>2. CASE (ReadLine \/ AutoStart \/ Polled) /\ Here
    BY <1>2, <2>2 DEF ReadLine, AutoStart, Polled
  <2> QED
    BY <1>2, <2>1, <2>2
<1>3. CASE (Unlock \/ CheckMode \/ (job = "probe" /\ LineDropped)
          \/ SyncWait \/ SyncDone) /\ Here
  BY <1>3 DEF Unlock, CheckMode, McReset, LineDropped, SyncWait, SyncDone
<1>4. CASE RtStep /\ UNCHANGED job /\ Here
  <2>1. CASE RtAlarm \/ RtHalt \/ RtUnalarm \/ RtSnap \/ RtHold \/ RtNoStart
            \/ RtStart \/ RtResume \/ RtResumeIdle
    BY <1>4, <2>1 DEF RtAlarm, RtHalt, RtUnalarm, RtSnap, RtHold, RtNoStart,
       RtStart, RtResume, RtResumeIdle
  <2>2. CASE RtPrime
    BY <1>4, <2>2, PrepMoves DEF RtPrime, CountTypes
  <2>3. CASE RtWake \/ RtStop
    BY <1>4, <2>3 DEF RtWake, RtStop
  <2>4. CASE RtPrep
    BY <1>4, <2>4, PrepMoves DEF RtPrep, CountTypes
  <2> QED
    BY <1>4, <2>1, <2>2, <2>3, <2>4 DEF RtStep
<1>5. CASE HomingStep
  <2>1. CASE HomeRefused \/ Home \/ GoHome
    BY <1>5, <2>1 DEF HomeRefused, Home, GoHome
  <2>2. CASE HomePass
    <3>1. Quiet /\ segs = 0 /\ Length \in Nat
      BY <2>2, LengthType DEF HomePass, QuietInv, LostInv, Quiet, CountTypes
    <3>2. ~Approach => \A a \in CycleAxes(cycle) : carriage[a] \in Trip .. End
      BY <2>2 DEF HomePass, HomedInv
    <3>3. at' = "homePrime" /\ todo' = Length /\ lock' = CycleAxes(cycle)
          /\ heading' = Towards(CycleAxes(cycle), IF Approach THEN 1 ELSE -1)
          /\ stale' = (stale \/ (pass = 4 /\ "CYCLE_STOP" \in rt))
          /\ UNCHANGED <<rt, segs, stepping, moving, carriage, cycle, pass>>
      BY <2>2 DEF HomePass
    <3>4. \A a \in CycleAxes(cycle) : ~Approach =>
            carriage[a] + Length - Length - 0 \in Trip .. End
      BY <3>1, <3>2, Distances
    <3>5. /\ heading' = Towards(CycleAxes(cycle'), IF Approach' THEN 1 ELSE -1)
          /\ lock' = CycleAxes(cycle') /\ todo' = Length' /\ ~stepping' /\ ~moving'
      BY <3>1, <3>3, Frame DEF Quiet
    <3>6. ~Approach' => \A a \in CycleAxes(cycle') :
            carriage'[a] + Length' - todo' - segs' \in Trip .. End
      BY <3>1, <3>3, <3>4, Frame
    <3>7. pass' = 4 /\ ~stale' => "CYCLE_STOP" \notin rt'
      BY <3>3
    <3> HIDE DEF PassInv, TypeInv
    <3>8. todo' + segs' <= Length'
      <4>1. Length \in Nat /\ todo' + segs' = Length /\ Length' = Length
        BY <3>1, <3>3, Frame
      <4> QED
        BY <4>1
    <3>9. lock' \subseteq CycleAxes(cycle') /\ CycleAxes(cycle') \ lock' = {}
      BY <3>5
    <3> QED
      BY <3>3, <3>5, <3>6, <3>7, <3>8, <3>9 DEF PassInv
  <2>3. CASE HomePrime
    <3>1. Length \in Nat /\ todo = Length /\ segs = 0 /\ state \notin Holding
          /\ todo # 0 /\ Prep
      BY <2>3, LengthType DEF HomePrime, CountTypes, LostInv, Holding
    <3>2. todo' + segs' = todo + segs /\ (moving' <=> todo' # 0) /\ todo' \in Nat
          /\ segs' \in Nat
      BY <3>1, PrepMoves, Distances
    <3>3. at' = "homeWake" /\ UNCHANGED <<rt, heading, lock, stale, carriage, cycle, pass>>
      BY <2>3 DEF HomePrime
    <3>4. \A x \in Int : x + Length - todo' - segs' = x + Length - todo - segs
      BY <3>1, <3>2
    <3>5. \A a \in CycleAxes(cycle) : ~Approach =>
            carriage[a] + Length - todo' - segs' \in Trip .. End
      BY <2>3, <3>1, <3>4, CycleInAxes DEF HomePrime, PlaceTypes
    <3>6. /\ heading' = Towards(CycleAxes(cycle'), IF Approach' THEN 1 ELSE -1)
          /\ lock' \subseteq CycleAxes(cycle')
          /\ todo' + segs' <= Length' /\ (moving' <=> todo' # 0)
      BY <2>3, <3>1, <3>2, <3>3, Frame DEF HomePrime
    <3>7. IF Approach'
          THEN \A a \in CycleAxes(cycle') \ lock' : carriage'[a] \in Trip .. End
          ELSE /\ lock' = CycleAxes(cycle')
               /\ \A a \in CycleAxes(cycle') :
                    carriage'[a] + Length' - todo' - segs' \in Trip .. End
      BY <2>3, <3>3, <3>5, Frame DEF HomePrime
    <3>8. pass' = 4 /\ ~stale' /\ "CYCLE_STOP" \in rt' => todo' + segs' = 0
      BY <2>3, <3>1, <3>2, <3>3 DEF HomePrime
    <3> HIDE DEF PassInv
    <3> QED
      BY <3>3, <3>6, <3>7, <3>8 DEF PassInv
  <2>4. CASE HomeWake
    BY <1>5, <2>4 DEF HomeWake
  <2>5. CASE HomeLook
    <3>1. \A a \in CycleAxes(cycle) \cap Pressed : carriage[a] \in Trip .. End
      BY CycleInAxes, Distances DEF PlaceTypes, Pressed
    <3>2. /\ at = "homeLook" /\ at' = "homePrep"
          /\ lock' = IF Approach THEN lock \ Pressed ELSE lock
          /\ UNCHANGED <<rt, todo, segs, moving, heading, stale, carriage, cycle, pass>>
      BY <2>5 DEF HomeLook
    <3> QED
      BY <3>1, <3>2
  <2>6. CASE HomePrep
    <3>1. Length \in Nat /\ todo \in Nat /\ segs \in Nat /\ state \notin Holding
          /\ (moving <=> todo # 0) /\ Prep
      BY <2>6, LengthType, Distances DEF HomePrep, CountTypes, LostInv, Holding
    <3>2. todo' + segs' = todo + segs /\ todo' \in Nat /\ segs' \in Nat /\ segs' >= segs
      BY <3>1, PrepMoves, Distances
    <3>3. moving' <=> todo' # 0
      BY <3>1, PrepMoves
    <3>4. at' = "homeCheck" /\ UNCHANGED <<rt, heading, lock, stale, carriage, cycle, pass>>
      BY <2>6 DEF HomePrep
    <3>5. \A x \in Int : x + Length - todo' - segs' = x + Length - todo - segs
      BY <3>1, <3>2
    <3>6. \A a \in CycleAxes(cycle) : ~Approach =>
            carriage[a] + Length - todo' - segs' \in Trip .. End
      BY <2>6, <3>5, CycleInAxes DEF HomePrep, PlaceTypes
    <3>7. /\ heading' = Towards(CycleAxes(cycle'), IF Approach' THEN 1 ELSE -1)
          /\ lock' \subseteq CycleAxes(cycle')
          /\ todo' + segs' <= Length' /\ (moving' <=> todo' # 0)
      BY <2>6, <3>1, <3>2, <3>3, <3>4, Frame DEF HomePrep
    <3>8. IF Approach'
          THEN \A a \in CycleAxes(cycle') \ lock' : carriage'[a] \in Trip .. End
          ELSE /\ lock' = CycleAxes(cycle')
               /\ \A a \in CycleAxes(cycle') :
                    carriage'[a] + Length' - todo' - segs' \in Trip .. End
      BY <2>6, <3>4, <3>6, Frame DEF HomePrep
    <3>9. pass' = 4 /\ ~stale' /\ "CYCLE_STOP" \in rt' => todo' + segs' = 0
      <4>1. pass = 4 /\ ~stale /\ "CYCLE_STOP" \in rt => todo + segs = 0
        BY <2>6 DEF HomePrep
      <4> HIDE DEF PassInv
      <4> QED
        BY <3>2, <3>4, <4>1
    <3> HIDE DEF PassInv
    <3> QED
      BY <3>4, <3>7, <3>8, <3>9 DEF PassInv
  <2>7. CASE HomeGoesOn
    <3>1. ~Approach => lock # {}
      BY <2>7 DEF HomeGoesOn, HomedInv
    <3>2. /\ at = "homeCheck" /\ at' \in {"homeKill", "homeLook"}
          /\ (at' = "homeKill" <=> lock = {})
          /\ UNCHANGED <<rt, todo, segs, moving, heading, lock, stale, carriage, cycle, pass>>
      BY <2>7 DEF HomeGoesOn
    <3>3. at' = "homeKill" => pass # 4
      BY <3>1, <3>2 DEF Approach
    <3> QED
      BY <3>1, <3>2, <3>3
  <2>8. CASE HomePulledOff \/ HomeFails \/ HomeFailed \/ HomeKill \/
            HomeAborted \/ HomeComplete \/ Homed
    BY <1>5, <2>8 DEF HomePulledOff, PassFails, Stops, HomeFails, McReset,
       HomeFailed, NextCycle, HomeKill, HomeAborted, Forget, HomeComplete,
       Homed
  <2> QED
    BY <1>5, <2>1, <2>2, <2>3, <2>4, <2>5, <2>6, <2>7, <2>8 DEF HomingStep
<1>6. CASE ProbingStep
  BY <1>6 DEF ProbingStep, ProbeCheckMode, GCode, ProbeSync, StartSync,
     ProbeInit, ProbeLine, ProbeQueue, ProbeArm, ProbeWait, ProbeOver, Probed,
     ProbeAborted
<1>7. CASE Command
  <2>1. CASE CycleStartCmd \/ FeedHoldCmd \/ SafetyDoorCmd
    BY <1>7, <2>1 DEF Command, CycleStartCmd, FeedHoldCmd, SafetyDoorCmd, Raise
  <2>2. CASE ResetCmd
    BY <1>7, <2>2 DEF Command, ResetCmd, McReset
  <2> QED
    BY <1>7, <2>1, <2>2 DEF Command
<1>8. CASE StepInterrupt
  <2>1. CASE Step
    <3>1. CASE at \in Passing
      BY <2>1, <3>1, PassDisplaced DEF Step
    <3>2. CASE at \notin Passing
      BY <2>1, <3>2 DEF Step
    <3> QED
      BY <3>1, <3>2
  <2>2. CASE Monitor
    BY <1>8, <2>2 DEF Monitor
  <2>3. CASE MonitorStore
    <3>1. CASE at \in Passing
      BY <2>3, <3>1, PassDisplaced DEF MonitorStore, FetchedInv
    <3>2. CASE at \notin Passing
      BY <2>3, <3>2 DEF MonitorStore
    <3> QED
      BY <3>1, <3>2
  <2>4. CASE StepEmpty /\ Here
    BY <1>8, <2>4 DEF StepEmpty, LostInv
  <2> QED
    BY <1>8, <2>1, <2>2, <2>3, <2>4 DEF StepInterrupt
<1>9. CASE UNCHANGED <<vars, cycleVars>>
  BY <1>9
<1> QED
  BY <1>1, <1>2, <1>3, <1>4, <1>5, <1>6, <1>7, <1>8, <1>9 DEF CyclesNext,
     MainStep, LineLoop, StepInterrupt

(* The axes homed so far stay where they are.                              *)
LEMMA HomedStep ==
  ASSUME TypeInv, FetchedInv, QuietInv, LostInv,
         PassInv, HomedInv, [CyclesNext]_<<vars, cycleVars>>
  PROVE  HomedInv'
<1> USE Frame DEF HomedInv, TypeInv, LabelTypes, HomedAxis, Done, HomedAxes,
        Where, Own, Resting, Passing, Probing, Homing, Callers, RtLabels,
        Snapped
<1>1. CASE Startup /\ Here
  BY <1>1 DEF Startup, Reset, ClearRt, ClearAlarm, Boot
<1>2. CASE ReadCommand \/ ((ReadLine \/ AutoStart \/ Polled) /\ Here)
  <2>1. CASE ReadCommand
    BY <1>2, <2>1 DEF ReadCommand
  <2>2. CASE (ReadLine \/ AutoStart \/ Polled) /\ Here
    BY <1>2, <2>2 DEF ReadLine, AutoStart, Polled
  <2> QED
    BY <1>2, <2>1, <2>2
<1>3. CASE (Unlock \/ CheckMode \/ (job = "probe" /\ LineDropped)
          \/ SyncWait \/ SyncDone) /\ Here
  BY <1>3 DEF Unlock, CheckMode, McReset, LineDropped, SyncWait, SyncDone
<1>4. CASE RtStep /\ UNCHANGED job /\ Here
  BY <1>4 DEF RtStep, RtAlarm, RtHalt, RtUnalarm, RtSnap, RtHold, RtNoStart,
     RtStart, RtResume, RtResumeIdle, RtPrime, RtWake, RtStop, RtPrep
<1>5. CASE HomingStep
  <2>1. CASE HomeRefused \/ Home
    BY <1>5, <2>1 DEF HomeRefused, Home
  <2>2. CASE GoHome
    <3>1. /\ at = "goHome" /\ UNCHANGED <<abort, cycle, pass, Done>>
          /\ \A a : HomedAxis(a)' <=> HomedAxis(a)
      BY <2>2 DEF GoHome
    <3> HIDE DEF HomedAxis, Done
    <3>2. CASE abort
      BY <2>2, <3>1, <3>2 DEF GoHome
    <3>3. CASE ~abort /\ (cycle > 1 \/ CycleAxes(cycle) = {})
      <4>1. at' = "alarm" /\ ret' = "homeEnd"
        BY <2>2, <3>3 DEF GoHome
      <4>2. cycle = 2 \/ (cycle = 1 /\ HomingCycle1 = {})
        BY <3>3, CyclesAssumption DEF CycleAxes, CountTypes
      <4>3. Done = HomedAxes
        BY <4>2 DEF Done
      <4> QED
        BY <3>1, <3>3, <4>1, <4>3
    <3>4. CASE ~abort /\ ~(cycle > 1) /\ CycleAxes(cycle) # {}
      <4>1. at' = "homePass" /\ CycleAxes(cycle') = CycleAxes(cycle) /\ Approach'
        BY <2>2, <3>1, <3>4, Frame DEF GoHome, Approach
      <4> QED
        BY <3>1, <3>4, <4>1
    <3> QED
      BY <3>2, <3>3, <3>4
  <2>3. CASE HomePass
    <3>1. /\ at = "homePass" /\ at' = "homePrime" /\ UNCHANGED <<cycle, pass, carriage, Done>>
          /\ CycleAxes(cycle') = CycleAxes(cycle) /\ Pressed' = Pressed
          /\ stale' = (stale \/ (pass = 4 /\ "CYCLE_STOP" \in rt))
          /\ \A a \in Axes \ CycleAxes(cycle) : position'[a] = position[a]
      BY <2>3, Frame DEF HomePass
    <3>2. \A a \in Done : a \in Axes
      BY Distances
    <3>3. \A a \in Done \ CycleAxes(cycle) : HomedAxis(a)'
      BY <3>1, <3>2
    <3> QED
      BY <3>1, <3>3
  <2>4. CASE HomePrime \/ HomeWake \/ HomeLook \/ HomePrep \/ HomeGoesOn \/
            HomePulledOff
    BY <1>5, <2>4 DEF HomePrime, HomeWake, HomeLook, HomePrep, HomeGoesOn,
       HomePulledOff
  <2>5. CASE HomeFails
    <3>1. at' = "alarm" /\ ret' = "homeFailed"
      BY <2>5 DEF HomeFails
    <3> QED
      BY <3>1
  <2>6. CASE HomeFailed
    BY <1>5, <2>6 DEF HomeFailed, NextCycle, LostInv
  <2>7. CASE HomeKill
    <3>1. at = "homeKill" /\ cycle \in {0, 1} /\ UNCHANGED <<carriage, stale>>
          /\ Pressed' = Pressed /\ CycleAxes(cycle) \subseteq Axes
      BY <2>7, Frame, CycleInAxes DEF HomeKill, CountTypes
    <3>2. CASE pass < 4
      <4>1. /\ at' = "homePass" /\ pass' = pass + 1 /\ UNCHANGED <<cycle, position, Done>>
            /\ CycleAxes(cycle') = CycleAxes(cycle)
        BY <2>7, <3>2 DEF HomeKill
      <4>2. ~Approach' => Approach
        BY <3>2, <4>1 DEF Approach, CountTypes
      <4>3. ~Approach' => \A a \in CycleAxes(cycle) : carriage[a] \in Trip .. End
        BY <3>1, <4>2 DEF PassInv
      <4> QED
        BY <3>1, <4>1, <4>3
    <3>3. CASE pass = 4
      <4>1. /\ at' = "goHome" /\ cycle' = cycle + 1 /\ pass' = 1
            /\ \A a \in Axes : position'[a] = IF a \in CycleAxes(cycle)
                                              THEN -Pulloff ELSE position[a]
        BY <2>7, <3>3 DEF HomeKill, NextCycle
      <4>2. \A a \in CycleAxes(cycle) :
              /\ carriage[a] + Length - todo - segs \in Trip .. End
              /\ a \notin Pressed
              /\ ~stale => todo + segs = 0
        BY <3>1, <3>3 DEF PassInv, Approach
      <4>3. \A a \in CycleAxes(cycle) : carriage[a] \in Int /\ todo \in Nat /\ segs \in Nat
        BY <3>1, Distances DEF PlaceTypes, CountTypes
      <4>4. Length = Pulloff
        BY <3>3 DEF Length
      <4>5. \A a \in CycleAxes(cycle) :
              carriage[a] + Pulloff >= Trip /\ (~stale => carriage[a] + Pulloff <= End)
        BY <4>2, <4>3, <4>4, Distances
      <4>6. \A a \in CycleAxes(cycle) : HomedAxis(a)'
        BY <3>1, <4>1, <4>2, <4>5
      <4>7. \A a \in Done \ CycleAxes(cycle) : HomedAxis(a)'
        BY <3>1, <4>1, Distances
      <4>8. Done' \subseteq Done \cup CycleAxes(cycle)
        BY <3>1, <4>1 DEF CycleAxes
      <4> QED
        BY <4>1, <4>6, <4>7, <4>8
    <3> QED
      BY <3>2, <3>3 DEF CountTypes
  <2>8. CASE HomeAborted \/ HomeComplete \/ Homed
    BY <1>5, <2>8 DEF HomeAborted, Forget, HomeComplete, Homed
  <2> QED
    BY <1>5, <2>1, <2>2, <2>3, <2>4, <2>5, <2>6, <2>7, <2>8 DEF HomingStep
<1>6. CASE ProbingStep
  BY <1>6 DEF ProbingStep, ProbeCheckMode, GCode, ProbeSync, StartSync,
     ProbeInit, ProbeLine, ProbeQueue, ProbeArm, ProbeWait, ProbeOver, Probed,
     ProbeAborted
<1>7. CASE Command
  BY <1>7 DEF Command, CycleStartCmd, Raise, FeedHoldCmd, SafetyDoorCmd,
     ResetCmd, McReset
<1>8. CASE StepInterrupt
  <2>1. CASE Step
    <3>1. CASE at \in Passing
      <4>1. /\ UNCHANGED <<at, cycle, pass, stale, Done, abort>> /\ CycleAxes(cycle') = CycleAxes(cycle)
            /\ \A a \in Axes \ CycleAxes(cycle) :
                 carriage'[a] = carriage[a] /\ position'[a] = position[a]
        BY <2>1, <3>1, PassMoves DEF Step
      <4>2. \A a \in Done : a \in Axes
        BY Distances
      <4>3. \A a \in Done \ CycleAxes(cycle) : HomedAxis(a)'
        BY <3>1, <4>1, <4>2 DEF Pressed
      <4> QED
        BY <3>1, <4>1, <4>3
    <3>2. CASE at \notin Passing
      BY <2>1, <3>2 DEF Step, QuietInv, Quiet, LostInv
    <3> QED
      BY <3>1, <3>2
  <2>2. CASE Monitor
    BY <1>8, <2>2 DEF Monitor, QuietInv, Quiet
  <2>3. CASE MonitorStore
    <3>1. CASE at \in Passing
      <4>1. /\ UNCHANGED <<at, cycle, pass, stale, Done, abort>> /\ CycleAxes(cycle') = CycleAxes(cycle)
            /\ \A a \in Axes \ CycleAxes(cycle) :
                 carriage'[a] = carriage[a] /\ position'[a] = position[a]
        BY <2>3, <3>1, PassMoves DEF MonitorStore
      <4>2. \A a \in Done : a \in Axes
        BY Distances
      <4>3. \A a \in Done \ CycleAxes(cycle) : HomedAxis(a)'
        BY <3>1, <4>1, <4>2 DEF Pressed
      <4> QED
        BY <3>1, <4>1, <4>3
    <3>2. CASE at \notin Passing
      BY <2>3, <3>2 DEF MonitorStore, QuietInv, Quiet, LostInv, FetchedInv
    <3> QED
      BY <3>1, <3>2
  <2>4. CASE StepEmpty /\ Here
    BY <1>8, <2>4 DEF StepEmpty
  <2> QED
    BY <1>8, <2>1, <2>2, <2>3, <2>4 DEF StepInterrupt
<1>9. CASE UNCHANGED <<vars, cycleVars>>
  BY <1>9
<1> QED
  BY <1>1, <1>2, <1>3, <1>4, <1>5, <1>6, <1>7, <1>8, <1>9 DEF CyclesNext,
     MainStep, LineLoop, StepInterrupt

(* While the probe heads for the workpiece every segment is one step of    *)
(* the axis and one of its count: the frame is out of reach.               *)
LEMMA ProbeMoves ==
  ASSUME Touch + ProbeTravel <= End + 1, PlaceTypes, CountTypes, Heads,
         state # "HOMING", segs > 0, Displace, UNCHANGED <<heading, todo, contact>>
  PROVE  /\ carriage'[ProbeAxis] = carriage[ProbeAxis] + 1
         /\ Heads'
         /\ Matched => Matched'
<1>1. /\ carriage[ProbeAxis] \in Int /\ position[ProbeAxis] \in Int /\ contact \in Int
      /\ todo \in Nat /\ segs \in Nat /\ ProbeAxis \in Axes
  BY Distances DEF PlaceTypes, CountTypes
<1>2. heading[ProbeAxis] = 1
  BY <1>1 DEF Heads, Towards
<1>3. /\ segs' = segs - 1
      /\ carriage'[ProbeAxis] = Reached(ProbeAxis)
      /\ position'[ProbeAxis] = position[ProbeAxis] + 1
  BY <1>1, <1>2 DEF Displace
<1>4. Reached(ProbeAxis) = carriage[ProbeAxis] + 1
  BY <1>1, <1>2, Distances DEF Reached, Heads
<1> QED
  BY <1>1, <1>3, <1>4, Distances DEF Heads, Matched

(* A step that moves no axis leaves the way of the probe as it is.         *)
LEMMA ProbeKept ==
  /\ UNCHANGED <<heading, carriage>> /\ todo' + segs' = todo + segs
     /\ todo \in Nat /\ segs \in Nat /\ todo' \in Nat /\ segs' \in Nat
     /\ carriage[ProbeAxis] \in Int /\ Heads => Heads'
  /\ UNCHANGED <<carriage, position, contact>> /\ Matched => Matched'
  BY Distances DEF Heads, Matched

(* A probe is blocked, or runs to the point of contact and records it.     *)
LEMMA ProbeStep ==
  ASSUME Touch + ProbeTravel <= End + 1, TypeInv, FetchedInv, QuietInv,
         StopInv, ProbeInv, [CyclesNext]_<<vars, cycleVars>>
  PROVE  ProbeInv'
<1> USE DEF ProbeInv, Blocked, Heads, Matched, Runs, LabelTypes, TypeInv,
        Where, Own, Resting, Passing, Probing, Homing, Callers, RtLabels,
        Snapped
<1>1. CASE Startup /\ Here
  BY <1>1 DEF Startup, Reset, ClearRt, ClearAlarm, Boot
<1>2. CASE ReadCommand \/ ((ReadLine \/ AutoStart \/ Polled) /\ Here)
  <2>1. CASE ReadCommand
    BY <1>2, <2>1 DEF ReadCommand
  <2>2. CASE (ReadLine \/ AutoStart \/ Polled) /\ Here
    BY <1>2, <2>2 DEF ReadLine, AutoStart, Polled
  <2> QED
    BY <1>2, <2>1, <2>2
<1>3. CASE (Unlock \/ CheckMode \/ (job = "probe" /\ LineDropped)
          \/ SyncWait \/ SyncDone) /\ Here
  BY <1>3 DEF Unlock, CheckMode, McReset, LineDropped, SyncWait, SyncDone
<1>4. CASE RtStep /\ UNCHANGED job /\ Here
  <2>1. CASE RtAlarm \/ RtHalt \/ RtUnalarm \/ RtSnap \/ RtHold \/ RtNoStart
            \/ RtStart \/ RtResume \/ RtResumeIdle
    BY <1>4, <2>1 DEF RtAlarm, RtHalt, RtUnalarm, RtSnap, RtHold, RtNoStart,
       RtStart, Startable, RtResume, RtResumeIdle
  <2>2. CASE RtPrime
    BY <1>4, <2>2, PrepMoves, Distances DEF RtPrime, CountTypes, PlaceTypes
  <2>3. CASE RtWake \/ RtStop
    BY <1>4, <2>3 DEF RtWake, RtStop
  <2>4. CASE RtPrep
    BY <1>4, <2>4, PrepMoves, Distances DEF RtPrep, CountTypes, PlaceTypes,
       Holding
  <2> QED
    BY <1>4, <2>1, <2>2, <2>3, <2>4 DEF RtStep
<1>5. CASE HomingStep
  BY <1>5 DEF HomingStep, HomeRefused, Home, GoHome, HomePass, HomePrime,
     HomeWake, HomeLook, HomePrep, HomeGoesOn, HomePulledOff, HomeFails,
     McReset, HomeFailed, NextCycle, HomeKill, HomeAborted, Forget,
     HomeComplete, Homed
<1>6. CASE ProbingStep
  <2>1. CASE ProbeCheckMode \/ ProbeSync
    BY <1>6, <2>1 DEF ProbeCheckMode, GCode, ProbeSync, StartSync
  <2>2. CASE ProbeInit
    <3>1. at = "synced" /\ ret' \in {ret, "probeReady"}
          /\ UNCHANGED <<state, rt, exec, abort, segs, stepping, carriage>>
      BY <2>2 DEF ProbeInit
    <3>2. ~abort => Quiet /\ "CYCLE_STOP" \notin rt /\ exec = {} /\ state # "HOMING"
      BY <3>1 DEF QuietInv, StopInv
    <3>3. CASE Touching
      <4>1. at' = "alarm" /\ ret' = "probeReady" /\ alarm' # {} /\ ~succeeded'
        BY <2>2, <3>3 DEF ProbeInit
      <4>2. ~abort => Blocked'
        BY <3>1, <3>2, <4>1 DEF Quiet
      <4> QED
        BY <3>1, <3>2, <4>1, <4>2
    <3>4. CASE ~Touching
      <4>1. at' = "probeReady" /\ ~succeeded'
        BY <2>2, <3>4 DEF ProbeInit
      <4>2. carriage[ProbeAxis] < Touch
        BY <3>4, Distances DEF Touching, PlaceTypes
      <4> QED
        BY <3>1, <3>2, <4>1, <4>2
    <3> QED
      BY <3>3, <3>4
  <2>3. CASE ProbeLine
    BY <1>6, <2>3 DEF ProbeLine
  <2>4. CASE ProbeQueue
    <3>1. /\ at = "probeRoom" /\ at' = "probeArm"
          /\ UNCHANGED <<state, rt, exec, alarm, abort, segs, stepping, carriage, succeeded>>
      BY <2>4 DEF ProbeQueue
    <3>2. CASE abort
      BY <3>1, <3>2
    <3>3. CASE ~abort
      <4>1. todo = 0 /\ segs = 0 /\ ~stepping
        BY <3>1, <3>3 DEF QuietInv, Quiet
      <4>2. todo' = ProbeTravel /\ heading' = Towards({ProbeAxis}, 1)
        BY <2>4, <3>3, <4>1, Distances DEF ProbeQueue
      <4>3. carriage[ProbeAxis] < Touch => carriage[ProbeAxis] < Touch /\ Heads'
        BY <3>1, <4>1, <4>2, Distances DEF PlaceTypes
      <4>4. Blocked => Blocked'
        BY <3>1
      <4> HIDE DEF Heads, Blocked
      <4> QED
        BY <3>1, <3>3, <4>1, <4>3, <4>4
    <3> QED
      BY <3>2, <3>3
  <2>5. CASE ProbeArm
    <3>1. /\ at = "probeArm" /\ at' = "alarm" /\ ret' = "probeWait" /\ probe' = "active"
          /\ ("CYCLE_STOP" \in rt' => "CYCLE_STOP" \in rt)
          /\ UNCHANGED <<state, exec, alarm, abort, segs, stepping, todo, heading, carriage,
                        succeeded>>
      BY <2>5 DEF ProbeArm
    <3>2. carriage[ProbeAxis] < Touch /\ Heads => Runs'
      BY <3>1, Distances DEF PlaceTypes
    <3>3. Blocked => Blocked'
      BY <3>1
    <3> HIDE DEF Heads, Blocked, Runs
    <3> QED
      BY <3>1, <3>2, <3>3
  <2>6. CASE ProbeWait \/ ProbeOver \/ Probed \/ ProbeAborted
    BY <1>6, <2>6 DEF ProbeWait, ProbeOver, Probed, ProbeAborted
  <2> QED
    BY <1>6, <2>1, <2>2, <2>3, <2>4, <2>5, <2>6 DEF ProbingStep
<1>7. CASE Command
  <2>1. CASE CycleStartCmd \/ FeedHoldCmd \/ SafetyDoorCmd
    BY <1>7, <2>1 DEF Command, CycleStartCmd, Raise, FeedHoldCmd,
       SafetyDoorCmd
  <2>2. CASE ResetCmd
    <3>1. /\ alarm \subseteq alarm' /\ (stepping' => stepping)
          /\ "CYCLE_STOP" \in rt' => "CYCLE_STOP" \in rt
      BY <2>2 DEF ResetCmd, McReset
    <3>2. UNCHANGED <<at, ret, state, exec, abort, todo, segs, heading, carriage, position, probe,
                      contact, succeeded>>
      BY <1>7, <2>2 DEF Command, ResetCmd
    <3> QED
      BY <3>1, <3>2
  <2> QED
    BY <1>7, <2>1, <2>2 DEF Command
<1>8. CASE StepInterrupt
  <2>1. CASE Step
    <3>1. /\ segs > 0 /\ Displace
          /\ UNCHANGED <<at, ret, state, abort, todo, heading, contact, probe, succeeded>>
      BY <2>1 DEF Step
    <3>2. carriage[ProbeAxis] \in Int
      BY Distances DEF PlaceTypes
    <3>3. state # "HOMING" /\ Heads => /\ carriage'[ProbeAxis] = carriage[ProbeAxis] + 1
                                       /\ Heads' /\ (Matched => Matched')
      BY <3>1, ProbeMoves
    <3>4. Where \in Resting => abort
      BY <3>1 DEF QuietInv, Quiet
    <3>5. at = "probeArm" => abort
      BY <3>1
    <3>6. ~Blocked
      BY <3>1
    <3>7. Runs /\ state # "HOMING" => Runs'
      BY <3>1, <3>2, <3>3, <2>1, Distances DEF Step, Contact, Touching,
         PlaceTypes
    <3> HIDE DEF Heads, Matched, Runs, Blocked
    <3> QED
      BY <3>1, <3>3, <3>4, <3>5, <3>6, <3>7
  <2>2. CASE Monitor
    <3>1. /\ probe = "active" /\ Touching /\ segs > 0 /\ stepping
          /\ probe' = "off" /\ contact' = position[ProbeAxis]
          /\ UNCHANGED <<at, ret, state, rt, exec, alarm, abort, todo, segs, stepping, heading,
                        carriage, position, succeeded>>
      BY <2>2 DEF Monitor, Contact
    <3>2. carriage[ProbeAxis] \in Int /\ position[ProbeAxis] \in Int
      BY Distances DEF PlaceTypes
    <3>3. Runs => Runs'
      BY <3>1, <3>2, Distances DEF Touching
    <3>4. ~Blocked
      BY <3>1
    <3>5. Where # "probed"
      BY <3>1
    <3> HIDE DEF Matched, Runs, Blocked
    <3> QED
      BY <3>1, <3>3, <3>4, <3>5
  <2>3. CASE MonitorStore
    <3>1. /\ segs > 0 /\ Displace
          /\ UNCHANGED <<at, ret, state, abort, todo, heading, contact, probe, succeeded>>
      BY <2>3 DEF MonitorStore, FetchedInv
    <3>2. carriage[ProbeAxis] \in Int
      BY Distances DEF PlaceTypes
    <3>3. state # "HOMING" /\ Heads => /\ carriage'[ProbeAxis] = carriage[ProbeAxis] + 1
                                       /\ Heads' /\ (Matched => Matched')
      BY <3>1, ProbeMoves
    <3>4. Where \in Resting => abort
      BY <3>1 DEF QuietInv, Quiet
    <3>5. at = "probeArm" => abort
      BY <3>1
    <3>6. ~Blocked
      BY <3>1
    <3>7. Runs /\ state # "HOMING" => Runs'
      BY <3>1, <3>2, <3>3, <2>3 DEF MonitorStore, FetchedInv
    <3> HIDE DEF Heads, Matched, Runs, Blocked
    <3> QED
      BY <3>1, <3>3, <3>4, <3>5, <3>6, <3>7
  <2>4. CASE StepEmpty /\ Here
    BY <1>8, <2>4 DEF StepEmpty
  <2> QED
    BY <1>8, <2>1, <2>2, <2>3, <2>4 DEF StepInterrupt
<1>9. CASE UNCHANGED <<vars, cycleVars>>
  BY <1>9
<1> QED
  BY <1>1, <1>2, <1>3, <1>4, <1>5, <1>6, <1>7, <1>8, <1>9 DEF CyclesNext,
     MainStep, LineLoop, StepInterrupt

-----------------------------------------------------------------------------
(* The theorems.                                                           *)

(* A machine that has just been switched on is at rest.                    *)
LEMMA InitInv == CyclesInit => RestInv /\ PassInv /\ HomedInv /\ ProbeInv
<1> SUFFICES ASSUME CyclesInit PROVE RestInv /\ PassInv /\ HomedInv /\ ProbeInv
  OBVIOUS
<1> USE Distances DEF CyclesInit, Init, Where, Own, Resting, Passing, Probing,
        Homing, Callers, RtLabels, Snapped
<1>1. TypeInv
  BY DEF TypeInv, LabelTypes, CountTypes, PlaceTypes
<1>2. FetchedInv /\ QuietInv /\ StopInv /\ LostInv
  BY DEF FetchedInv, QuietInv, StopInv, LostInv
<1>3. PassInv /\ HomedInv /\ ProbeInv
  BY DEF PassInv, HomedInv, ProbeInv
<1> QED
  BY <1>1, <1>2, <1>3 DEF RestInv

LEMMA RestStep ==
  ASSUME RestInv, [CyclesNext]_<<vars, cycleVars>> PROVE RestInv'
  BY LabelStep, CountStep, PlaceStep, FetchedStep, QuietStep, StopStep,
     LostStep
     DEF RestInv, TypeInv

(* A machine that is not in a homing cycle or at a probe is at rest, and   *)
(* begins every line without a CYCLE_STOP of the motion before it.         *)
THEOREM RestTheorem == CyclesSpec => []RestInv
<1>1. CyclesInit => RestInv
  BY InitInv
<1>2. RestInv /\ [CyclesNext]_<<vars, cycleVars>> => RestInv'
  BY RestStep
<1> QED
  BY <1>1, <1>2, PTL DEF CyclesSpec

(* A homing cycle that fails leaves the machine in alarm, unless the reset *)
(* that failed it was pending when $H was accepted.                        *)
THEOREM LostTheorem == CyclesSpec => []LostIsAlarm
<1>1. RestInv => LostIsAlarm
  BY DEF RestInv, LostInv, LostIsAlarm
<1> QED
  BY <1>1, RestTheorem, PTL

(* "Homing cycle complete!" is true: every homed axis rests off its switch,*)
(* where the count says it is.  The segment ring must not run dry while    *)
(* the planner still feeds it.                                             *)
THEOREM HomingTheorem ==
  ASSUME ~Underrun
  PROVE  CyclesSpec => []HomingIsTrue
<1>1. CyclesInit => HomingInv
  BY InitInv DEF HomingInv
<1>2. HomingInv /\ [CyclesNext]_<<vars, cycleVars>> => HomingInv'
  BY RestStep, PassStep, HomedStep DEF HomingInv, RestInv
<1>3. HomingInv => HomingIsTrue
  <2> SUFFICES ASSUME HomingInv PROVE HomedIsTrue /\ LostIsAlarm
    BY DEF HomingIsTrue
  <2>1. LostIsAlarm
    BY DEF HomingInv, RestInv, LostInv, LostIsAlarm
  <2>2. at = "homed" => ~abort
    BY DEF HomingInv, RestInv, LostInv
  <2>3. at = "homed" => ~stepping
    BY <2>2 DEF HomingInv, RestInv, QuietInv, Quiet, Where, Resting, RtLabels
  <2>4. at = "homed" => \A a \in HomedAxes : HomedAxis(a)
    BY <2>2 DEF HomingInv, HomedInv, Where, RtLabels
  <2> QED
    BY <2>1, <2>3, <2>4 DEF HomedIsTrue, HomedAxis
<1> QED
  BY <1>1, <1>2, <1>3, PTL DEF CyclesSpec

(* A probe cycle that reports success has recorded the point of contact.   *)
(* The frame must not be in the way: an axis that is stopped by it while   *)
(* its steps go on being counted is nowhere near where it is said to be.   *)
THEOREM ProbeTheorem ==
  ASSUME Touch + ProbeTravel <= End + 1
  PROVE  CyclesSpec => []ProbeIsTrue
<1>1. CyclesInit => ProbingInv
  BY InitInv DEF ProbingInv
<1>2. ProbingInv /\ [CyclesNext]_<<vars, cycleVars>> => ProbingInv'
  BY RestStep, ProbeStep DEF ProbingInv, RestInv
<1>3. ProbingInv => ProbeIsTrue
  BY DEF ProbingInv, ProbeInv, ProbeIsTrue, Matched, Where, RtLabels
<1> QED
  BY <1>1, <1>2, <1>3, PTL DEF CyclesSpec
=============================================================================
