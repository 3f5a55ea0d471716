------------------------------- MODULE Gcode --------------------------------
(***************************************************************************)
(* The parser's state and the commands that change it: gc_execute_line's   *)
(* step 4, the $ commands that write the store or switch check mode, the   *)
(* start of the program, reset and power failure, and one byte of the      *)
(* store that may go bad.                                                  *)
(*                                                                         *)
(* A line that writes the store leaves its bytes in `pending' and nothing  *)
(* but EepromByte or a power failure happens until they are written, as    *)
(* the program waits for each of them. What a line's calls do while they   *)
(* wait for the motion to end is the business of module Grbl: here a       *)
(* queued motion is its end point, `machine'.                              *)
(*                                                                         *)
(* Bounds: MaxOps commands, MaxTroubles power failures and bytes gone bad;  *)
(* lines whose results leave -MaxCoord..MaxCoord are not tried.            *)
(***************************************************************************)
EXTENDS GcodeBlock

CONSTANTS Lines,          \* the g-code lines, sequences of words
          StoreCommands,  \* the $number=value commands, <<number, value>>
          MaxOps, MaxTroubles, MaxCoord

(* The values of settings and coordinates fit into their records.          *)
ASSUME GcodeAssumption ==
    /\ Lines \subseteq Seq([w : STRING, v : Int])
    /\ \A command \in StoreCommands : /\ command[1] \in {20, 22, 27, 100}
                                      /\ command[2] \in Int /\ command[2] < ByteMod
    /\ MaxOps \in Nat /\ MaxTroubles \in Nat
    /\ MaxCoord \in Nat /\ 2 * MaxCoord < ByteMod

VARIABLES
  pc,          \* where the start-up is: "settings_init", "gc_init", "ready"
  mode,        \* sys.state: "idle" or "check"
  gc,          \* gc_state
  machine,     \* the end point of the motions queued so far
  pins,        \* the spindle's direction and speed, and the coolant output
  reply,       \* the answer to the last line
  programmed,  \* what the last line said of the work position, by axis
  ops, crashes, faults

machineVars == <<mode, gc, machine, pins>>
vars == <<eeprom, pending, settings, pc, machineVars, reply, programmed,
          ops, crashes, faults>>

Off == [dir |-> "M5", speed |-> 0]
PinsOff == [spindle |-> Off, flood |-> "M9"]

(* gc_init: zeroed but for the vector of G54, then gc_sync_position *)
ClearedParser(system) ==
    [modal |-> InitialModal, feed |-> 0, speed |-> 0, position |-> machine,
     system |-> system, offset |-> ZeroVector, tlo |-> 0]

Init ==
    /\ eeprom = Erased /\ pending = <<>> /\ settings = Defaults
    /\ pc = "settings_init" /\ mode = "idle"
    /\ machine = ZeroVector /\ pins = PinsOff
    /\ gc = ClearedParser(ZeroVector)
    /\ reply = "none" /\ programmed = <<>>
    /\ ops = 0 /\ crashes = 0 /\ faults = 0

-----------------------------------------------------------------------------
(* Start-up *)

SettingsInit ==
    /\ pc = "settings_init" /\ pending = <<>>
    /\ pc' = "gc_init"
    /\ IF GlobalReadable(eeprom)
       THEN /\ settings' = DecodeSettings(Data(eeprom, "global"))
            /\ pending' = <<>>
       ELSE /\ settings' = Defaults
            /\ pending' = RestoreWrites("*")
    /\ UNCHANGED <<eeprom, machineVars, reply, programmed, ops, crashes, faults>>

(* The body of main's loop: gc_init, spindle_init, coolant_init, ... *)
GcInit ==
    /\ pc = "gc_init" /\ pending = <<>>
    /\ LET read == ReadCoordData(eeprom, Systems[1])
       IN  /\ gc' = ClearedParser(read.data)
           /\ pending' = read.writes
    /\ pc' = "ready" /\ mode' = "idle" /\ pins' = PinsOff
    /\ UNCHANGED <<eeprom, settings, machine, reply, programmed, ops, crashes, faults>>

(* spindle_run and coolant_run do nothing in check mode. *)
SpindleOutput(state, s) == IF state = "M5" \/ s = 0 THEN Off
                           ELSE [dir |-> state, speed |-> s]
SpindleRun(spindle, state, s) == IF mode = "check" THEN spindle
                                 ELSE SpindleOutput(state, s)

SpindleOnStateOnly(b) ==
    IF b.modal.spindle # gc.modal.spindle
    THEN SpindleRun(pins.spindle, b.modal.spindle, Speed(gc, b)) ELSE pins.spindle

(* A new speed reaches a spindle that runs; a new state takes it along. *)
SpindleAfter(b) ==
    LET s    == Speed(gc, b)
        kept == IF s # gc.speed /\ gc.modal.spindle # "M5"
                THEN SpindleRun(pins.spindle, gc.modal.spindle, s) ELSE pins.spindle
    IN  IF b.modal.spindle # gc.modal.spindle
        THEN SpindleRun(kept, b.modal.spindle, s) ELSE kept

FloodAfter(b) ==
    IF b.modal.coolant # gc.modal.coolant /\ mode # "check" THEN b.modal.coolant
    ELSE pins.flood

-----------------------------------------------------------------------------
(* gc_execute_line *)

Answer(status) == /\ reply' = status
                  /\ programmed' = <<>>

Refuse(status, writes) ==
    /\ Answer(status)
    /\ pending' = writes
    /\ UNCHANGED <<machineVars, settings>>

(* The modes are taken over before the block is known to be good. *)
RefuseLate(b) ==
    /\ Answer("error")
    /\ gc' = [gc EXCEPT !.modal = b.modal]
    /\ pending' = <<>>
    /\ UNCHANGED <<mode, machine, pins, settings>>

(* Where the last motion the block queues ends: the stored position of    *)
(* G28 and G30, the target, or, for a probing motion that finds the probe *)
(* at once, where it began.                                               *)
Moves(b) == Executed(b) = "motion" /\ b.modal.motion # "G80"
Stop(b, system, probed) ==
    IF b.modal.motion \in Probes /\ probed THEN machine ELSE Target(gc, b, system)
MachineAfter(b, system, probed) ==
    CASE mode = "check" -> machine
      [] mode # "check" /\ b.nonModal \in {"G28", "G30"} -> ParameterRead(b, eeprom).data
      [] mode # "check" /\ b.nonModal \notin {"G28", "G30"} /\ Moves(b) ->
            Stop(b, system, probed)
      [] OTHER -> machine

(* G28 and G30 leave the parser at the intermediate position. *)
PositionNotHome(b, system, probed) ==
    IF b.nonModal \in {"G28", "G30"} \/ Moves(b)
    THEN Stop(b, system, probed /\ mode # "check") ELSE gc.position

(* The parser follows: the target comes back from a probing cycle as the  *)
(* position that was reached, unless the cycle was skipped in check mode. *)
PositionAfter(b, system, probed) ==
    CASE b.nonModal \in {"G28", "G30"} -> ParameterRead(b, eeprom).data
      [] b.nonModal \notin {"G28", "G30"} /\ Moves(b) ->
            Stop(b, system, probed /\ mode # "check")
      [] OTHER -> gc.position

Changed(b, system) == ChangedSystem(gc, b, ParameterRead(b, eeprom).data)

(* What step 19 writes: G28.1 and G30.1 store the position before the     *)
(* block's motion.                                                        *)
BlockWrites(b, system) ==
    CASE b.nonModal = "G10" -> WriteCoordData(ParameterOf(b), Changed(b, system))
      [] b.nonModal = "G28.1" -> WriteCoordData("G28", gc.position)
      [] b.nonModal = "G30.1" -> WriteCoordData("G30", gc.position)
      [] OTHER -> <<>>

(* G10 changes the record alone. *)
SystemNotReloaded(b, system) == system

SystemAfter(b, system) ==
    IF b.nonModal = "G10" /\ ParameterOf(b) = b.modal.system
    THEN Changed(b, system) ELSE system

OffsetAfter(b, system) ==
    CASE b.nonModal = "G92" -> ChangedOffset(gc, b, system)
      [] b.nonModal = "G92.1" -> ZeroVector
      [] OTHER -> gc.offset

ToolLengthAfter(b) ==
    IF b.axis # "length" THEN gc.tlo
    ELSE IF b.modal.length = "G43.1" THEN Coordinate(b, ToolAxis) ELSE 0

(* The parser when the motions of the block are queued, before its flow. *)
ParserAfter(b, system, probed) ==
    [modal |-> b.modal, feed |-> Feed(gc, b), speed |-> Speed(gc, b),
     position |-> PositionAfter(b, system, probed),
     system |-> SystemAfter(b, system),
     offset |-> OffsetAfter(b, system), tlo |-> ToolLengthAfter(b)]

Running(p) == [p EXCEPT !.modal.flow = "run"]

(* The modes a program end resets. *)
EndModal(modal) ==
    [modal EXCEPT !.motion = "G1", !.plane = "G17", !.distance = "G90",
                  !.feed = "G94", !.system = Systems[1], !.spindle = "M5",
                  !.coolant = "M9"]

(* M2: the modes first, then G54's record, then the spindle. In check mode *)
(* only the modes; if the record cannot be read, the line is refused with  *)
(* the modes reset, the outputs as they were and the program flow at M2.   *)
EndProgram(p, pinsNow, writes) ==
    LET ended == [p EXCEPT !.modal = EndModal(p.modal)]
        read  == ReadCoordData(Written(eeprom, writes), Systems[1])
    IN  IF mode = "check"
        THEN /\ gc' = Running(ended) /\ pins' = pinsNow
             /\ pending' = writes /\ reply' = "ok"
        ELSE IF read.ok
        THEN /\ gc' = Running([ended EXCEPT !.system = read.data])
             /\ pins' = PinsOff /\ pending' = writes /\ reply' = "ok"
        ELSE /\ gc' = ended /\ pins' = pinsNow
             /\ pending' = writes \o read.writes /\ reply' = "readfail"

PinsAfter(b) == [spindle |-> SpindleAfter(b), flood |-> FloodAfter(b)]

(* What the line tells of the work position, for the reports: an absolute *)
(* motion, a G92, or a G10 L20 of the system that is active. Nothing is   *)
(* said of a motion in a block with G92.1, which clears the offset after  *)
(* the target was converted with it and before the motion is queued, so   *)
(* that the number named is the position in the old offset.               *)
Said(b) ==
    IF /\ b.modal.flow # "M2"
       /\ \/ /\ b.nonModal \in {"none", "G4", "G28.1", "G30.1"}
             /\ b.axis = "motion" /\ b.modal.motion \notin Probes
             /\ b.modal.distance = "G90"
          \/ b.nonModal = "G92"
          \/ b.nonModal = "G10" /\ b.vals["L"] = 20
             /\ ParameterOf(b) = b.modal.system
    THEN [a \in AxisWords(b) |-> Coordinate(b, a)] ELSE <<>>

Execute(b, system, probed) ==
    LET p      == ParserAfter(b, system, probed)
        writes == BlockWrites(b, system)
    IN  /\ programmed' = Said(b)
        /\ machine' = MachineAfter(b, system, probed)
        /\ IF b.modal.flow = "M2"
           THEN EndProgram(p, PinsAfter(b), writes)
           ELSE /\ gc' = Running(p) /\ pins' = PinsAfter(b)
                /\ pending' = writes /\ reply' = "ok"
        /\ UNCHANGED <<mode, settings>>

InRange(v) == \A a \in Axes : v[a] \in -MaxCoord .. MaxCoord
InBounds(p) == /\ InRange(p.position) /\ InRange(p.system)
               /\ InRange(p.offset) /\ p.tlo \in -MaxCoord .. MaxCoord

(* A late fault finds the modes already taken over. *)
ExecuteEager(line, choice) ==
    LET b      == Parse(gc, line)
        system == SystemRead(gc, b, eeprom)
        param  == ParameterRead(b, eeprom)
        target == Target(gc, b, system.data)
    IN  IF EarlyFault(b) THEN Refuse("error", <<>>)
        ELSE IF ~system.ok THEN Refuse("readfail", system.writes)
        ELSE IF OffsetFault(b) THEN Refuse("error", <<>>)
        ELSE IF ~param.ok THEN Refuse("readfail", param.writes)
        ELSE IF LateFault(gc, b, target, choice) THEN RefuseLate(b)
        ELSE /\ InBounds(ParserAfter(b, system.data, choice))
             /\ b.nonModal = "G10" => InRange(Changed(b, system.data))
             /\ Execute(b, system.data, choice)

(* The reads of the store stop the line at the first that fails; each one *)
(* repairs its record. `choice' is what the block leaves to the outside:  *)
(* whether an arc fits, and whether a probing motion stops at once.       *)
ExecuteLine(line, choice) ==
    LET b      == Parse(gc, line)
        system == SystemRead(gc, b, eeprom)
        param  == ParameterRead(b, eeprom)
        target == Target(gc, b, system.data)
    IN  IF EarlyFault(b) THEN Refuse("error", <<>>)
        ELSE IF ~system.ok THEN Refuse("readfail", system.writes)
        ELSE IF OffsetFault(b) THEN Refuse("error", <<>>)
        ELSE IF ~param.ok THEN Refuse("readfail", param.writes)
        ELSE IF LateFault(gc, b, target, choice) THEN Refuse("error", <<>>)
        ELSE /\ InBounds(ParserAfter(b, system.data, choice))
             /\ b.nonModal = "G10" => InRange(Changed(b, system.data))
             /\ Execute(b, system.data, choice)

Ready == pc = "ready" /\ pending = <<>> /\ ops < MaxOps

Line ==
    /\ Ready
    /\ \E line \in Lines, choice \in BOOLEAN : ExecuteLine(line, choice)
    /\ ops' = ops + 1
    /\ UNCHANGED <<eeprom, pc, crashes, faults>>

-----------------------------------------------------------------------------
(* The $ commands *)

(* The settings are changed first and stored after. *)
StoreGlobalSetting ==
    /\ Ready /\ mode = "idle"
    /\ \E command \in StoreCommands :
        IF StoreRefused(command[1], command[2]) THEN Refuse("error", <<>>)
        ELSE /\ settings' = StoredSettings(command[1], command[2])
             /\ pending' = WriteGlobal(settings')
             /\ Answer("ok")
             /\ UNCHANGED machineVars
    /\ ops' = ops + 1
    /\ UNCHANGED <<eeprom, pc, crashes, faults>>

(* mc_reset, whose reset brings the program back to the loop of main. *)
Restart == /\ pc' = "gc_init"
           /\ UNCHANGED <<mode, gc, machine>>
           /\ pins' = PinsOff

(* $RST= restores and forces a reset. *)
RestoreCommand ==
    /\ Ready /\ mode = "idle"
    /\ \E what \in {"$", "#", "*"} :
        /\ settings' = RestoredSettings(what)
        /\ pending' = RestoreWrites(what)
    /\ Restart
    /\ Answer("ok")
    /\ ops' = ops + 1
    /\ UNCHANGED <<eeprom, crashes, faults>>

(* $C: on from idle, off by a reset. *)
CheckCommand ==
    /\ Ready
    /\ IF mode = "idle"
       THEN mode' = "check" /\ UNCHANGED <<pc, gc, machine, pins>>
       ELSE Restart
    /\ Answer("ok")
    /\ ops' = ops + 1
    /\ UNCHANGED <<eeprom, pending, settings, crashes, faults>>

(* A reset from outside, with nothing moving. *)
Reset ==
    /\ Ready
    /\ Restart
    /\ Answer("none")
    /\ ops' = ops + 1
    /\ UNCHANGED <<eeprom, pending, settings, crashes, faults>>

-----------------------------------------------------------------------------
(* The environment *)

WriteByte ==
    /\ EepromByte
    /\ UNCHANGED <<settings, pc, machineVars, reply, programmed, ops, crashes, faults>>

(* RAM is lost, the bytes not yet written are lost; where the machine     *)
(* stands is its origin from now on. Only failures that cut a command or  *)
(* the start-up short are tried: between commands nothing is lost that a  *)
(* reset does not lose.                                                   *)
PowerFailure ==
    /\ crashes + faults < MaxTroubles /\ pending # <<>>
    /\ crashes' = crashes + 1
    /\ pending' = <<>> /\ pc' = "settings_init" /\ mode' = "idle"
    /\ settings' = Defaults /\ machine' = ZeroVector /\ pins' = PinsOff
    /\ gc' = [ClearedParser(ZeroVector) EXCEPT !.position = ZeroVector]
    /\ Answer("none")
    /\ UNCHANGED <<eeprom, ops, faults>>

(* The checksum byte of a record reads as erased. *)
Wear ==
    /\ crashes + faults < MaxTroubles /\ pc = "ready" /\ pending = <<>>
    /\ faults' = faults + 1
    /\ \E r \in Parameters :
        /\ eeprom[r][RecordSize + 1] # ByteMod - 1
        /\ eeprom' = [eeprom EXCEPT ![r][RecordSize + 1] = ByteMod - 1]
    /\ UNCHANGED <<pending, settings, pc, machineVars, reply, programmed, ops, crashes>>

Next == \/ SettingsInit \/ GcInit
        \/ Line
        \/ StoreGlobalSetting \/ RestoreCommand \/ CheckCommand \/ Reset
        \/ WriteByte \/ PowerFailure \/ Wear

Spec == Init /\ [][Next]_vars
=============================================================================
