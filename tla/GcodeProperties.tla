-------------------------- MODULE GcodeProperties ---------------------------
(***************************************************************************)
(* What the g-code parser and the store promise together, and the instance *)
(* TLC checks.                                                             *)
(***************************************************************************)
EXTENDS Gcode

Coordinates == -MaxCoord .. MaxCoord
Vectors == [Axes -> Int]
Statuses == {"none", "ok", "error", "readfail"}

(* Every variable has its type; the modal group of each mode is its own.   *)
TypeOK ==
    /\ DOMAIN eeprom = Records
    /\ \A r \in Records : Range(eeprom[r]) \subseteq Byte
    /\ \A i \in DOMAIN pending : pending[i].byte \in Byte
    /\ pc \in {"settings_init", "gc_init", "ready"}
    /\ mode \in {"idle", "check"} /\ reply \in Statuses
    /\ \A g \in DOMAIN gc.modal :
         gc.modal[g] \in Group[g] \cup {InitialModal[g]}
    /\ gc.position \in Vectors /\ gc.system \in Vectors
    /\ gc.offset \in Vectors /\ machine \in Vectors

Settled == pc = "ready" /\ pending = <<>>

(* After any line, g-code or not, the parser's idea of the position is    *)
(* where the queued motions end (gcode.c:1026 copies the target after     *)
(* every kind of motion, mc_probe_cycle moves the target it is given, and *)
(* gc_sync_position repairs it at start-up); in check mode nothing moves. *)
PositionIsMachine == Settled /\ mode = "idle" => gc.position = machine

(* The vector in use is the one stored for the selected system, through   *)
(* G54-G59, G10, program end, $RST, resets and power failures in the      *)
(* middle of a write, as long as no byte goes bad. Check mode's program   *)
(* end selects G54 without loading it (gcode.c:1059), so it is excepted.  *)
ActiveSystemIsStored ==
    Settled /\ mode = "idle" /\ faults = 0 =>
        gc.system = ReadCoordData(eeprom, gc.modal.system).data

(* The stored settings are the ones in use, and soft limits are never on  *)
(* without homing, whatever is cut short (settings.c:176-274): torn       *)
(* records are either refused, and the defaults stored, or taken over.    *)
SettingsAreStored ==
    Settled => /\ GlobalReadable(eeprom)
               /\ settings = DecodeSettings(Data(eeprom, "global"))
               /\ settings.soft => settings.homing

(* The outputs are what the modes and the speed ask for (gcode.c:854-877), *)
(* as long as no byte of the store goes bad: a program end that cannot     *)
(* read G54 resets the modes and leaves the outputs on (gcode.c:1060).     *)
PinsFollowModes ==
    Settled /\ mode = "idle" /\ faults = 0 =>
        /\ pins.spindle = SpindleOutput(gc.modal.spindle, gc.speed)
        /\ pins.flood = gc.modal.coolant

(* The work position as report.c prints it. *)
WorkPosition(a) == gc.position[a] - (gc.system[a] + gc.offset[a])
                     - (IF a = ToolAxis THEN gc.tlo ELSE 0)

(* An accepted absolute motion, G92 or G10 L20 leaves the reported work   *)
(* position at the value the line named, whatever offsets were active     *)
(* before it: three conversions of gcode.c (542-614) against one of       *)
(* report.c (463).                                                        *)
WorkPositionIsProgrammed ==
    reply = "ok" => \A a \in DOMAIN programmed : WorkPosition(a) = programmed[a]

(* A refused line that leaves nothing behind: no mode, position or output, *)
(* and in the store only the record that could not be read.                *)
Refused == ops' # ops /\ reply' \in {"error", "readfail"}
Dropped == /\ UNCHANGED machineVars
           /\ \A i \in DOMAIN pending' : ~Intact(eeprom, pending'[i].record)

(* The one that does: a program end outside check mode that cannot read    *)
(* the record of G54. It has executed, has reset every mode of a program   *)
(* end, and left the outputs, whose stop comes after the read, as they     *)
(* were; its program flow stays at M2 (gcode.c:1060).                      *)
ProgramEndUnread ==
    /\ reply' = "readfail" /\ mode = "idle" /\ ~Intact(eeprom, Systems[1])
    /\ gc'.modal.flow = "M2" /\ gc'.modal = EndModal(gc'.modal)

(* A refused line is dropped, or it is a program end without its record.   *)
(* gcode.c:370 ("all commands and values in this block are dumped and will *)
(* not update the active system g-code modes") and gcode.c:835 ("no        *)
(* failure modes exist" from there on) promise the first for every line:   *)
(* the read of gcode.c:1060 fails after them, with the same status, and    *)
(* is the only failure that does.                                          *)
RejectedLineIsDropped == [][Refused => Dropped \/ ProgramEndUnread]_vars

(* A record that failed to be read is readable once the line is answered:  *)
(* the next attempt does not fail for it (settings.c:150). No record       *)
(* becomes unreadable, and those that were not are not even written, but   *)
(* for what a program end's own block stored before its read failed.       *)
ReadFailsOnce ==
    [][Refused /\ reply' = "readfail" =>
         LET after == Written(eeprom, pending')
         IN  /\ \E r \in Parameters : ~Intact(eeprom, r) /\ Intact(after, r)
             /\ \A r \in Parameters : Intact(eeprom, r) =>
                  /\ Intact(after, r)
                  /\ after[r] = eeprom[r] \/ ProgramEndUnread]_vars

-----------------------------------------------------------------------------
(* The instance *)

C(word) == [w |-> word, v |-> 0]
V(letter, value) == [w |-> letter, v |-> value]

MCSystems == <<"G54", "G55">>
MCStoreCommands == {<<20, 1>>, <<20, 0>>, <<22, 1>>, <<22, 0>>, <<100, 2>>, <<27, -1>>, <<27, 2>>}

ModeLines == {<<C("G20")>>, <<C("G91")>>, <<C("G93")>>, <<C("G80")>>, <<C("G55")>>,
              <<C("G54")>>, <<C("G18"), C("G40"), C("G61"), C("G91.1"), C("M1")>>}
MotionLines ==
    {<<C("G0"), V("X", 1)>>, <<C("G1"), V("Z", 1), V("F", 1)>>,
     <<V("Z", 1), V("F", 2)>>, <<C("G53"), V("X", 0)>>,
     <<C("G2"), V("X", 1), V("R", 1)>>, <<C("G3"), V("X", 1), V("I", 1), V("F", 1)>>,
     <<C("G38.2"), V("Z", -1), V("F", 1)>>, <<C("G28")>>, <<C("G30"), V("Z", 1)>>,
     <<C("G55"), C("G0"), V("X", -1)>>}
OffsetLines ==
    {<<C("G10"), V("L", 2), V("P", 2), V("X", 1)>>, <<C("G10"), V("L", 2), V("P", 1), V("Z", 1)>>,
     <<C("G10"), V("L", 20), V("Z", 1)>>, <<C("G10"), V("P", 1), V("X", 1)>>,
     <<C("G92"), V("Z", 1)>>, <<C("G92.1")>>, <<C("G28.1")>>, <<C("G30.1"), V("X", 1)>>,
     <<C("G43.1"), V("Z", 1)>>, <<C("G49")>>,
     <<C("G10"), V("L", 2), V("P", 1), V("X", 1), C("M2")>>,
     <<C("G10"), V("L", 2), V("P", 2), V("X", 1), C("M2")>>}
OutputLines ==
    {<<C("M3"), V("S", 1)>>, <<V("S", 2)>>, <<C("M5"), C("M8")>>, <<C("M2")>>, <<C("M0")>>,
     <<C("G4"), V("P", 0)>>, <<C("M4"), V("S", 0)>>}
WrongLines ==
    {<<C("G0"), C("G28"), V("X", 1)>>, <<C("G90"), C("G91")>>, <<V("X", 1), V("X", 1)>>,
     <<V("F", -1)>>, <<C("M3"), V("P", 1)>>, <<C("G5")>>, <<C("G43.1"), V("X", 1)>>,
     <<C("G10"), V("L", 2), V("P", 3), V("X", 1)>>}
MCLines == ModeLines \cup MotionLines \cup OffsetLines \cup OutputLines \cup WrongLines
=============================================================================
