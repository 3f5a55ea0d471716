----------------------------- MODULE GcodeBlock -----------------------------
(***************************************************************************)
(* The pure part of gc_execute_line: a line, a sequence of words, is       *)
(* parsed into a block, the block is checked and its values are converted  *)
(* (steps 1 to 3 of gcode.c). `gc' is the parser state, a record:          *)
(*   modal      the active word of every modal group                       *)
(*   feed, speed                         the modal F and S                 *)
(*   position                            in machine coordinates            *)
(*   system     the active work coordinate system's vector                 *)
(*   offset     the G92 offset           tlo    the tool length offset     *)
(* A word is [w |-> command, v |-> 0] or [w |-> letter, v |-> value]; the  *)
(* text of a number and the code of an error are left out, and so is       *)
(* whether an arc's radius fits its end points, a boolean the caller picks *)
(***************************************************************************)
EXTENDS Settings

CONSTANTS MmPerInch
ASSUME MmPerInchAssumption == MmPerInch \in Nat

ToolAxis == "Z"
Motions == {"G0", "G1", "G2", "G3", "G38.2", "G38.3", "G38.4", "G38.5", "G80"}
Arcs == {"G2", "G3"}
Probes == {"G38.2", "G38.3", "G38.4", "G38.5"}
AxisNonModal == {"G10", "G28", "G30", "G92"}
NonModal == AxisNonModal \cup {"G4", "G28.1", "G30.1", "G53", "G92.1"}

(* The words of each modal group. *)
Group ==
    [motion |-> Motions, plane |-> {"G17", "G18", "G19"},
     distance |-> {"G90", "G91"}, arcDistance |-> {"G91.1"},
     feed |-> {"G93", "G94"}, units |-> {"G20", "G21"}, cutter |-> {"G40"},
     length |-> {"G43.1", "G49"}, system |-> Range(Systems), path |-> {"G61"},
     flow |-> {"M0", "M1", "M2", "M30"}, spindle |-> {"M3", "M4", "M5"},
     coolant |-> {"M8", "M9"}, nonmodal |-> NonModal]

Commands == UNION Range(Group)
GroupOf(word) == CHOOSE g \in DOMAIN Group : word \in Group[g]
Letters == {"F", "I", "J", "K", "L", "N", "P", "R", "S", "T", "X", "Y", "Z"}
NonNegative == {"F", "N", "P", "T", "S"}

InitialModal ==
    [motion |-> "G0", plane |-> "G17", distance |-> "G90", feed |-> "G94",
     units |-> "G21", length |-> "G49", system |-> Systems[1], flow |-> "run",
     spindle |-> "M5", coolant |-> "M9"]

-----------------------------------------------------------------------------
(* Step 2: the words of the line, one by one *)

NewBlock(gc) ==
    [fault |-> FALSE, modal |-> gc.modal, nonModal |-> "none", axis |-> "none",
     groups |-> {}, vals |-> <<>>]

(* The kind of axis command a word is: at most one of them in a block. *)
AxisCommandOf(word) ==
    CASE word \in AxisNonModal -> "nonmodal"
      [] word \in Motions \ {"G80"} -> "motion"
      [] word \in Group.length -> "length"
      [] OTHER -> "none"

(* M1 sets no mode and M30 is M2. *)
SetModal(modal, word) ==
    LET g == GroupOf(word)
    IN  IF g \notin DOMAIN modal \/ word = "M1" THEN modal
        ELSE [modal EXCEPT ![g] = IF word = "M30" THEN "M2" ELSE word]

ParseCommand(b, word) ==
    LET axis == AxisCommandOf(word)
        g    == GroupOf(word)
    IN  [b EXCEPT !.fault = (axis # "none" /\ b.axis # "none") \/ g \in b.groups,
                  !.modal = SetModal(b.modal, word),
                  !.nonModal = IF g = "nonmodal" THEN word ELSE @,
                  !.axis = IF axis # "none" THEN axis ELSE @,
                  !.groups = @ \cup {g}]

ParseValue(b, letter, value) ==
    [b EXCEPT !.fault = \/ letter \in DOMAIN b.vals
                        \/ letter \in NonNegative /\ value < 0,
              !.vals = [l \in DOMAIN @ \cup {letter} |->
                          IF l = letter THEN value ELSE @[l]]]

ParseWord(b, word) ==
    IF b.fault THEN b
    ELSE IF word.w \in Commands THEN ParseCommand(b, word.w)
    ELSE IF word.w \in Letters THEN ParseValue(b, word.w, word.v)
    ELSE [b EXCEPT !.fault = TRUE]

AxisWords(b) == DOMAIN b.vals \cap Axes

(* Axis words without an axis command are meant for the motion mode. *)
Parse(gc, line) ==
    LET read[k \in 0 .. Len(line)] ==
          IF k = 0 THEN NewBlock(gc) ELSE ParseWord(read[k - 1], line[k])
        b == read[Len(line)]
    IN  IF b.axis = "none" /\ AxisWords(b) # {} THEN [b EXCEPT !.axis = "motion"]
        ELSE b

-----------------------------------------------------------------------------
(* Step 3: error checks and conversions *)

Has(b, letter) == letter \in DOMAIN b.vals
Given(b, letter) == IF Has(b, letter) THEN b.vals[letter] ELSE 0
Scaled(b, value) == IF b.modal.units = "G20" THEN value * MmPerInch ELSE value
Coordinate(b, a) == Scaled(b, b.vals[a])
ToolOffset(gc, a) == IF a = ToolAxis THEN gc.tlo ELSE 0

(* F is kept from the last block, in mm, only within units-per-minute mode *)
Feed(gc, b) ==
    CASE b.modal.feed = "G94" /\ gc.modal.feed = "G94" /\ Has(b, "F") ->
                                                       Scaled(b, b.vals["F"])
      [] b.modal.feed = "G94" /\ gc.modal.feed = "G94" /\ ~Has(b, "F") -> gc.feed
      [] OTHER -> Given(b, "F")

Speed(gc, b) == IF Has(b, "S") THEN b.vals["S"] ELSE gc.speed

(* What is refused before the store is read. The inverse-time test is     *)
(* written to spare G0, and spares nothing.                               *)
EarlyFault(b) ==
    \/ b.fault
    \/ b.modal.feed = "G93" /\ b.axis = "motion" /\ ~Has(b, "F")
    \/ b.nonModal = "G4" /\ ~Has(b, "P")
    \/ b.axis = "length" /\ b.modal.length = "G43.1" /\ AxisWords(b) # {ToolAxis}

(* The vector of the block's coordinate system; read if it changes. *)
SystemRead(gc, b, mem) ==
    IF b.modal.system # gc.modal.system /\ "system" \in b.groups
    THEN ReadCoordData(mem, b.modal.system)
    ELSE [ok |-> TRUE, data |-> gc.system, writes |-> <<>>]

(* G10 with neither P nor L is refused, with one of the two it is not. *)
OffsetFault(b) ==
    \/ b.nonModal \in {"G10", "G92"} /\ AxisWords(b) = {}
    \/ /\ b.nonModal = "G10"
       /\ \/ ~Has(b, "P") /\ ~Has(b, "L")
          \/ Given(b, "P") > Len(Systems)
          \/ Given(b, "L") \notin {2, 20}
          \/ Given(b, "L") = 2 /\ Has(b, "R")

(* The record a non-modal command reads: P0 is the active system. *)
ParameterOf(b) ==
    CASE b.nonModal = "G10" -> IF Given(b, "P") > 0 THEN Systems[b.vals["P"]]
                               ELSE b.modal.system
      [] b.nonModal \in {"G28", "G30"} -> b.nonModal
      [] OTHER -> "none"

ParameterRead(b, mem) ==
    IF ParameterOf(b) = "none" THEN [ok |-> TRUE, data |-> ZeroVector, writes |-> <<>>]
    ELSE ReadCoordData(mem, ParameterOf(b))

(* The tool length is left out. *)
ChangedNoTool(gc, b, old) ==
    [a \in Axes |->
        IF a \notin AxisWords(b) THEN old[a]
        ELSE IF b.vals["L"] = 20 THEN gc.position[a] - gc.offset[a] - Coordinate(b, a)
        ELSE Coordinate(b, a)]

(* G10: L2 sets the named axes, L20 so that the tool stands at the value. *)
ChangedSystem(gc, b, old) ==
    [a \in Axes |->
        IF a \notin AxisWords(b) THEN old[a]
        ELSE IF b.vals["L"] = 20
        THEN gc.position[a] - gc.offset[a] - Coordinate(b, a) - ToolOffset(gc, a)
        ELSE Coordinate(b, a)]

(* G92 *)
ChangedOffset(gc, b, system) ==
    [a \in Axes |->
        IF a \notin AxisWords(b) THEN gc.offset[a]
        ELSE gc.position[a] - system[a] - Coordinate(b, a) - ToolOffset(gc, a)]

(* Where a motion goes, in machine coordinates. *)
Target(gc, b, system) ==
    [a \in Axes |->
        CASE a \notin AxisWords(b) -> gc.position[a]
          [] a \in AxisWords(b) /\ b.nonModal = "G53" -> Coordinate(b, a)
          [] a \in AxisWords(b) /\ b.nonModal # "G53" /\ b.modal.distance = "G90" ->
                Coordinate(b, a) + system[a] + gc.offset[a] + ToolOffset(gc, a)
          [] OTHER -> Coordinate(b, a) + gc.position[a]]

(* The axis command that is executed: without axis words G0, G1, G28 and  *)
(* G30 have none.                                                         *)
Executed(b) ==
    IF /\ AxisWords(b) = {}
       /\ \/ b.nonModal \in {"G28", "G30"}
          \/ b.axis = "motion" /\ b.modal.motion \in {"G0", "G1"}
    THEN "none" ELSE b.axis

PlaneAxes(b) == CASE b.modal.plane = "G17" -> {"X", "Y"}
                  [] b.modal.plane = "G18" -> {"Z", "X"}
                  [] b.modal.plane = "G19" -> {"Y", "Z"}
Centre == [X |-> "I", Y |-> "J", Z |-> "K"]

ArcFault(gc, b, target, fits) ==
    \/ AxisWords(b) \cap PlaneAxes(b) = {}
    \/ Has(b, "R") /\ target = gc.position
    \/ ~Has(b, "R") /\ \A a \in PlaneAxes(b) : ~Has(b, Centre[a])
    \/ ~fits

MotionFault(gc, b, target, fits) ==
    LET m == b.modal.motion
    IN  \/ b.nonModal = "G53" /\ m \notin {"G0", "G1"}
        \/ m = "G80" /\ AxisWords(b) # {} /\ b.axis # "nonmodal"
        \/ /\ b.axis = "motion"
           /\ m \notin {"G0", "G80"}
           /\ \/ Feed(gc, b) = 0
              \/ m \in Arcs /\ ArcFault(gc, b, target, fits)
              \/ m \in Probes /\ (AxisWords(b) = {} \/ target = gc.position)

(* Every value word must have been used by something. *)
UsedWords(b) ==
    {"N", "F", "S", "T"}
      \cup (IF b.nonModal = "G4" THEN {"P"} ELSE {})
      \cup (IF b.nonModal = "G10" THEN {"L", "P"} ELSE {})
      \cup (IF b.axis # "motion" \/ b.modal.motion \notin Arcs THEN {}
            ELSE IF Has(b, "R") THEN {"R"} ELSE {"I", "J", "K"})
      \cup (IF Executed(b) # "none" THEN Axes ELSE {})

LateFault(gc, b, target, fits) ==
    \/ MotionFault(gc, b, target, fits)
    \/ ~(DOMAIN b.vals \subseteq UsedWords(b))
=============================================================================
