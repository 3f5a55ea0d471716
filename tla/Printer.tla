------------------------------ MODULE Printer ------------------------------
(***************************************************************************)
(* The BodyPrinter control application: a Processing sketch that plays a   *)
(* g-code file to Grbl step by step, while its operator presses buttons,   *)
(* keys and the mouse.  The animation thread calls draw() and, between two *)
(* calls, the handlers; a file is loaded by a thread of its own.           *)
(*                                                                         *)
(* Positions are pixels along one axis, and a step is Step of them.  An    *)
(* arc wanders from one position to one a step away.  Grbl executes the    *)
(* lines of the sketch in the order they are sent.                         *)
(***************************************************************************)
EXTENDS Integers, Sequences

CONSTANTS
  Points,       \* the positions the sketch and the machine can be at,
  Grid,         \* those the calibration grid has a height for,
  MousePoints,  \* and those the operator points at
  Step, JogStep,
  Files,        \* sequences of lines [g, to], either part may be Null
  Null,
  MaxPaths, MaxOps  \* bounds: length of paths, operations of the operator

ASSUME PrinterAssumption ==
  /\ Points \subseteq Int /\ 0 \in Points
  /\ Grid \subseteq Points /\ MousePoints \subseteq Points
  /\ Step \in Nat \ {0} /\ JogStep \in Nat \ {0}
  /\ Files \subseteq Seq([g : {"G0", "G1", "arc", Null}, to : Points \cup {Null}])

VARIABLES
  at,         \* where draw() is: "idle" between two calls, "dead" after an
              \* uncaught exception
  scriptDraw, scriptLine, order, paths,
  stateDraw,  \* TRUE to move, FALSE to draw
  arc,        \* g2 or g3
  countG3,    \* countG3 > 0
  fresh,      \* pos is the vector from the arc's center to tip
  countDraw, countG0, changeG0, mouseCount,   \* each of them > 0
  tip, target, pause,
  loadtriger, dialog, loading, modal,  \* the loader: what is left of the
              \* file, and the words in force
  (* Grbl. *)
  nozzle,     \* its position
  absolute,   \* G90
  pump,       \* M4
  suction,    \* M8
  (* Histories. *)
  ops,        \* operations so far
  drawing,    \* the path in execution is one to draw
  meddled,    \* the operator set stateDraw since it began
  cut,        \* START, INIT or HOME was pressed, or a right click made, in
              \* the middle of an arc
  byHand,     \* PUMPON was pressed since the last M5
  spoiled,    \* suction and pump on at once, the pump not by hand
  jogged,     \* a button or key jogged the machine, and since then START was
              \* not pressed, no right click made and no arc begun
  astray,     \* the sketch's position is not the machine's
  silent      \* targets reached without a motion since the last motion

script  == <<scriptDraw, scriptLine, order>>
position == <<tip, target>>
arcs    == <<arc, countG3, fresh>>
counts  == <<countDraw, countG0, changeG0>>
loader  == <<loadtriger, dialog, loading, modal>>
grbl    == <<nozzle, absolute, pump, suction>>
flow    == <<pump, suction, byHand, spoiled>>
motion  == <<nozzle, absolute, jogged, astray, silent>>
path    == <<drawing, meddled, cut>>
vars == <<at, script, paths, stateDraw, arcs, counts, mouseCount, position, pause,
          loader, grbl, ops, path, byHand, spoiled, jogged, astray, silent>>

-----------------------------------------------------------------------------
(* Lines to Grbl.                                                          *)

PumpOff == pump' = FALSE /\ byHand' = FALSE                        \* M5

(* M9 and M4; M9, M4 and M5.                                               *)
Inject == pump' = TRUE /\ suction' = FALSE /\ UNCHANGED <<byHand, spoiled>>
InjectAndStop == PumpOff /\ suction' = FALSE /\ UNCHANGED spoiled

(* M8, a delay and M9, with the pump as it is.                             *)
Suck(on, hand) == suction' = FALSE /\ spoiled' = (spoiled \/ (on /\ ~hand))

(* A position, in the mode Grbl is in.                                     *)
GoTo(p) ==
  /\ nozzle' = IF absolute THEN p ELSE nozzle + p
  /\ nozzle' \in Points
  /\ astray' = jogged /\ silent' = IF jogged THEN silent ELSE 0
  /\ UNCHANGED <<absolute, jogged>>

(* The same after a G90, and goOrigin().                                   *)
GoToAbsolute(p) ==
  /\ nozzle' = p /\ absolute' = TRUE
  /\ jogged' = FALSE /\ astray' = FALSE /\ silent' = 0

GoOrigin ==
  /\ nozzle' = 0 /\ astray' = FALSE /\ silent' = 0
  /\ UNCHANGED <<absolute, jogged>>

-----------------------------------------------------------------------------
(* setup().  It may call every button's handler once: suction stays on.    *)
Init ==
  /\ at = "idle" /\ scriptDraw = FALSE /\ scriptLine = TRUE
  /\ order = 0 /\ paths = <<>>
  /\ stateDraw = TRUE /\ arc = FALSE /\ countG3 = FALSE /\ fresh = FALSE
  /\ countDraw = FALSE /\ countG0 = FALSE /\ changeG0 = FALSE
  /\ mouseCount = FALSE /\ tip = 0 /\ target = 0 /\ pause = FALSE
  /\ loadtriger = FALSE /\ dialog = "closed" /\ loading = <<>>
  /\ modal = [g |-> Null, to |-> Null]
  /\ nozzle = 0 /\ absolute = TRUE /\ pump = FALSE /\ suction \in BOOLEAN
  /\ ops = 0 /\ drawing = FALSE /\ meddled = FALSE /\ cut = FALSE
  /\ byHand = FALSE /\ spoiled = FALSE /\ jogged = FALSE /\ astray = FALSE /\ silent = 0

(* draw() takes the script's branch, or drives to the target.              *)
Frame ==
  /\ at = "idle"
  /\ at' = IF pause THEN "show"
           ELSE IF scriptDraw
             THEN IF scriptLine THEN "gcode" ELSE IF arc THEN "arc" ELSE "line"
           ELSE IF target # tip THEN "line" ELSE "show"
  /\ scriptLine' = (scriptLine /\ at' # "gcode")
  /\ UNCHANGED <<scriptDraw, order, paths, stateDraw, arcs, counts, mouseCount,
                 position, pause, loader, flow, ops, path, motion>>

(* gcode() up to the target: a path that is not there, or has no position, *)
(* is an exception.                                                        *)
BeginMove ==
  /\ stateDraw' = TRUE
  /\ IF stateDraw THEN UNCHANGED <<pump, byHand>> ELSE PumpOff
  /\ IF changeG0 /\ ~countG0
       THEN Suck(pump', byHand') /\ countG0' = TRUE
       ELSE UNCHANGED <<suction, spoiled, countG0>>
  /\ UNCHANGED changeG0

BeginDraw ==
  /\ stateDraw' = FALSE
  /\ IF stateDraw
       THEN suction' = FALSE /\ changeG0' = TRUE /\ countG0' = FALSE
       ELSE UNCHANGED <<suction, changeG0, countG0>>
  /\ UNCHANGED <<pump, byHand, spoiled>>

NoSuchPath ==
  /\ at = "gcode" /\ order >= Len(paths)
  /\ at' = "dead"
  /\ UNCHANGED <<script, paths, stateDraw, arcs, counts, mouseCount, position,
                 pause, loader, flow, ops, path, motion>>

Interpret ==
  /\ at = "gcode" /\ order < Len(paths)
  /\ LET current == paths[order + 1]
     IN  /\ IF current.g = "G0" THEN BeginMove ELSE BeginDraw
         /\ drawing' = (current.g # "G0") /\ meddled' = FALSE
         /\ arc' = (current.g = "arc")
         /\ IF current.to = Null
              THEN at' = "dead" /\ UNCHANGED <<target, fresh>>
              ELSE /\ at' = "order" /\ target' = current.to
                   /\ fresh' = (fresh /\ ~arc')
  /\ UNCHANGED <<script, paths, countG3, countDraw, mouseCount, tip, pause,
                 loader, ops, cut, motion>>

(* The rest of it: the file may have changed meanwhile.  The last path is  *)
(* not executed: the machine goes home and sucks.                          *)
Advance ==
  /\ at = "order" /\ order # Len(paths) - 1
  /\ order' = IF order < Len(paths) - 1 THEN order + 1 ELSE order
  /\ at' = IF arc THEN "arc" ELSE "line"
  /\ UNCHANGED <<scriptDraw, scriptLine, paths, stateDraw, arcs, counts,
                 mouseCount, position, pause, loader, flow, ops, path, motion>>

EndScript ==
  /\ at = "order" /\ order = Len(paths) - 1
  /\ order' = 0 /\ scriptDraw' = FALSE
  /\ tip' = 0 /\ target' = 0
  /\ fresh' = (fresh /\ tip = 0)
  /\ countG0' = FALSE /\ changeG0' = FALSE
  /\ GoOrigin /\ Suck(pump, byHand)
  /\ at' = IF arc THEN "arc" ELSE "line"
  /\ UNCHANGED <<scriptLine, paths, stateDraw, arc, countG3, countDraw, mouseCount,
                 pause, loader, pump, byHand, ops, path>>

(* drawingLine(): a step that paste is injected for, or not, or a move.    *)
Near(p, q) == p - q \in -Step .. Step
Toward == IF target > tip THEN tip + Step ELSE tip - Step

AfterStrokeOn == pump' \in {pump, TRUE} /\ UNCHANGED byHand         \* mutant
AfterStroke == PumpOff

StrokeStep ==
  /\ at = "line" /\ ~Near(target, tip) /\ ~stateDraw
  /\ tip \in Grid
  /\ countDraw' = TRUE
  /\ (suction' = FALSE \/ (countDraw /\ UNCHANGED suction)) /\ AfterStroke
  /\ UNCHANGED spoiled
  /\ tip' = Toward /\ GoTo(Toward)
  /\ fresh' = FALSE /\ at' = "show"
  /\ UNCHANGED <<script, paths, stateDraw, arc, countG3, countG0, changeG0,
                 mouseCount, target, pause, loader, ops, path>>

(* No height for this tip: the paste may be flowing.                       *)
StrokeFails ==
  /\ at = "line" /\ ~Near(target, tip) /\ ~stateDraw
  /\ tip \notin Grid
  /\ countDraw' = TRUE /\ at' = "dead"
  /\ IF countDraw THEN Inject \/ UNCHANGED flow ELSE InjectAndStop
  /\ UNCHANGED <<script, paths, stateDraw, arcs, countG0, changeG0, mouseCount,
                 position, pause, loader, ops, path, motion>>

MoveStep ==
  /\ at = "line" /\ ~Near(target, tip) /\ stateDraw
  /\ countDraw' = FALSE
  /\ tip' = Toward /\ GoTo(Toward)
  /\ fresh' = FALSE /\ at' = "show"
  /\ UNCHANGED <<script, paths, stateDraw, arc, countG3, countG0, changeG0,
                 mouseCount, target, pause, loader, flow, ops, path>>

(* The last pixels are not sent, and pos stays behind.                     *)
LineDone ==
  /\ at = "line" /\ Near(target, tip)
  /\ tip' = target /\ scriptLine' = TRUE /\ at' = "show"
  /\ fresh' = (fresh /\ tip = target)
  /\ silent' = IF tip = target THEN silent ELSE silent + 1
  /\ UNCHANGED <<scriptDraw, order, paths, stateDraw, arc, countG3, counts,
                 mouseCount, target, pause, loader, flow, ops, path,
                 nozzle, absolute, jogged, astray>>

(* displayTip() reads the height at the tip and every path's position.     *)
Displays == tip \in Grid /\ \A i \in DOMAIN paths : paths[i].to # Null

(* The first step of an arc, or one after: countG3 is reset at its end.    *)
ArcBegins ==
  /\ at = "arc"
  /\ IF countG3 THEN UNCHANGED <<fresh, absolute, jogged, cut>>
     ELSE fresh' = TRUE /\ absolute' = TRUE /\ jogged' = FALSE /\ cut' = FALSE
  /\ countG3' = TRUE
  /\ at' = IF Displays THEN "circle" ELSE "dead"
  /\ UNCHANGED <<script, paths, stateDraw, arc, counts, mouseCount, position, pause,
                 loader, flow, ops, drawing, meddled, nozzle, astray, silent>>

(* drawingCircle(): tip = center + pos.                                    *)
ArcPoints == IF fresh THEN {p \in Points : Near(p, tip)} ELSE Points

ArcStep ==
  /\ at = "circle" /\ ~Near(target, tip)
  /\ \E p \in ArcPoints :
       /\ tip' = p
       /\ IF stateDraw
            THEN /\ GoToAbsolute(p) /\ at' = "drag"
                 /\ UNCHANGED <<flow, countDraw>>
          ELSE IF p \in Grid
            THEN /\ GoToAbsolute(p) /\ at' = "drag" /\ AfterStroke
                 /\ (suction' = FALSE \/ (countDraw /\ UNCHANGED suction))
                 /\ countDraw' = TRUE /\ UNCHANGED spoiled
          ELSE /\ at' = "dead" /\ countDraw' = TRUE
               /\ Inject \/ (countDraw /\ UNCHANGED flow)
               /\ UNCHANGED motion
  /\ UNCHANGED <<script, paths, stateDraw, arcs, countG0, changeG0, mouseCount,
                 target, pause, loader, ops, path>>

ArcDone ==
  /\ at = "circle" /\ Near(target, tip)
  /\ scriptLine' = TRUE /\ countG3' = FALSE /\ at' = "drag"
  /\ UNCHANGED <<scriptDraw, order, paths, stateDraw, arc, fresh, counts, mouseCount,
                 position, pause, loader, flow, ops, path, motion>>

Show ==
  /\ at = "show"
  /\ at' = IF ~Displays THEN "dead" ELSE IF pause THEN "idle" ELSE "drag"
  /\ UNCHANGED <<script, paths, stateDraw, arcs, counts, mouseCount, position, pause,
                 loader, flow, ops, path, motion>>

(* The end of draw(): the mouse, held down in the drawing area, adds paths.*)
NoDrag ==
  /\ at = "drag"
  /\ at' = "idle" /\ mouseCount' \in {FALSE, mouseCount}
  /\ UNCHANGED <<script, paths, stateDraw, arcs, counts, position, pause,
                 loader, flow, ops, path, motion>>

Drag ==
  /\ at = "drag" /\ ~stateDraw /\ ops < MaxOps /\ ops' = ops + 1
  /\ mouseCount' = TRUE
  /\ IF mouseCount /\ (paths = <<>> \/ paths[Len(paths)].to = Null)
       THEN at' = "dead" /\ UNCHANGED paths
     ELSE /\ at' = "idle"
          /\ \E p, q \in MousePoints :
               paths' = IF ~mouseCount
                          THEN paths \o <<[g |-> "G0", to |-> p], [g |-> "G1", to |-> q]>>
                        ELSE IF Near(q, paths[Len(paths)].to)
                          THEN paths
                        ELSE Append(paths, [g |-> "G1", to |-> q])
  /\ Len(paths') <= MaxPaths
  /\ UNCHANGED <<script, stateDraw, arcs, counts, position, pause,
                 loader, flow, path, motion>>

-----------------------------------------------------------------------------
(* The operator, between two frames.                                       *)
Operates == at = "idle" /\ ops < MaxOps /\ ops' = ops + 1 /\ UNCHANGED at

(* UP, DOWN, LEFT, RIGHT; ZUP, ZDW and the keys that calibrate, by 0.      *)
Jog ==
  /\ Operates
  /\ \E d \in {-JogStep, 0, JogStep} :
       /\ nozzle' = nozzle + d /\ tip' = tip + d /\ target' = target + d
       /\ {nozzle', tip', target'} \subseteq Points
  /\ absolute' = FALSE /\ jogged' = TRUE
  /\ UNCHANGED <<script, paths, stateDraw, arcs, counts, mouseCount, pause, loader,
                 flow, path, astray, silent>>

(* The left button sets a target, the right one goes to a point of the     *)
(* grid at once: tip follows, pos does not.                                *)
LeftClick ==
  /\ Operates /\ stateDraw
  /\ \E p \in MousePoints : target' = p
  /\ UNCHANGED <<script, paths, stateDraw, arcs, counts, mouseCount, tip, pause,
                 loader, flow, path, motion>>

RightClick ==
  /\ Operates
  /\ \E p \in MousePoints : target' = p /\ tip' = p /\ GoToAbsolute(p)
  /\ fresh' = (fresh /\ tip' = tip) /\ cut' = (cut \/ countG3)
  /\ UNCHANGED <<script, paths, stateDraw, arc, countG3, counts, mouseCount, pause,
                 loader, flow, drawing, meddled>>

PosInit ==
  /\ tip' = 0 /\ target' = 0 /\ fresh' = FALSE
  /\ stateDraw' = TRUE /\ meddled' = TRUE /\ cut' = (cut \/ countG3)

(* INIT forgets the paths; it does not move.                               *)
INIT ==
  /\ Operates /\ PosInit
  /\ paths' = <<>> /\ astray' = TRUE
  /\ UNCHANGED <<script, arc, countG3, counts, mouseCount, pause, loader, flow,
                 drawing, nozzle, absolute, jogged, silent>>

HOME ==
  /\ Operates /\ PosInit /\ GoOrigin
  /\ UNCHANGED <<script, paths, arc, countG3, counts, mouseCount, pause, loader, flow,
                 drawing>>

DRAW ==
  /\ Operates
  /\ stateDraw' = ~stateDraw /\ meddled' = TRUE
  /\ UNCHANGED <<script, paths, arcs, counts, mouseCount, position, pause, loader,
                 flow, drawing, cut, motion>>

PUMPON ==
  /\ Operates
  /\ pump' = TRUE /\ suction' = FALSE /\ byHand' = TRUE
  /\ UNCHANGED <<script, paths, stateDraw, arcs, counts, mouseCount, position, pause,
                 loader, path, spoiled, motion>>

PUMPOFF ==
  /\ Operates
  /\ PumpOff /\ suction' = FALSE
  /\ UNCHANGED <<script, paths, stateDraw, arcs, counts, mouseCount, position, pause,
                 loader, path, spoiled, motion>>

PUMPSUCKTION ==
  /\ Operates
  /\ PumpOff /\ suction' = TRUE
  /\ UNCHANGED <<script, paths, stateDraw, arcs, counts, mouseCount, position, pause,
                 loader, path, spoiled, motion>>

(* Mutant of START: the button sends no G90.                               *)
STARTInAnyMode ==
  /\ Operates
  /\ scriptDraw' = ~scriptDraw
  /\ jogged' = FALSE
  /\ cut' = (cut \/ countG3)
  /\ UNCHANGED <<scriptLine, order, paths, stateDraw, arcs, counts, mouseCount,
                 position, pause, loader, flow, drawing, meddled, nozzle, absolute,
                 astray, silent>>

START ==
  /\ Operates
  /\ scriptDraw' = ~scriptDraw
  /\ absolute' = TRUE /\ jogged' = FALSE
  /\ cut' = (cut \/ countG3)
  /\ UNCHANGED <<scriptLine, order, paths, stateDraw, arcs, counts, mouseCount,
                 position, pause, loader, flow, drawing, meddled, nozzle, astray, silent>>

(* Any key looks up the height at the tip.                                 *)
KeyFails ==
  /\ at = "idle" /\ tip \notin Grid /\ at' = "dead"
  /\ UNCHANGED <<script, paths, stateDraw, arcs, counts, mouseCount, position, pause,
                 loader, flow, ops, path, motion>>

(* The key "?".                                                            *)
Pause ==
  /\ Operates /\ tip \in Grid
  /\ pause' = ~pause
  /\ stateDraw' = (stateDraw \/ pause') /\ meddled' = (meddled \/ pause')
  /\ UNCHANGED <<script, paths, arcs, counts, mouseCount, position, loader, flow,
                 drawing, cut, motion>>

(* The first LOAD does nothing.  One dialog at a time.                     *)
LOAD ==
  /\ Operates /\ dialog = "closed"
  /\ loadtriger' = TRUE
  /\ dialog' = IF loadtriger THEN "open" ELSE dialog
  /\ UNCHANGED <<script, paths, stateDraw, arcs, counts, mouseCount, position, pause,
                 loading, modal, flow, path, motion>>

-----------------------------------------------------------------------------
(* fileSelected() and gcodeloader(), on a thread of their own.  Clearing   *)
(* the paths while draw() goes through them may be an exception there.     *)
FileSelected ==
  /\ dialog = "open" /\ at # "dead"
  /\ \E f \in Files : loading' = f
  /\ dialog' = "loading" /\ modal' = [g |-> Null, to |-> Null]
  /\ paths' = <<>>
  /\ at' \in {at} \cup
       IF at \in {"gcode", "show", "arc", "drag"} /\ paths # <<>> THEN {"dead"} ELSE {}
  /\ UNCHANGED <<script, stateDraw, arcs, counts, mouseCount, position, pause,
                 loadtriger, flow, ops, path, motion>>

(* A word a line does not have keeps its value; without a first G the      *)
(* thread ends in an exception.                                            *)
LoadLine ==
  /\ dialog = "loading" /\ at # "dead" /\ Len(paths) < MaxPaths
  /\ IF loading = <<>>
       THEN dialog' = "closed" /\ UNCHANGED <<loading, modal, paths>>
     ELSE /\ loading' = Tail(loading)
          /\ modal' = [w \in {"g", "to"} |->
                         IF Head(loading)[w] = Null THEN modal[w] ELSE Head(loading)[w]]
          /\ IF modal'.g = Null
               THEN dialog' = "closed" /\ UNCHANGED paths
               ELSE paths' = Append(paths, modal') /\ UNCHANGED dialog
  /\ UNCHANGED <<at, script, stateDraw, arcs, counts, mouseCount, position, pause,
                 loadtriger, flow, ops, path, motion>>

-----------------------------------------------------------------------------
Draw ==
  \/ Frame \/ NoSuchPath \/ Interpret \/ Advance \/ EndScript
  \/ StrokeStep \/ StrokeFails \/ MoveStep \/ LineDone
  \/ ArcBegins \/ ArcStep \/ ArcDone
  \/ Show \/ NoDrag \/ Drag

Operator ==
  \/ Jog \/ LeftClick \/ RightClick \/ INIT \/ HOME \/ DRAW
  \/ PUMPON \/ PUMPOFF \/ PUMPSUCKTION \/ START
  \/ KeyFails \/ Pause \/ LOAD

Next == Draw \/ Operator \/ FileSelected \/ LoadLine

Spec == Init /\ [][Next]_vars
=============================================================================
