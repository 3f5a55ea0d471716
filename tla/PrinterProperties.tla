------------------------- MODULE PrinterProperties -------------------------
(***************************************************************************)
(* What the BodyPrinter sketch keeps between its script, its operator and  *)
(* the machine, and the instance on which TLC checks it.                   *)
(***************************************************************************)
EXTENDS Printer

Line(g, to) == [g |-> g, to |-> to]

(* A move, a stroke, a stroke too short to be sent, an arc and a move; a   *)
(* file that starts with a height only, and one without a G.               *)
MCFiles == {<<Line("G0", 4), Line("G1", 0), Line(Null, 1), Line("G0", 4)>>,
            <<Line("G0", 2), Line("arc", 6), Line("G0", 0)>>,
            <<Line("G0", Null), Line("G1", 4)>>,
            <<Line(Null, 4)>>}
MCPoints == -3 .. 9
MCGrid == 0 .. 6

(* The pump runs only while a stroke is made or when the operator switched *)
(* it on, and, unless he did, suction is never on with it.  The script     *)
(* draws the paths to draw and moves along the others, unless the operator *)
(* changed that; and an arc turns about its own center, unless the script  *)
(* was stopped or the position reset in the middle of one, or a right      *)
(* click moved the machine there (BodyPrinter.pde:219 sets tip, not pos).  *)
FlowFollowsScript ==
  /\ at # "dead" /\ pump => byHand
  /\ ~spoiled /\ ~(pump /\ suction)
  /\ at \in {"line", "circle"} /\ scriptDraw /\ ~scriptLine /\ ~meddled =>
       stateDraw = ~drawing
  /\ at = "circle" => fresh \/ cut

(* The position the sketch works with is where the machine is, but for the *)
(* last pixels of every target that was too near to be sent; unless INIT   *)
(* forgot the position, or a line or click followed a jog, which leaves    *)
(* Grbl in relative mode.  From the press of START, a right click or the   *)
(* beginning of an arc on, the script's positions are absolute again.      *)
TipIsNozzle ==
  at # "dead" /\ ~astray => nozzle - tip \in -Step * silent .. Step * silent
=============================================================================
