---------------------------- MODULE PrinterProofs ----------------------------
(***************************************************************************)
(* Machine-checked proofs of the sketch's two properties, for every file,  *)
(* grid and step, any number of paths and any number of operations.        *)
(***************************************************************************)
EXTENDS PrinterProperties, TLAPS

-----------------------------------------------------------------------------
(* When paste may flow, and what is drawn.                                 *)

PumpInv ==
  /\ at # "dead" => (pump => byHand)
  /\ ~spoiled /\ ~(pump /\ suction)

(* From a path's interpretation to the next frame that interprets one.     *)
PathInv ==
  at \notin {"gcode", "dead"} /\ ~scriptLine /\ ~meddled => stateDraw = ~drawing

(* gcode() runs in a script only; an arc is turned in one, or is the last  *)
(* of a script that has just ended, which is over at once.                 *)
StageInv ==
  /\ at \in {"gcode", "order"} => scriptDraw /\ ~scriptLine
  /\ at = "arc" => arc /\ ~scriptLine /\ (scriptDraw \/ Near(target, tip))
  /\ at = "circle" => countG3

(* An arc that was not cut has its own vector, and nothing but its steps   *)
(* comes before its end.                                                   *)
ArcInv ==
  at # "dead" /\ countG3 /\ ~cut =>
    /\ fresh
    /\ \/ arc /\ scriptDraw /\ ~scriptLine /\ at \notin {"gcode", "order", "line"}
       \/ at = "circle" /\ Near(target, tip)

FlowInv == PumpInv /\ PathInv /\ StageInv /\ ArcInv

LEMMA NearSelf == Near(0, 0)
  BY PrinterAssumption DEF Near, PrinterAssumption

LEMMA FlowInit == Init => FlowInv
  BY DEF Init, FlowInv, PumpInv, PathInv, StageInv, ArcInv

LEMMA FlowStutter == FlowInv /\ UNCHANGED vars => FlowInv'
  BY DEF FlowInv, PumpInv, PathInv, StageInv, ArcInv, Near, vars, script,
         position, arcs, counts, loader, grbl, path

LEMMA FlowDraw == FlowInv /\ Draw => FlowInv'
<1> SUFFICES ASSUME FlowInv, Draw PROVE FlowInv'
  OBVIOUS
<1> USE DEF FlowInv, PumpInv, PathInv, StageInv, ArcInv, script, position, arcs,
            counts, loader, flow, motion, path
<1>1. CASE Frame
  BY <1>1 DEF Frame, Near
<1>2. CASE NoSuchPath
  BY <1>2 DEF NoSuchPath
<1>3. CASE Interpret
  BY <1>3 DEF Interpret, BeginMove, BeginDraw, PumpOff, Suck
<1>4. CASE Advance
  BY <1>4 DEF Advance
<1>5. CASE EndScript
  BY <1>5, NearSelf DEF EndScript, GoOrigin, Suck
<1>6. CASE StrokeStep
  BY <1>6 DEF StrokeStep, AfterStroke, PumpOff, GoTo
<1>7. CASE StrokeFails
  BY <1>7 DEF StrokeFails, Inject, InjectAndStop, PumpOff
<1>8. CASE MoveStep
  BY <1>8 DEF MoveStep, GoTo
<1>9. CASE LineDone
  BY <1>9 DEF LineDone
<1>10. CASE ArcBegins
  BY <1>10 DEF ArcBegins
<1>11. CASE ArcStep
  BY <1>11 DEF ArcStep, AfterStroke, PumpOff, Inject, GoToAbsolute
<1>12. CASE ArcDone
  BY <1>12 DEF ArcDone
<1>13. CASE Show
  BY <1>13 DEF Show, Near
<1>14. CASE NoDrag
  BY <1>14 DEF NoDrag, Near
<1>15. CASE Drag
  BY <1>15 DEF Drag
<1> QED
  BY <1>1, <1>2, <1>3, <1>4, <1>5, <1>6, <1>7, <1>8, <1>9, <1>10, <1>11, <1>12,
     <1>13, <1>14, <1>15 DEF Draw

LEMMA FlowOperator == FlowInv /\ Operator => FlowInv'
<1> SUFFICES ASSUME FlowInv, Operator PROVE FlowInv'
  OBVIOUS
<1> USE DEF FlowInv, PumpInv, PathInv, StageInv, ArcInv, script, position, arcs,
            counts, loader, flow, motion, path, Operates
<1>1. CASE Jog
  BY <1>1 DEF Jog
<1>2. CASE LeftClick
  BY <1>2 DEF LeftClick
<1>3. CASE RightClick
  BY <1>3 DEF RightClick, GoToAbsolute
<1>4. CASE INIT
  BY <1>4 DEF INIT, PosInit
<1>5. CASE HOME
  BY <1>5 DEF HOME, PosInit, GoOrigin
<1>6. CASE DRAW
  BY <1>6 DEF DRAW
<1>7. CASE PUMPON
  BY <1>7 DEF PUMPON
<1>8. CASE PUMPOFF
  BY <1>8 DEF PUMPOFF, PumpOff
<1>9. CASE PUMPSUCKTION
  BY <1>9 DEF PUMPSUCKTION, PumpOff
<1>10. CASE START
  BY <1>10 DEF START
<1>11. CASE KeyFails
  BY <1>11 DEF KeyFails
<1>12. CASE Pause
  BY <1>12 DEF Pause
<1>13. CASE LOAD
  BY <1>13 DEF LOAD
<1> QED
  BY <1>1, <1>2, <1>3, <1>4, <1>5, <1>6, <1>7, <1>8, <1>9, <1>10, <1>11, <1>12,
     <1>13 DEF Operator

LEMMA FlowLoader == FlowInv /\ (FileSelected \/ LoadLine) => FlowInv'
  BY DEF FlowInv, PumpInv, PathInv, StageInv, ArcInv, Near, script, position, arcs,
         counts, loader, flow, motion, path, FileSelected, LoadLine

(* FlowFollowsScript, for every instance: the pump runs for a stroke or    *)
(* for the operator, never with suction unless he did it, the script draws *)
(* what is to be drawn, and an arc not cut turns about its own center.     *)
THEOREM FlowTheorem == Spec => []FlowFollowsScript
<1>1. FlowInv => FlowFollowsScript
  BY DEF FlowInv, PumpInv, PathInv, StageInv, ArcInv, FlowFollowsScript
<1>2. FlowInv /\ [Next]_vars => FlowInv'
  BY FlowDraw, FlowOperator, FlowLoader, FlowStutter DEF Next
<1> QED
  BY <1>1, <1>2, FlowInit, PTL DEF Spec

-----------------------------------------------------------------------------
(* Where the nozzle is.                                                    *)

Lines == [g : {"G0", "G1", "arc", Null}, to : Points \cup {Null}]

PlacesInv ==
  /\ tip \in Int /\ target \in Int /\ nozzle \in Int
  /\ silent \in Nat /\ order \in Nat
  /\ paths \in Seq(Lines) /\ loading \in Seq(Lines)
  /\ modal \in Lines

TipInv ==
  /\ PlacesInv
  /\ ~jogged => absolute
  /\ TipIsNozzle

(* A target taken for reached adds one step to the distance.               *)
LEMMA SilentBound ==
  ASSUME NEW n \in Int, NEW t \in Int, NEW u \in Int, NEW k \in Nat,
         n - t \in -Step * k .. Step * k, Near(u, t)
  PROVE  n - u \in -Step * (k + 1) .. Step * (k + 1)
<1>1. Step \in Nat /\ Step * (k + 1) = Step * k + Step
  BY PrinterAssumption DEF PrinterAssumption
<1>2. Step * k \in Nat
  BY <1>1
<1>3. t - u \in -Step .. Step
  BY <1>1 DEF Near
<1> QED
  BY <1>1, <1>2, <1>3

(* No distance at all.                                                     *)
LEMMA NoDistance ==
  ASSUME NEW p \in Int, NEW k \in Nat
  PROVE  p - p \in -Step * k .. Step * k
<1>1. Step \in Nat
  BY PrinterAssumption DEF PrinterAssumption
<1>2. Step * k \in Nat
  BY <1>1
<1> QED
  BY <1>1, <1>2

(* A position sent as an absolute one, and the origin, are exact.          *)
LEMMA GoToExact ==
  ASSUME TipInv, NEW p \in Int, GoTo(p), tip' = p
  PROVE  /\ nozzle' \in Int /\ silent' \in Nat /\ (~jogged => absolute)'
         /\ ~astray' => nozzle' - tip' \in -Step * silent' .. Step * silent'
<1>1. nozzle' \in Int /\ silent' \in Nat
  BY PrinterAssumption DEF GoTo, PrinterAssumption, TipInv, PlacesInv
<1>2. ~astray' => nozzle' = p
  BY DEF GoTo, TipInv
<1> QED
  BY <1>1, <1>2, NoDistance DEF GoTo, TipInv

LEMMA TipInit == Init => TipInv
<1> SUFFICES ASSUME Init PROVE TipInv
  OBVIOUS
<1>1. PlacesInv
  BY DEF Init, PlacesInv, Lines
<1>2. nozzle - tip \in -Step * silent .. Step * silent
  BY <1>1, NoDistance DEF Init, PlacesInv
<1> QED
  BY <1>1, <1>2 DEF Init, TipInv, TipIsNozzle

(* What the sketch neither sends nor reckons leaves the distance as it is. *)
LEMMA TipKept ==
  ASSUME TipInv, UNCHANGED <<nozzle, tip, jogged, absolute, silent>>,
         at = "dead" => at' = "dead", astray => astray', PlacesInv'
  PROVE  TipInv'
  BY DEF TipInv, TipIsNozzle

LEMMA TipDraw == TipInv /\ Draw => TipInv'
<1> SUFFICES ASSUME TipInv, Draw PROVE TipInv'
  OBVIOUS
<1> USE DEF script, position, arcs, counts, loader, flow, motion, path
<1>1. CASE Frame \/ NoSuchPath \/ Advance \/ StrokeFails \/ ArcDone \/ Show \/ NoDrag
  <2>1. /\ UNCHANGED <<tip, target, nozzle, silent, paths, loading, modal, jogged, absolute, astray>>
        /\ at # "dead"
    BY <1>1 DEF Frame, NoSuchPath, Advance, StrokeFails, ArcDone, Show, NoDrag
  <2>2. order' = order \/ order' = order + 1
    BY <1>1 DEF Frame, NoSuchPath, Advance, StrokeFails, ArcDone, Show, NoDrag
  <2>3. PlacesInv'
    BY <2>1, <2>2 DEF TipInv, PlacesInv
  <2> QED
    BY <2>1, <2>3, TipKept
<1>2. CASE Interpret
  <2>1. order + 1 \in 1 .. Len(paths) /\ paths \in Seq(Lines)
    BY <1>2 DEF Interpret, TipInv, PlacesInv
  <2>2. paths[order + 1] \in Lines
    BY <2>1
  <2>3. target' = target \/ target' \in Points
    BY <1>2, <2>2 DEF Interpret, Lines
  <2>4. target' \in Int
    BY <2>3, PrinterAssumption DEF PrinterAssumption, TipInv, PlacesInv
  <2>5. UNCHANGED <<order, paths, tip, nozzle, silent, loading, modal, jogged, absolute, astray>>
    BY <1>2 DEF Interpret
  <2>6. PlacesInv'
    BY <2>4, <2>5 DEF TipInv, PlacesInv
  <2> QED
    BY <1>2, <2>5, <2>6, TipKept DEF Interpret
<1>3. CASE EndScript
  <2>1. PlacesInv' /\ nozzle' = 0 /\ tip' = 0
    BY <1>3 DEF EndScript, GoOrigin, TipInv, PlacesInv
  <2> QED
    BY <1>3, <2>1, NoDistance DEF EndScript, GoOrigin, TipInv, TipIsNozzle, PlacesInv
<1>4. CASE StrokeStep \/ MoveStep
  <2>1. Toward \in Int
    BY PrinterAssumption DEF Toward, PrinterAssumption, TipInv, PlacesInv
  <2>2. GoTo(Toward) /\ tip' = Toward
    BY <1>4 DEF StrokeStep, MoveStep
  <2>3. UNCHANGED <<order, target, paths, loading, modal>>
    BY <1>4 DEF StrokeStep, MoveStep
  <2> QED
    BY <2>1, <2>2, <2>3, GoToExact DEF TipInv, PlacesInv, TipIsNozzle
<1>5. CASE LineDone
  <2>1. PlacesInv'
    BY <1>5 DEF LineDone, TipInv, PlacesInv
  <2>2. CASE tip = target
    BY <1>5, <2>1, <2>2 DEF LineDone, TipInv, TipIsNozzle
  <2>3. CASE tip # target
    <3>1. ~astray => nozzle - tip \in -Step * silent .. Step * silent
      BY <1>5 DEF LineDone, TipInv, TipIsNozzle
    <3>2. tip' = target /\ silent' = silent + 1
          /\ UNCHANGED <<nozzle, astray, jogged, absolute>> /\ Near(target, tip)
      BY <1>5, <2>3 DEF LineDone
    <3>3. ~astray' => nozzle' - tip' \in -Step * silent' .. Step * silent'
      BY <3>1, <3>2, SilentBound DEF TipInv, PlacesInv
    <3> QED
      BY <2>1, <3>2, <3>3 DEF TipInv, TipIsNozzle
  <2> QED
    BY <2>2, <2>3
<1>6. CASE ArcBegins
  BY <1>6 DEF ArcBegins, TipInv, PlacesInv, TipIsNozzle
<1>7. CASE ArcStep
  <2>1. PICK p \in ArcPoints :
          tip' = p /\ ((at' = "dead" /\ UNCHANGED motion) \/ GoToAbsolute(p))
    BY <1>7 DEF ArcStep
  <2>2. p \in Int
    BY PrinterAssumption DEF ArcPoints, PrinterAssumption
  <2>3. UNCHANGED <<order, target, paths, loading, modal>>
    BY <1>7 DEF ArcStep
  <2>4. CASE at' = "dead" /\ UNCHANGED motion
    BY <2>1, <2>2, <2>3, <2>4 DEF TipInv, PlacesInv, TipIsNozzle
  <2>5. CASE GoToAbsolute(p)
    <3>1. nozzle' = p /\ silent' = 0 /\ absolute' = TRUE
      BY <2>5 DEF GoToAbsolute
    <3> QED
      BY <2>1, <2>2, <2>3, <3>1, NoDistance DEF TipInv, PlacesInv, TipIsNozzle
  <2> QED
    BY <2>1, <2>4, <2>5
<1>8. CASE Drag
  <2>1. UNCHANGED <<order, tip, target, nozzle, silent, loading, modal, jogged, absolute, astray>>
        /\ at # "dead"
    BY <1>8 DEF Drag
  <2>2. paths' \in Seq(Lines)
    <3>1. ASSUME NEW p \in MousePoints, NEW q \in MousePoints
          PROVE  /\ paths \o <<[g |-> "G0", to |-> p], [g |-> "G1", to |-> q]>> \in Seq(Lines)
                 /\ Append(paths, [g |-> "G1", to |-> q]) \in Seq(Lines)
      <4>1. [g |-> "G0", to |-> p] \in Lines /\ [g |-> "G1", to |-> q] \in Lines
        BY PrinterAssumption DEF PrinterAssumption, Lines
      <4> QED
        BY <4>1 DEF TipInv, PlacesInv
    <3>2. \/ paths' = paths
          \/ \E p, q \in MousePoints :
               \/ paths' = paths \o <<[g |-> "G0", to |-> p], [g |-> "G1", to |-> q]>>
               \/ paths' = Append(paths, [g |-> "G1", to |-> q])
      BY <1>8 DEF Drag
    <3> QED
      BY <3>1, <3>2 DEF TipInv, PlacesInv
  <2>3. PlacesInv'
    BY <2>1, <2>2 DEF TipInv, PlacesInv
  <2> QED
    BY <2>1, <2>3, TipKept
<1> QED
  BY <1>1, <1>2, <1>3, <1>4, <1>5, <1>6, <1>7, <1>8 DEF Draw

LEMMA TipOperator == TipInv /\ Operator => TipInv'
<1> SUFFICES ASSUME TipInv, Operator PROVE TipInv'
  OBVIOUS
<1> USE DEF script, position, arcs, counts, loader, flow, motion, path, Operates
<1>1. CASE LeftClick \/ DRAW \/ PUMPON \/ PUMPOFF \/ PUMPSUCKTION \/ KeyFails \/ Pause \/ LOAD
  <2>1. /\ UNCHANGED <<order, tip, paths, nozzle, silent, loading, modal, jogged, absolute, astray>>
        /\ at # "dead"
    BY <1>1 DEF LeftClick, DRAW, PUMPON, PUMPOFF, PUMPSUCKTION, KeyFails, Pause, LOAD
  <2>2. target' = target \/ target' \in MousePoints
    BY <1>1 DEF LeftClick, DRAW, PUMPON, PUMPOFF, PUMPSUCKTION, KeyFails, Pause, LOAD
  <2>3. PlacesInv'
    BY <2>1, <2>2, PrinterAssumption DEF TipInv, PlacesInv, PrinterAssumption
  <2> QED
    BY <2>1, <2>3, TipKept
<1>2. CASE Jog
  <2>1. PICK d \in {-JogStep, 0, JogStep} :
          /\ nozzle' = nozzle + d /\ tip' = tip + d /\ target' = target + d
    BY <1>2 DEF Jog
  <2>2. d \in Int
    BY PrinterAssumption DEF PrinterAssumption
  <2>3. UNCHANGED <<order, paths, silent, loading, modal, astray>> /\ jogged' = TRUE /\ at # "dead"
    BY <1>2 DEF Jog
  <2>4. nozzle' - tip' = nozzle - tip
    BY <2>1, <2>2 DEF TipInv, PlacesInv
  <2> QED
    BY <2>1, <2>2, <2>3, <2>4 DEF TipInv, PlacesInv, TipIsNozzle
<1>3. CASE RightClick
  <2>1. PICK p \in MousePoints : target' = p /\ tip' = p /\ GoToAbsolute(p)
    BY <1>3 DEF RightClick
  <2>2. p \in Int
    BY PrinterAssumption DEF PrinterAssumption
  <2>3. UNCHANGED <<order, paths, loading, modal>>
    BY <1>3 DEF RightClick
  <2>4. nozzle' = p /\ silent' = 0 /\ absolute' = TRUE
    BY <2>1 DEF GoToAbsolute
  <2> QED
    BY <2>1, <2>2, <2>3, <2>4, NoDistance DEF TipInv, PlacesInv, TipIsNozzle
<1>4. CASE INIT
  <2>1. <<>> \in Seq(Lines)
    OBVIOUS
  <2> QED
    BY <1>4, <2>1 DEF INIT, PosInit, TipInv, PlacesInv, TipIsNozzle
<1>5. CASE HOME
  <2>1. PlacesInv' /\ nozzle' = 0 /\ tip' = 0
    BY <1>5 DEF HOME, PosInit, GoOrigin, TipInv, PlacesInv
  <2> QED
    BY <1>5, <2>1, NoDistance DEF HOME, GoOrigin, TipInv, TipIsNozzle, PlacesInv
<1>6. CASE START
  BY <1>6 DEF START, TipInv, PlacesInv, TipIsNozzle
<1> QED
  BY <1>1, <1>2, <1>3, <1>4, <1>5, <1>6 DEF Operator

LEMMA TipLoader == TipInv /\ (FileSelected \/ LoadLine) => TipInv'
<1> SUFFICES ASSUME TipInv, FileSelected \/ LoadLine PROVE TipInv'
  OBVIOUS
<1> USE DEF script, position, arcs, counts, loader, flow, motion, path
<1>1. /\ UNCHANGED <<order, tip, target, nozzle, silent, jogged, absolute, astray>>
      /\ at # "dead"
  BY DEF FileSelected, LoadLine
<1>2. CASE FileSelected
  <2>1. loading' \in Files /\ modal' = [g |-> Null, to |-> Null] /\ paths' = <<>>
    BY <1>2 DEF FileSelected
  <2>2. loading' \in Seq(Lines)
    BY <2>1, PrinterAssumption DEF PrinterAssumption, Lines
  <2>3. modal' \in Lines /\ paths' \in Seq(Lines)
    BY <2>1 DEF Lines
  <2>4. PlacesInv'
    BY <1>1, <2>2, <2>3 DEF TipInv, PlacesInv
  <2> QED
    BY <1>1, <2>4, TipKept
<1>3. CASE LoadLine
  <2>1. CASE loading = <<>>
    <3>1. UNCHANGED <<loading, modal, paths>>
      BY <1>3, <2>1 DEF LoadLine
    <3>2. PlacesInv'
      BY <1>1, <3>1 DEF TipInv, PlacesInv
    <3> QED
      BY <1>1, <3>2, TipKept
  <2>2. CASE loading # <<>>
    <3>1. Head(loading) \in Lines /\ Tail(loading) \in Seq(Lines)
      BY <2>2 DEF TipInv, PlacesInv
    <3>2. modal' = [w \in {"g", "to"} |->
                      IF Head(loading)[w] = Null THEN modal[w] ELSE Head(loading)[w]]
      BY <1>3, <2>2 DEF LoadLine
    <3>3. modal' \in Lines
      BY <3>1, <3>2 DEF Lines, TipInv, PlacesInv
    <3>4. loading' = Tail(loading) /\ (paths' = paths \/ paths' = Append(paths, modal'))
      BY <1>3, <2>2 DEF LoadLine
    <3>5. PlacesInv'
      BY <1>1, <3>1, <3>3, <3>4 DEF TipInv, PlacesInv
    <3> QED
      BY <1>1, <3>5, TipKept
  <2> QED
    BY <2>1, <2>2
<1> QED
  BY <1>2, <1>3

LEMMA TipStutter == TipInv /\ UNCHANGED vars => TipInv'
  BY DEF TipInv, PlacesInv, TipIsNozzle, vars, script, position, arcs, counts, loader,
         grbl, path

(* TipIsNozzle, for every instance: unless its position was given up or a  *)
(* motion sent in G91, the sketch is off by at most one step for every     *)
(* target it took for reached since the last motion it sent.               *)
THEOREM TipTheorem == Spec => []TipIsNozzle
<1>1. TipInv => TipIsNozzle
  BY DEF TipInv
<1>2. TipInv /\ [Next]_vars => TipInv'
  BY TipDraw, TipOperator, TipLoader, TipStutter DEF Next
<1> QED
  BY <1>1, <1>2, TipInit, PTL DEF Spec
=============================================================================
