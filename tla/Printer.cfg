SPECIFICATION Spec
CONSTANTS
  Points <- MCPoints
  Grid <- MCGrid
  MousePoints = {2, 6}
  Step = 2
  JogStep = 3
  Files <- MCFiles
  Null = Null
  MaxPaths = 5
  MaxOps = 6
INVARIANTS FlowFollowsScript TipIsNozzle
CHECK_DEADLOCK FALSE
