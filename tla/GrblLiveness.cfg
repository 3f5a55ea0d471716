SPECIFICATION FairSpec
CONSTANTS
  SegsPerBlock = 2
  MaxBlocks = 1
  SegCap = 1
  MaxBrake = 1
  Events = {"reset", "hold", "door"}
  Jobs = {"move", "over", "spindle", "pause"}
  Underrun = TRUE
PROPERTIES HoldSettles ResetServed HoldHonoured SoftLimitStops
CHECK_DEADLOCK TRUE
