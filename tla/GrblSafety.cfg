SPECIFICATION Spec
CONSTANTS
  SegsPerBlock = 2
  MaxBlocks = 2
  SegCap = 2
  MaxBrake = 2
  Events = {"reset", "hold", "start", "door", "limit"}
  Jobs = {"move", "over", "spindle", "pause", "unlock", "check"}
  Underrun = TRUE
INVARIANTS TypeOK RestIsStill MotionEnds DoorDeEnergized SyncAtRest
PROPERTIES HoldNeedsUser AlarmLatched
CHECK_DEADLOCK TRUE
