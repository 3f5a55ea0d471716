SPECIFICATION Spec
CONSTANTS
  SegsPerBlock = 2
  MaxBlocks = 1
  SegCap = 2
  MaxBrake = 1
  Events = {"limit", "reset"}
  Jobs = {"move"}
  Underrun = FALSE
INVARIANT HaltIsStill
