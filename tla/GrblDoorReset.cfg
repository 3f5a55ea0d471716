SPECIFICATION Spec
CONSTANTS
  SegsPerBlock = 2
  MaxBlocks = 1
  SegCap = 2
  MaxBrake = 1
  Events = {"reset", "door", "start"}
  Jobs = {"move"}
  Underrun = FALSE
PROPERTY ResetKillsMotion
