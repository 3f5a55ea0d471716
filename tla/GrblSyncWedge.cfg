SPECIFICATION FairSpec
CONSTANTS
  SegsPerBlock = 2
  MaxBlocks = 1
  SegCap = 2
  MaxBrake = 1
  Events = {}
  Jobs = {"move", "spindle"}
  Underrun = FALSE
PROPERTY SyncReturns
