SPECIFICATION CyclesSpec
CONSTANTS
  SegsPerBlock = 1
  MaxBlocks = 1
  SegCap = 1
  MaxBrake = 1
  Events = {"reset", "hold", "start", "door"}
  Jobs = {"unlock", "check"}
  Underrun = FALSE
  Axes = {"z", "x"}
  HomingCycle0 = {"z", "x"}
  HomingCycle1 = {}
  Trip = 2
  End = 2
  Touch = 1
  Seek = 3
  Pulloff = 2
  LocateScalar = 2
  ProbeAxis = "z"
  ProbeTravel = 2
  Commands = {"home", "probe"}
INVARIANTS HomingIsTrue ProbeIsTrue
