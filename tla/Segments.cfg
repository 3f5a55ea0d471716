SPECIFICATION Spec
CONSTANTS
  Axis = {"x", "y"}
  Moves <- MCMoves
  SegmentBufferSize = 4
  MaxAmassLevel = 1
  MaxSegment = 6
  WordSize = 16
  QueueSize = 2
  MaxMoves = 4
INVARIANTS TypeOK EndsWherePlanned MotorsAreCounted EverySegmentSteps
PROPERTIES SlotsAreNotReused
