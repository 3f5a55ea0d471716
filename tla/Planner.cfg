SPECIFICATION Spec
CONSTANTS
  MaxBlocks = 4
  MaxEntries = {0, 1, 2, 4}
  Reaches = {1, 2, 3}
INVARIANTS TypeOK PlanIsBest ExitFresh HoldFits
PROPERTY NoJump
