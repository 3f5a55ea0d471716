SPECIFICATION Spec
CONSTANTS
  ByteMod = 16
  Systems <- MCSystems
  MmPerInch = 2
  Lines <- MCLines
  StoreCommands <- MCStoreCommands
  MaxOps = 3
  MaxTroubles = 1
  MaxCoord = 4
INVARIANTS TypeOK PositionIsMachine ActiveSystemIsStored SettingsAreStored PinsFollowModes WorkPositionIsProgrammed
PROPERTIES RejectedLineIsDropped ReadFailsOnce
CHECK_DEADLOCK FALSE
