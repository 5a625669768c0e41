CONSTANTS
  SectorSize = 2
  Pool = 4
  SeaSlots = 3
  OldCells = 4
  NewCells = 4
  Patches <- AllPatches
  MaxBlocks = 2
  CrashPoints = {}
  CrashPatches <- AllPatches
  MaxCrashes = 0
  RiskFirst = FALSE
SPECIFICATION Spec
INVARIANT FailureNotRecorded
