CONSTANTS
  SectorSize = 2
  Pool = 4
  SeaSlots = 2
  OldCells = 6
  NewCells = 6
  Patches <- AnyPatch
  MaxBlocks = 2
  CrashPoints <- RewriteSteps
  CrashPatches <- EndsInside
  MaxCrashes = 1
  RiskFirst = FALSE
SPECIFICATION FairSpec
INVARIANTS TypeOK BackupsIntact SafeToRewrite SlotsDistinct DecodedIsNew
PROPERTIES BootEnds
