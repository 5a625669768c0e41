CONSTANTS
  SectorSize = 2
  Pool = 4
  SeaSlots = 3
  OldCells = 5
  NewCells = 5
  Patches <- Gapless
  MaxBlocks = 2
  CrashPoints <- FlashWrites
  CrashPatches <- Gapless
  MaxCrashes = 2
  RiskFirst = FALSE
SPECIFICATION FairSpec
INVARIANTS Resumable UpgradedIsNew
PROPERTIES UpgradeCompletes KeepsPromise
