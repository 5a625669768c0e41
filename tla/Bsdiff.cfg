CONSTANTS
  SectorSize = 2
  Pool = 8
  SeaSlots = 2
  Bytes = 2
  SmallSort = 3
  Slack = 1
  OldMax = 5
  NewMax = 6
  Olds <- MCOlds
  News <- MCNews
SPECIFICATION Spec
INVARIANTS Ranked Reproduces
PROPERTIES ToolEnds
CHECK_DEADLOCK FALSE
