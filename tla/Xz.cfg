CONSTANTS
  NumThreads = 2
  NumBlocksMax = 3
  BlockSize = 3
  MaxFaults = 1
  MaxCalls = 2
  LateCount = FALSE
  Inputs <- MCInputs
  Align = 2
  VarBase = 16
  BraBuf = 3
  FilterBuf = 3
  ReadStep = 2
  ChunkMax = 2
  DicSize = 4
  InitSize = 1
  InBuf = 3
  OutStep = 2
  MixBuf = 2
  DicBuf = 3
  MaxReadFaults = 1
  Fates <- MCFates
  GivenMax = 2
SPECIFICATION XzSpec
INVARIANTS WrittenInOrder ReturnMeansDone ReadsBack
PROPERTY CallsEnd
CHECK_DEADLOCK FALSE
