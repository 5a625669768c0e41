CONSTANTS
  DicSize = 4
  InitSize = 1
  OutBlockMax = 5
  SmallBlock = 2
  InBufSize = 4
  InBufST = 3
  OutStep = 3
  DicBufSize = 5
  MaxFaults = 1
  Jobs <- MCJobs
SPECIFICATION Spec
INVARIANTS WriteTold
CHECK_DEADLOCK FALSE
