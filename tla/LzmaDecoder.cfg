CONSTANTS
  DicSize = 2
  DicBufSize = 3
  InitSize = 2
  RequiredMax = 3
  InBufs = {1, 2, 7}
  OutBuf = 4
  Asks = {1, 3, 5}
  MaxAsked = 9
  MaxSyms = 4
  Streams <- MCStreams
SPECIFICATION Spec
INVARIANTS DeliversText ReadsLikeRAM
PROPERTIES CallsReturn
CHECK_DEADLOCK FALSE
