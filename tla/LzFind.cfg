CONSTANTS
  Bytes = 2
  TextLen = 6
  LongLen = 48
  ChunkLen = 8
  ParseLen = 10
  HistorySize = 4
  AddBefore = 13
  MatchMaxLen = 5
  AddAfter = 6
  Reserve = 1
  MaxPos = 44
  NormStep = 2
  MaxSkip = 2
  MaxLen = 6
  NumOpts = 8
  BlockLimit = 9
  NearDist = 2
  FarDist <- MCFarDist
  PairRatio = 2
  UnpackMax = 17
  ChunkSlack = 6
  CopyMax = 2
  Weights <- MCWeights
  Cases <- MCCases
SPECIFICATION EncSpec
INVARIANTS MatchesHold SkipLikesGet EncodesText PricesRight
CHECK_DEADLOCK FALSE
