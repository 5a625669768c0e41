CONSTANTS
  PageSize = 3
  BlockPages = 2
  Blocks = 2
  MaxCalls = 2
SPECIFICATION Spec
INVARIANTS ReadExact ReadsOnlyNeeded WriteExact TornInOrder
CHECK_DEADLOCK FALSE
