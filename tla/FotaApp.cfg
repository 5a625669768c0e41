CONSTANTS
  Nodes = {"query", "http"}
  Sockets = {1, 2}
  Null = Null
  Invalid = Invalid
  BufLen = 2
  MaxRequests = 1
  MaxEvents = 1
  Updates = TRUE
  MaxFaults = 1
  Platforms = {"mtk", "spreadtrum"}
  MaxChecks = 2
SPECIFICATION FairSpec
INVARIANTS ListMatches ConnectingHasRequest
PROPERTIES ComesToRest
