CONSTANTS
  FileLen = 3
  Area = 4
  MaxChunk = 2
  RetryCount = 1
  Worlds = {TRUE, FALSE}
  Answers = {"whole", "nolength", "split", "big", "redirect", "other"}
  Sums = {TRUE, FALSE}
  FlashFails = TRUE
  LateQuery = TRUE
  DivisionTraps = TRUE
  MaxLosses = 2
SPECIFICATION FairSpec
INVARIANTS FlagMeansWhole TimersMatch PrefixIntact
PROPERTIES DownloadEnds DownloadSucceeds
