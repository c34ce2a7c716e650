SPECIFICATION FairSpec
CONSTANTS
  Page = {p1}
  MaxRequest = 3
  BodySize = {0, 2}
  MaxEntries = 2
  MaxBody = 2
  MaxTotal = 3
  MaxWorkers = 2
  MaxEpoch = 2
  MaxCall = 3
  None = None
INVARIANTS
  CaptureIsAccounted
PROPERTIES
  OperationsReturn
CHECK_DEADLOCK FALSE
