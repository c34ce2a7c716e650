SPECIFICATION FairSpec
CONSTANTS
  Call = {c1, c2}
  Requests = {"auto", "cdp", "stop", "cancel"}
  MaxRecording = 2
  MaxChunk = 2
  MaxPending = 1
  MaxTick = 1
  MaxMishaps = 1
  None = None
INVARIANTS
  ArtifactIsWhole
  RecordingsAreResolved
  ScreencastsAreComplete
PROPERTIES
  CallsReturn
CHECK_DEADLOCK FALSE
