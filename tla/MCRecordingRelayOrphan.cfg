SPECIFICATION Spec
CONSTANTS
  Call = {c1, c2}
  Requests = {"auto", "cdp", "stop", "cancel"}
  MaxRecording = 1
  MaxChunk = 1
  MaxPending = 1
  MaxTick = 0
  MaxMishaps = 1
  None = None
INVARIANTS
  RecordersAreWanted
SYMMETRY Symmetry
CHECK_DEADLOCK FALSE
