SPECIFICATION FairSpec
CONSTANTS
  c1 = c1
  c2 = c2
  Client = {c1, c2}
  BuildOf <- MCBuildOf
  Foreground <- MCForeground
  Earlier <- MCEarlier
  Patient = {c2}
  MaxRelay = 2
  MaxCrashes = 1
  None = None
INVARIANTS
  ReportedSessionsSurvive
  AcceptedWorkIsFinished
  OnlyOlderRelaysStop
PROPERTIES
  PortIsUsable
