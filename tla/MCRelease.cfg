SPECIFICATION FairReleaseSpec
CONSTANTS
  MaxRun = 2
  MaxVersion = 2
  Origin <- MCOrigin
  File = {f1, f2}
  MaxFailures = 1
  MaxInterference = 1
INVARIANTS
  ReportedReleaseIsWhole
  PublicIsInStore
PROPERTIES
  ReleasesAdvance
