SPECIFICATION FairSpec
CONSTANTS
  NModules = 3
  Period = 2
  Timeout = 1
  OfflineAfter = 4
  SkipErr = 3
  ErrSat = 4
  ProbeEvery = 3
  ArmTries = 4
  ErrorWrap = 6
  InitFails = TRUE
INVARIANTS
  TypeOK
  SkippedIsOffline
  ReportedInTime
PROPERTIES
  BackIsSeen
