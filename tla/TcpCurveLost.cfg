SPECIFICATION Spec
CONSTANTS
  NPorts = 1
  Depth = 1
  RetryCount = 1
  MaxRealtime = 0
  MaxCurves = 1
  Partial = Partial
  RecvErrMax = 6
  RequestEvery = 2
  HeartbeatMax = 5
  TaskMax = 7
  DogRounds = 1
  DelayRounds = 1
  ConnectMax = 1
  BeatEvery = 1
  MaxDrops = 1
INVARIANTS
  NoCurveLost
