SPECIFICATION QueueSpec
CONSTANTS
  NPorts = 2
  Depth = 2
  RetryCount = 1
  MaxRealtime = 1
  MaxCurves = 2
  Partial = Partial
INVARIANTS
  OnlyWholeFrames
  WrittenInOrder
PROPERTIES
  RingIsAQueue
