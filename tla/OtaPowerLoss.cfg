SPECIFICATION FairSpec
CONSTANTS
  APP1_ADDR = 2
  APP1_SIZE = 3
  APP2_ADDR = 5
  APP2_SIZE = 2
  WordMod = 16
  SectorEnd <- McSectorEnd
  Images <- McImages
  Blank = Blank
  Junk = Junk
  Plausible = Plausible
  NoCrc = NoCrc
  Magic = Magic
  MaxFaults = 0
  MaxLosses = 2
  MaxSize = 4
  Offsets <- McOffsets
  MaxLen = 2
INVARIANTS
  TypeOK
  BootsOnlyComplete
  NeverBricked
  RecordedImageIsThere
PROPERTIES
  RunningSlotUntouched
  NoDowngrade
  UpdateIsAtomic
  CommittedImageRuns
  EveryStartReachesAnApp
CHECK_DEADLOCK FALSE
