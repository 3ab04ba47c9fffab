SPECIFICATION Spec
CONSTANTS
  APP1_ADDR = 2
  APP1_SIZE = 3
  APP2_ADDR = 5
  APP2_SIZE = 2
  WordMod = 16
  SectorEnd <- McSectorEnd
  Images <- McImages
  Blank = Blank
  Junk = Junk
  Plausible = Plausible
  NoCrc = NoCrc
  Magic = Magic
  MaxFaults = 1
  MaxLosses = 1
  MaxSize = 4
  Offsets <- McOffsets
  MaxLen = 2
INVARIANT
  HalfWrittenNeverStarted
CHECK_DEADLOCK FALSE
