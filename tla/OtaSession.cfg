SPECIFICATION FairSessionSpec
CONSTANTS
  APP1_ADDR = 2
  APP1_SIZE = 3
  APP2_ADDR = 5
  APP2_SIZE = 2
  WordMod = 16
  SectorEnd <- McSectorEnd
  Images <- McImages
  Blank = Blank
  Junk = Junk
  Plausible = Plausible
  NoCrc = NoCrc
  Magic = Magic
  NoImage = NoImage
  Releases <- McReleases
  Chunk = 2
  Window = 2
  MaxFaults = 1
  MaxLosses = 1
  MaxBreaks = 1
  MaxLoads = 1
  MaxSize = 3
  Offsets <- McOffsets
  MaxLen = 2
PROPERTIES
  ImplementsSystem
  UpdateArrives
INVARIANTS
  SessionTypeOK
  ClientAgrees
  BlocksConserved
  FramesMeetTheirState
CHECK_DEADLOCK FALSE
