SPECIFICATION FairSpec
CONSTANTS
  Modules <- MCModules
  Channels <- MCChannels
  ChannelOf <- MCChannelOf
  Samples = 255
  REALTIME_BYTES = 20
  RX_MAX = 1000
  AXLE_MAX_CHANNELS = 8
  MAX_PULSES_PER_REQ = 2
  CODE_LIMIT = 4
  Passage = 1
  MaxPulses = 3
  MaxLost = 3
  MaxLate = 1
  MaxResets = 1
INVARIANTS
  TypeOK
  NothingLost
  InOrderAndOnce
PROPERTIES
  PulsesArrive
