SPECIFICATION FairSpec
CONSTANTS
  TxLen = 2
  RX_MAX_LEN = 2
  RING_SIZE = 3
  QUIET = 1
  QUIET_MAX = 2
  FirstTimeout = 1
  GapTimeout = 1
  MaxBytes = 3
INVARIANTS
  TypeOK
  HeardIsKept
  RequestSentWhole
  ClosedBetweenExchanges
PROPERTIES
  EveryExchangeReturns
