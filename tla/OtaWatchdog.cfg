SPECIFICATION Spec
CONSTANTS
  TickMod = 128
  WDT_TIMEOUT = 60
  BUSY_FLASH = 20
  BUSY_CONNECT = 20
  CONNECT_MAX = 6
  SEND_MAX = 20
  ERASE_MAX = 8
  Dog = 4
  HwWorks = TRUE
  ArmPreempted = FALSE
  MaxSilent = 70
INVARIANTS
  TypeOK
  StuckIsReallyStuck
  HangEndsInReset
  SlotErasesAreFed
