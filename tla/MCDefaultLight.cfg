SPECIFICATION FairSpec
CONSTANTS
  LIGHT_TOTAL_NUM = 3
  UINT16_MOD = 5
  MAX_TIMEOUT = 2
  Number = {0, 1, 2, 3}
  Seconds = {0, 1, 2, 3, 4, 5, 6}
  Digits = {1, 2, 3}
  EndDevice = FALSE
  MaxStartFailures = 1
  MaxTimed = 3
INVARIANTS
  TypeOK
  Punctual
PROPERTIES
  LightsOut
