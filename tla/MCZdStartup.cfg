SPECIFICATION ZdFairSpec
CONSTANTS
  Devices <- AllDevices
  MAX_RESUME_RETRY = 2
  NUM_DISC_ATTEMPTS = 1
  DiscRetries = 2
  RejoinScans = 1
  Thresholds = 1
  MaxFaults = 2
INVARIANTS
  ZdTypeOK
  OnItsWay
  Told
  StartsAnew
PROPERTIES
  GetsIn
CHECK_DEADLOCK FALSE
