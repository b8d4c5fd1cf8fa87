SPECIFICATION AllSpec
CONSTANTS
  Timer = {key, poll}
  Timeouts = {0, 1, 2}
  MaxRecords = 2
  MaxLag = 2
  MaxStarts = 3
  HDRSZ = 1
  SMALL_BLKSZ = 3
  SMALLBLK_BUCKET = 7
  MAXMEMHEAP = 17
  Request = {1, 2, 4}
  Rollover = 8
  Width = 1000
  MaxMSec = 65535
  MaxClockLag = 7
  MaxTicks = 60
  FirstDays <- SomeYears
  Span = 401
  Seconds = {0, 3599, 86399}
INVARIANTS
  WellFormed
  Kept
  Exact
  TellsTheDate
PROPERTIES
  ImplementsHeap
  NothingLost
CHECK_DEADLOCK FALSE
SYMMETRY TimerSymmetry
