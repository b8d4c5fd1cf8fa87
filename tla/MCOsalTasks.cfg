SPECIFICATION FairSpec
CONSTANTS
  tasksCnt = 3
  Draining = {0, 2}
  TaskEvent = {UPDATE_EVT}
  MaxSends = 2
  MaxSets = 2
INVARIANTS
  TypeOK
  NoLostWakeup
  NoLostEvent
  InOrder
PROPERTIES
  AllDone
