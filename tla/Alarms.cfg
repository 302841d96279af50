\* Three sleepers. The clock stops at MaxTime, and everything with it.
SPECIFICATION AlarmsSpec
CONSTANTS
  Sleeper = {s1, s2, s3}
  MinCnt = 1
  MaxCnt = 3
  MaxTime = 6
  TICK = 2
  UINT64_MAX = 10
INVARIANTS
  AlarmsTypeOK
  Armed
PROPERTIES
  WokenWhileEnabled
CHECK_DEADLOCK FALSE
