\* Two sleepers that wake at different times.
SPECIFICATION AlarmsSpec
CONSTANTS
  Sleeper = {s1, s2}
  MinCnt = 1
  MaxCnt = 3
  MaxTime = 6
  TICK = 2
  UINT64_MAX = 10
PROPERTIES
  SleepEnds
CHECK_DEADLOCK FALSE
