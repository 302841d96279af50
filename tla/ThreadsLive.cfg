\* Interrupts against condition waits, the idle loop and the context switch.
SPECIFICATION FairSpec
CONSTANTS
  NTHR = 3
  Locks = {}
  Events = {e1}
  MaxCnt = 1
INVARIANTS
  WellFormed
  NoLostEvent
PROPERTIES
  RoundRobin
  EventWakes
