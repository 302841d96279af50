\* Spawn, exit, join and a contended recursive lock; no device interrupts.
\* The threads may deadlock themselves (join a thread that waits for a lock
\* the joiner holds): the thread manager does not prevent it.
SPECIFICATION Spec
CONSTANTS
  NTHR = 4
  Locks = {l1}
  Events = {}
  MaxCnt = 2
INVARIANTS
  LocksConsistent
  NoLostRelease
  ExitAndJoin
CHECK_DEADLOCK FALSE
