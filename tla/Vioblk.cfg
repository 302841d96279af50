\* Two callers, two sectors; a call may run beyond the capacity.
SPECIFICATION Spec
CONSTANTS
  Src = {blk}
  irqno = blk
  Client = {c1, c2}
  capacity = 2
  Value = {0, 1}
  MaxLen = 2
  IDX = 2
  Eager = FALSE
INVARIANTS
  TypeOK
PROPERTIES
  RequestIsTheDevices
  DiskSpec
  Answers
