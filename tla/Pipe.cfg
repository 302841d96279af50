\* Two processes with three descriptors each, a buffer of two bytes, requests of
\* up to two.
SPECIFICATION FairSpec
CONSTANTS
  Procs = {p1, p2}
  First = p1
  UIOMAX = 3
  Bytes = {a, b}
  PAGE_SIZE = 2
  MaxReq = 2
VIEW Relevant
SYMMETRY ByteSymmetry
INVARIANTS
  TypeOK
  RefcntExact
PROPERTIES
  ChannelSpec
  CallsReturn
CHECK_DEADLOCK FALSE
