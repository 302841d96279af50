\* Three blocks, a cache of two, two clients with up to two pins; fills and
\* stores may fail.
SPECIFICATION Spec
CONSTANTS
  Clients = {c1, c2}
  Pos = {p1, p2, p3}
  Vals = {u, v}
  CACHE_BLKS = 2
  MaxPins = 2
  Faults = {"fill", "store"}
SYMMETRY ClientSymmetry
INVARIANT
  TypeOK
PROPERTIES
  BlocksSpec
  FlushStores
