\* Two callers, buffers of two characters, positions that wrap around.
SPECIFICATION Spec
CONSTANTS
  Src = {ser}
  irqno = ser
  Client = {c1, c2}
  Char = {a, b}
  RBUFSZ = 2
  POS = 4
  MaxReq = 2
  a = a
  b = b
  Texts <- MCTexts
INVARIANTS
  TypeOK
  WaiterIsHeard
PROPERTIES
  LineSpec
VIEW Relevant
SYMMETRY Symmetry
