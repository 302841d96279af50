\* Three devices, two handles; a storage device of three blocks of two bytes.
SPECIFICATION DevSpec
CONSTANTS
  Handle = {h1, h2}
  Boot <- MCBoot
  Mounts <- MCMounts
  Blk = 2
  BLK = 2
  capacity = 6
  Byte = {0, 1}
  MaxBytes = 4
  Fault <- MCFault
  PastEnd = FALSE
INVARIANTS
  DevTypeOK
PROPERTIES
  ByteFileSpec
VIEW Relevant
SYMMETRY Symmetry
