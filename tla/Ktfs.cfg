\* One client with one open file at a time; blocks of two cells.
SPECIFICATION Spec
CONSTANTS
  Name = {a, b}
  Handle = {h}
  NINO = 3
  NBLK = 9
  BLKSZ = 2
  DENSZ = 2
  PTRS = 1
  NDIRECT = 2
  NDINDIRECT = 1
  Exclusive = TRUE
  MaxOpen = 1
  Reqs = {4}
  Ends = {3, 9}
SYMMETRY NameSymmetry
VIEW Relevant
CONSTRAINT FewLost
INVARIANTS
  TypeOK
  NoSharing
  DirectoryConsistent
PROPERTY FilesSpec
