\* Six pages of four units; calls for up to three pages, and the heap with two
\* of its own, in every order.
SPECIFICATION HeapSpec
CONSTANTS
  NPAGES = 6
  MaxCnt = 3
  PAGE_SIZE = 4
  BootSize = 4
  HEAP_ALLOC_MAX = 3
  MaxHeapPages = 2
INVARIANTS
  PageTypeOK
  Partition
  HeapBlocks
PROPERTY PoolSpec
CHECK_DEADLOCK FALSE
