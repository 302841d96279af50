-------------------------------- MODULE Heap --------------------------------
(***************************************************************************)
(* The kernel heap of src/src/provided/sys/heap0.c on top of the page      *)
(* allocator: blocks are cut from the end of a pool, and a request that    *)
(* does not fit takes a page, which becomes the pool if it leaves more     *)
(* than the old one has. Freeing a block recovers nothing. Other callers   *)
(* of the page allocator come and go meanwhile.                            *)
(*                                                                         *)
(* Memory is counted in units of HEAP_ALIGN bytes, to which every size is  *)
(* rounded up; a header (16 bytes) is one unit. Address 0 is the end of    *)
(* the boot heap and the beginning of page 0. A call never waits.          *)
(***************************************************************************)
EXTENDS PageAllocator, Integers

CONSTANTS
  PAGE_SIZE,      \* units in a page
  BootSize,       \* units of the boot heap
  HEAP_ALLOC_MAX, \* the largest request
  MaxHeapPages    \* pages the heap takes (bound)

HDR == 1

ASSUME HeapAssumption ==
  /\ PAGE_SIZE \in Nat /\ BootSize \in Nat \ {0}
  /\ HEAP_ALLOC_MAX \in 1 .. PAGE_SIZE - HDR /\ MaxHeapPages \in Nat

VARIABLES
  heap_low, heap_end,  \* the pool
  blocks,              \* the blocks in use: where they are, and their size
  heapPages            \* the pages the heap has taken

heapVars == <<heap_low, heap_end, blocks, heapPages>>
allVars  == <<pageVars, heapVars>>

Base(pp) == pp * PAGE_SIZE
----------------------------------------------------------------------------
(* Fault: the header is not counted.                                       *)
FitsWithoutHeader(size) == size <= heap_end - heap_low

FitsPool(size) == size + HDR <= heap_end - heap_low

(* The block before end, with its header in front of it.                   *)
Cutout(end, size) ==
  blocks' = blocks \cup {[ptr |-> end - size, size |-> size]}

AllocFromPool(size) ==
  /\ FitsPool(size)
  /\ Cutout(heap_end, size)
  /\ heap_end' = heap_end - size - HDR
  /\ UNCHANGED <<pageVars, heap_low, heapPages>>

(* The new page becomes the pool, or its rest is never used.               *)
AllocFromPage(size) ==
  /\ ~FitsPool(size) /\ Cardinality(heapPages) < MaxHeapPages
  /\ alloc_phys_pages(1)
  /\ LET page     == CHOOSE pp \in RAM : pp \in held' \ held
         leftover == PAGE_SIZE - size - HDR
     IN /\ Cutout(Base(page + 1), size)
        /\ heapPages' = heapPages \cup {page}
        /\ IF heap_end - heap_low < leftover
           THEN heap_low' = Base(page) /\ heap_end' = Base(page) + leftover
           ELSE UNCHANGED <<heap_low, heap_end>>

heap_malloc_actual(size) == AllocFromPool(size) \/ AllocFromPage(size)

MallocPanic(size) == ~FitsPool(size) /\ Panic(1) /\ UNCHANGED heapVars

heap_free_actual(b) ==
  /\ blocks' = blocks \ {b}
  /\ UNCHANGED <<pageVars, heap_low, heap_end, heapPages>>

(* The other callers give back pages of their own.                         *)
Others ==
  /\ \E n \in 1 .. MaxCnt :
       \/ alloc_phys_pages(n) \/ Panic(n)
       \/ \E pp \in RAM : Run(pp, n) \cap heapPages = {} /\ free_phys_pages(pp, n)
  /\ UNCHANGED heapVars
----------------------------------------------------------------------------
(* heap_init, called by memory_init.                                       *)
HeapInit ==
  /\ PageInit
  /\ heap_low = -BootSize /\ heap_end = 0
  /\ blocks = {} /\ heapPages = {}

HeapNext ==
  /\ ~panicked
  /\ \/ Others
     \/ \E size \in 1 .. HEAP_ALLOC_MAX : heap_malloc_actual(size) \/ MallocPanic(size)
     \/ \E b \in blocks : heap_free_actual(b)

HeapSpec == HeapInit /\ [][HeapNext]_allVars
----------------------------------------------------------------------------
(* The units of a block with its header; of the pool; of the whole heap.   *)
Units(b)   == b.ptr - HDR .. b.ptr + b.size - 1
PoolUnits  == heap_low .. heap_end - 1
HeapUnits  == (-BootSize .. -1) \cup UNION {Base(pp) .. Base(pp + 1) - 1 : pp \in heapPages}

(* Blocks, their headers and the pool never overlap, whichever page is the *)
(* pool, and all lie in memory that is the heap's: none in a page that is  *)
(* free or another caller's.                                               *)
HeapBlocks ==
  /\ heap_low <= heap_end /\ PoolUnits \subseteq HeapUnits
  /\ heapPages \subseteq held
  /\ \A b \in blocks :
       /\ Units(b) \subseteq HeapUnits /\ Units(b) \cap PoolUnits = {}
       /\ \A c \in blocks \ {b} : Units(b) \cap Units(c) = {}
=============================================================================
