-------------------------- MODULE MCPageAllocator --------------------------
(* Small instances of the page allocator with the heap as one of its       *)
(* callers.                                                                 *)
EXTENDS Heap
=============================================================================
