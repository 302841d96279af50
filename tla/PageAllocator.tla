--------------------------- MODULE PageAllocator ----------------------------
(***************************************************************************)
(* The physical page allocator of src/src/modified/sys/memory.c: a linked  *)
(* list of chunks of consecutive free pages, each described by a header in *)
(* its own first page.  Requests are best fit, from the end of the chunk;  *)
(* a freed run extends the chunk that ends where it begins, or becomes a   *)
(* chunk at the head of the list.  No two chunks are ever merged.          *)
(*                                                                         *)
(* Nothing suspends while it holds page_lock, so a call is one action.     *)
(* Page 0 is the first after the boot heap, page NPAGES - 1 the last of RAM.*)
(***************************************************************************)
EXTENDS Naturals, Sequences, SequencesExt, FiniteSets

CONSTANTS
  NPAGES,   \* pages between the boot heap and RAM_END
  MaxCnt    \* the largest number of pages a caller asks for (bound)

ASSUME PageAssumption == NPAGES \in Nat \ {0} /\ MaxCnt \in Nat \ {0}

RAM == 0 .. NPAGES - 1

Run(pp, n) == pp .. pp + n - 1
Pages(c)   == Run(c.pp, c.pagecnt)
End(c)     == c.pp + c.pagecnt

page_chunk == {c \in [pp : RAM, pagecnt : 1 .. NPAGES] : End(c) <= NPAGES}

VARIABLES
  free_chunk_list,  \* the chunks, in list order
  held,             \* the pages callers have got and not given back
  panicked          \* has a request panicked?

pageVars == <<free_chunk_list, held, panicked>>

(* The pages of the chunks of a list, and that no two chunks share one.    *)
PagesIn(list) == UNION {Pages(list[i]) : i \in DOMAIN list}
NoOverlap(list) == \A i, j \in DOMAIN list :
                     i # j => Pages(list[i]) \cap Pages(list[j]) = {}

(* memory_init makes one chunk of all free pages.                          *)
PageInit ==
  /\ free_chunk_list = <<[pp |-> 0, pagecnt |-> NPAGES]>>
  /\ held = {}
  /\ panicked = FALSE

(* Fault: a chunk that is one page short is taken for large enough.        *)
FitsOffByOne(c, n) == c.pagecnt + 1 >= n

Fits(c, n) == c.pagecnt >= n

(* The smallest chunk that is large enough, the first of equals.           *)
Best(list, i, n) ==
  /\ Fits(list[i], n)
  /\ \A j \in DOMAIN list : Fits(list[j], n) =>
       \/ list[i].pagecnt < list[j].pagecnt
       \/ list[i].pagecnt = list[j].pagecnt /\ i <= j

(* Fault: the last chunk stays on the list when it is used up.             *)
CutKeepsLast(list, i, n) ==
  IF list[i].pagecnt = n /\ Len(list) > 1
  THEN RemoveAt(list, i)
  ELSE [list EXCEPT ![i].pagecnt = IF @ > n THEN @ - n ELSE @]

(* A chunk of exactly n pages is unlinked, a larger one loses its last n.  *)
Cut(list, i, n) ==
  IF list[i].pagecnt = n THEN RemoveAt(list, i)
                         ELSE [list EXCEPT ![i].pagecnt = @ - n]

alloc_phys_pages(n) ==
  /\ \E i \in DOMAIN free_chunk_list :
       /\ Best(free_chunk_list, i, n)
       /\ free_chunk_list' = Cut(free_chunk_list, i, n)
       /\ held' = held \cup Run(End(free_chunk_list[i]) - n, n)
  /\ UNCHANGED panicked

(* Without a chunk that is large enough the kernel panics.                 *)
Panic(n) ==
  /\ \A i \in DOMAIN free_chunk_list : ~Fits(free_chunk_list[i], n)
  /\ panicked' = TRUE
  /\ UNCHANGED <<free_chunk_list, held>>

(* Fault: every chunk that touches the run is extended.                    *)
ExtendsEitherSide(list, i, pp, n) == End(list[i]) = pp \/ list[i].pp = pp + n

(* Chunk i is the first that ends where the run of n pages at pp begins.   *)
Extends(list, i, pp, n) ==
  End(list[i]) = pp /\ \A j \in 1 .. i - 1 : End(list[j]) # pp

Grow(list, i, n) == [list EXCEPT ![i].pagecnt = @ + n]

FreeExtends(pp, n) ==
  \E i \in DOMAIN free_chunk_list :
    /\ Extends(free_chunk_list, i, pp, n)
    /\ free_chunk_list' = Grow(free_chunk_list, i, n)

FreeLinks(pp, n) ==
  /\ \A i \in DOMAIN free_chunk_list : End(free_chunk_list[i]) # pp
  /\ free_chunk_list' = <<[pp |-> pp, pagecnt |-> n]>> \o free_chunk_list

(* A caller gives back pages it holds; it may have got them by other       *)
(* requests (ptab_reset frees page by page what came as a range).          *)
free_phys_pages(pp, n) ==
  /\ Run(pp, n) \subseteq held
  /\ FreeExtends(pp, n) \/ FreeLinks(pp, n)
  /\ held' = held \ Run(pp, n)
  /\ UNCHANGED panicked

PageNext == ~panicked /\ \E n \in 1 .. MaxCnt :
  \/ alloc_phys_pages(n) \/ Panic(n)
  \/ \E pp \in RAM : free_phys_pages(pp, n)

PageSpec == PageInit /\ [][PageNext]_pageVars
----------------------------------------------------------------------------
(* Properties.                                                             *)

PageTypeOK ==
  /\ free_chunk_list \in Seq(page_chunk)
  /\ held \subseteq RAM
  /\ panicked \in BOOLEAN

(* A page is in one chunk or in a caller's hands, never in both and never  *)
(* in two chunks: no page is handed out twice, and no chunk header lies in *)
(* a page somebody writes to.                                              *)
Disjoint == NoOverlap(free_chunk_list) /\ PagesIn(free_chunk_list) \cap held = {}

(* No page is lost: what nobody holds can be allocated again.              *)
NothingLost == PagesIn(free_chunk_list) \cup held = RAM

Partition == Disjoint /\ NothingLost

(* The chunk list implements a pool of pages: a request gets consecutive   *)
(* pages nobody holds, and one for a single page panics only when every    *)
(* page is held.                                                           *)
Pool == INSTANCE PagePool
PoolSpec == Pool!Spec
=============================================================================
