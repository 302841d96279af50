---------------------------- MODULE MemoryProofs ----------------------------
(***************************************************************************)
(* Proofs about the memory of the kernel and of its processes.             *)
(*                                                                         *)
(* PageAllocator and Heap: for every number of pages and every size of     *)
(* request, the chunks and what the callers hold partition the free RAM,   *)
(* the chunk list implements the pool of PagePool, and the blocks of the   *)
(* heap, one of the callers, are disjoint and in its own pages.            *)
(*                                                                         *)
(* Process: for any number of processes, pages, programs and descriptors a *)
(* page is used once, spaces are trees, and calls find what they validated.*)
(***************************************************************************)
EXTENDS Process, Heap, ListLemmas, WellFoundedInduction, FiniteSetTheorems
----------------------------------------------------------------------------
(* The page allocator and the heap.                                        *)

(* A chunk is an interval of pages of RAM, and it is not empty.            *)
LEMMA ChunkInterval ==
  ASSUME NEW c \in page_chunk
  PROVE  /\ c.pp \in RAM /\ c.pagecnt \in 1 .. NPAGES /\ End(c) \in 1 .. NPAGES
         /\ \A q : q \in Pages(c) <=> q \in Nat /\ c.pp <= q /\ q < End(c)
         /\ c.pp \in Pages(c)
         /\ Pages(c) \subseteq RAM
  BY PageAssumption DEF page_chunk, Pages, Run, End, RAM

LEMMA ListShape ==
  ASSUME NEW list \in Seq(page_chunk)
  PROVE  /\ Len(list) \in Nat /\ DOMAIN list = 1 .. Len(list)
         /\ \A i \in DOMAIN list : list[i] \in page_chunk
  BY LenProperties, ElementOfSeq

(* Taking a chunk off the list takes out its pages and no other.           *)
LEMMA UnlinkChunk ==
  ASSUME NEW list \in Seq(page_chunk), NEW i \in DOMAIN list, NoOverlap(list)
  PROVE  /\ RemoveAt(list, i) \in Seq(page_chunk)
         /\ NoOverlap(RemoveAt(list, i))
         /\ PagesIn(RemoveAt(list, i)) = PagesIn(list) \ Pages(list[i])
<1> DEFINE n == Len(list)
           r == RemoveAt(list, i)
           at(k) == IF k < i THEN k ELSE k + 1
<1>1. n \in Nat /\ DOMAIN list = 1 .. n /\ i \in 1 .. n
  BY ListShape
<1>2. r \in Seq(page_chunk) /\ Len(r) = n - 1
      /\ \A k \in 1 .. n - 1 : r[k] = IF k < i THEN list[k] ELSE list[k + 1]
  BY RemoveAtProperties
<1>3. DOMAIN r = 1 .. n - 1
  BY <1>2, LenProperties
<1>4. \A k \in 1 .. n - 1 : at(k) \in 1 .. n /\ at(k) # i /\ r[k] = list[at(k)]
  BY <1>1, <1>2
<1>5. \A k, l \in 1 .. n - 1 : k # l => at(k) # at(l)
  BY <1>1
<1>6. \A j \in 1 .. n : j # i => \E k \in 1 .. n - 1 : at(k) = j
  <2> SUFFICES ASSUME NEW j \in 1 .. n, j # i
               PROVE  \E k \in 1 .. n - 1 : at(k) = j
    OBVIOUS
  <2>1. CASE j < i
    BY <2>1, <1>1
  <2>2. CASE j > i
    <3>1. j - 1 \in 1 .. n - 1 /\ at(j - 1) = j
      BY <2>2, <1>1
    <3> QED BY <3>1
  <2> QED BY <2>1, <2>2, <1>1
<1> HIDE DEF at, r, n
<1>7. NoOverlap(r)
  BY <1>1, <1>3, <1>4, <1>5 DEF NoOverlap
<1>8. ASSUME NEW q \in PagesIn(r)
      PROVE  q \in PagesIn(list) \ Pages(list[i])
  <2>1. PICK k \in 1 .. n - 1 : q \in Pages(r[k])
    BY <1>3 DEF PagesIn
  <2>2. at(k) \in DOMAIN list /\ at(k) # i /\ q \in Pages(list[at(k)])
    BY <1>1, <1>4, <2>1
  <2> QED BY <1>1, <2>2 DEF NoOverlap, PagesIn
<1>9. ASSUME NEW q \in PagesIn(list) \ Pages(list[i])
      PROVE  q \in PagesIn(r)
  <2>1. PICK j \in 1 .. n : q \in Pages(list[j])
    BY <1>1 DEF PagesIn
  <2>2. j # i
    BY <2>1
  <2>3. PICK k \in 1 .. n - 1 : at(k) = j
    BY <1>6, <2>2
  <2>4. q \in Pages(r[k])
    BY <1>4, <2>1, <2>3
  <2> QED BY <1>3, <2>4 DEF PagesIn
<1>10. PagesIn(r) = PagesIn(list) \ Pages(list[i])
  BY <1>8, <1>9
<1> QED BY <1>2, <1>7, <1>10 DEF r

(* Chunk d overlaps no chunk of the list but perhaps the i-th.             *)
Apart(list, i, d) ==
  \A j \in DOMAIN list : j # i => Pages(list[j]) \cap Pages(d) = {}

(* r is the list with chunk d in the i-th place.                           *)
ChunkReplaced(r, list, i, d) ==
  /\ DOMAIN r = DOMAIN list
  /\ r[i] = d
  /\ \A j \in DOMAIN list : j # i => r[j] = list[j]

(* Putting a chunk that overlaps no other one in the place of the i-th.    *)
LEMMA ReplaceChunk ==
  ASSUME NEW list \in Seq(page_chunk), NEW i \in DOMAIN list, NoOverlap(list),
         NEW d \in page_chunk,
         Apart(list, i, d),
         NEW r \in Seq(page_chunk), ChunkReplaced(r, list, i, d)
  PROVE  /\ NoOverlap(r)
         /\ PagesIn(r) = (PagesIn(list) \ Pages(list[i])) \cup Pages(d)
<1>1. DOMAIN r = DOMAIN list /\ r[i] = d /\ \A j \in DOMAIN list : j # i => r[j] = list[j]
  BY DEF ChunkReplaced
<1>2. NoOverlap(r)
  BY <1>1 DEF NoOverlap, Apart
<1>3. ASSUME NEW q \in PagesIn(r)
      PROVE  q \in (PagesIn(list) \ Pages(list[i])) \cup Pages(d)
  <2>1. PICK k \in DOMAIN list : q \in Pages(r[k])
    BY <1>1 DEF PagesIn
  <2>2. CASE k = i
    BY <1>1, <2>1, <2>2
  <2>3. CASE k # i
    BY <1>1, <2>1, <2>3 DEF NoOverlap, PagesIn
  <2> QED BY <2>2, <2>3
<1>4. ASSUME NEW q \in (PagesIn(list) \ Pages(list[i])) \cup Pages(d)
      PROVE  q \in PagesIn(r)
  <2>1. CASE q \in Pages(d)
    BY <1>1, <2>1 DEF PagesIn
  <2>2. CASE q \in PagesIn(list) \ Pages(list[i])
    <3>1. PICK k \in DOMAIN list : q \in Pages(list[k])
      BY <2>2 DEF PagesIn
    <3>2. q \in Pages(r[k])
      BY <1>1, <2>2, <3>1
    <3> QED BY <1>1, <3>2 DEF PagesIn
  <2> QED BY <2>1, <2>2
<1> QED BY <1>2, <1>3, <1>4

(* Linking a chunk that overlaps no other one at the head of the list.     *)
LEMMA LinkChunk ==
  ASSUME NEW list \in Seq(page_chunk), NoOverlap(list),
         NEW c \in page_chunk, Pages(c) \cap PagesIn(list) = {},
         NEW r, r = <<c>> \o list
  PROVE  /\ r \in Seq(page_chunk)
         /\ NoOverlap(r)
         /\ PagesIn(r) = PagesIn(list) \cup Pages(c)
<1> DEFINE n == Len(list)
<1>1. n \in Nat /\ DOMAIN list = 1 .. n
  BY ListShape
<1>2. /\ r \in Seq(page_chunk)
      /\ Len(r) = n + 1
      /\ r[1] = c
      /\ \A k \in 2 .. n + 1 : r[k] = list[k - 1]
  <2>1. <<c>> \in Seq(page_chunk) /\ Len(<<c>>) = 1 /\ <<c>>[1] = c
    OBVIOUS
  <2>2. /\ <<c>> \o list \in Seq(page_chunk)
        /\ Len(<<c>> \o list) = 1 + n
        /\ \A k \in 1 .. 1 + n :
             (<<c>> \o list)[k] = IF k <= 1 THEN <<c>>[k] ELSE list[k - 1]
    BY <2>1, ConcatProperties
  <2> QED BY <1>1, <2>1, <2>2
<1>3. DOMAIN r = 1 .. n + 1
  BY <1>2, LenProperties
<1>4. \A k \in 1 .. n : k + 1 \in 1 .. n + 1 /\ k + 1 # 1 /\ r[k + 1] = list[k]
  BY <1>1, <1>2
<1>5. \A k \in 1 .. n + 1 : k = 1 \/ (k - 1 \in 1 .. n /\ r[k] = list[k - 1])
  BY <1>1, <1>2
<1>6. 1 \in 1 .. n + 1
  BY <1>1
<1>7. \A k \in 1 .. n : Pages(c) \cap Pages(list[k]) = {}
  BY <1>1 DEF PagesIn
<1>8. NoOverlap(r)
  <2> SUFFICES ASSUME NEW k \in 1 .. n + 1, NEW l \in 1 .. n + 1, k # l
               PROVE  Pages(r[k]) \cap Pages(r[l]) = {}
    BY <1>3 DEF NoOverlap
  <2>1. CASE k = 1
    BY <1>2, <1>5, <1>7, <2>1
  <2>2. CASE l = 1
    BY <1>2, <1>5, <1>7, <2>2
  <2>3. CASE k # 1 /\ l # 1
    <3>1. k - 1 \in 1 .. n /\ l - 1 \in 1 .. n /\ k - 1 # l - 1
      BY <1>1, <2>3
    <3> QED BY <1>1, <1>5, <2>3, <3>1 DEF NoOverlap
  <2> QED BY <2>1, <2>2, <2>3
<1>9. ASSUME NEW q \in PagesIn(r)
      PROVE  q \in PagesIn(list) \cup Pages(c)
  <2>1. PICK k \in 1 .. n + 1 : q \in Pages(r[k])
    BY <1>3 DEF PagesIn
  <2> QED BY <1>1, <1>2, <1>5, <2>1 DEF PagesIn
<1>10. ASSUME NEW q \in PagesIn(list) \cup Pages(c)
       PROVE  q \in PagesIn(r)
  <2>1. CASE q \in Pages(c)
    BY <1>2, <1>3, <1>6, <2>1 DEF PagesIn
  <2>2. CASE q \in PagesIn(list)
    <3>1. PICK k \in 1 .. n : q \in Pages(list[k])
      BY <1>1, <2>2 DEF PagesIn
    <3> QED BY <1>3, <1>4, <3>1 DEF PagesIn
  <2> QED BY <2>1, <2>2
<1> QED BY <1>2, <1>8, <1>9, <1>10

(* alloc_phys_pages takes a run off the end of one chunk, and leaves the   *)
(* rest of the list as it was.                                             *)
LEMMA CutTakes ==
  ASSUME NEW list \in Seq(page_chunk), NEW i \in DOMAIN list, NoOverlap(list),
         NEW n \in Nat \ {0}, Fits(list[i], n), NEW r, r = Cut(list, i, n)
  PROVE  /\ r \in Seq(page_chunk)
         /\ NoOverlap(r)
         /\ End(list[i]) - n \in RAM
         /\ Run(End(list[i]) - n, n) \subseteq Pages(list[i])
         /\ PagesIn(r) = PagesIn(list) \ Run(End(list[i]) - n, n)
<1> DEFINE c == list[i]
           taken == Run(End(c) - n, n)
<1>1. c \in page_chunk
  BY ListShape
<1>2. /\ c.pp \in Nat /\ c.pagecnt \in Nat /\ End(c) \in Nat /\ End(c) = c.pp + c.pagecnt
      /\ End(c) <= NPAGES /\ NPAGES \in Nat
  BY <1>1, PageAssumption DEF page_chunk, End, RAM
<1>3. n <= c.pagecnt
  BY <1>2 DEF Fits
<1>4. End(c) - n \in RAM /\ taken \subseteq Pages(c)
  <2>1. n \in Nat \ {0} /\ End(c) - n \in Nat /\ c.pp <= End(c) - n
    BY <1>2, <1>3
  <2>2. End(c) - n \in RAM
    BY <1>2, <2>1 DEF RAM
  <2>3. taken = End(c) - n .. End(c) - 1
    BY <1>2, <2>1 DEF Run
  <2>4. Pages(c) = c.pp .. End(c) - 1
    BY <1>2 DEF Pages, Run
  <2> HIDE DEF c, taken
  <2> QED BY <1>2, <2>1, <2>2, <2>3, <2>4
<1>5. CASE c.pagecnt = n
  <2>1. r = RemoveAt(list, i)
    BY <1>5 DEF Cut
  <2>2. taken = Pages(c)
    BY <1>2, <1>5 DEF Run, Pages, End
  <2> QED BY <1>4, <2>1, <2>2, UnlinkChunk
<1>6. CASE c.pagecnt # n
  <2> DEFINE d == [c EXCEPT !.pagecnt = @ - n]
  <2>1. r = [list EXCEPT ![i] = d]
    BY <1>6 DEF Cut
  <2>2. d.pp = c.pp /\ d.pagecnt = c.pagecnt - n
    BY <1>1 DEF page_chunk
  <2>3. d \in page_chunk
    <3>0. c.pagecnt \in 1 .. NPAGES /\ c.pagecnt - n \in 1 .. NPAGES
      BY <1>1, <1>2, <1>3, <1>6 DEF page_chunk
    <3>1. d \in [pp : RAM, pagecnt : 1 .. NPAGES]
      BY <1>1, <2>2, <3>0 DEF page_chunk
    <3>2. End(d) <= NPAGES
      BY <1>2, <1>3, <2>2 DEF End
    <3> QED BY <3>1, <3>2 DEF page_chunk
  <2>4. Pages(d) = Pages(c) \ taken
    <3>1. Pages(c) = c.pp .. End(c) - 1
      BY <1>2 DEF Pages, Run
    <3>2. taken = End(c) - n .. End(c) - 1
      BY <1>2 DEF Run
    <3>3. Pages(d) = c.pp .. End(c) - n - 1
      BY <1>2, <2>2 DEF Pages, Run
    <3> HIDE DEF c, d, taken
    <3> QED BY <1>2, <1>3, <3>1, <3>2, <3>3
  <2>5. Apart(list, i, d)
    BY <2>4 DEF NoOverlap, Apart
  <2> HIDE DEF d, taken
  <2>9. r \in Seq(page_chunk) /\ ChunkReplaced(r, list, i, d)
    BY <2>1, <2>3, ExceptSeq DEF ChunkReplaced
  <2>6. /\ NoOverlap(r)
        /\ PagesIn(r) = (PagesIn(list) \ Pages(c)) \cup Pages(d)
    BY <2>9, <2>3, <2>5, ReplaceChunk
  <2>7. Pages(c) \subseteq PagesIn(list)
    BY DEF PagesIn
  <2>8. PagesIn(r) = PagesIn(list) \ taken
    BY <1>4, <2>4, <2>6, <2>7
  <2> QED BY <1>4, <2>6, <2>8, <2>9 DEF taken
<1> QED BY <1>5, <1>6

(* A run of pages of RAM none of which is in a chunk.                      *)
Unlisted(list, pp, n) == Run(pp, n) \subseteq RAM \ PagesIn(list)

(* free_phys_pages puts a run behind the chunk that ends where it begins.  *)
LEMMA ExtendGives ==
  ASSUME NEW list \in Seq(page_chunk), NEW i \in DOMAIN list, NoOverlap(list),
         NEW n \in Nat \ {0}, NEW pp \in RAM, Extends(list, i, pp, n),
         Unlisted(list, pp, n),
         NEW r, r = Grow(list, i, n)
  PROVE  /\ r \in Seq(page_chunk)
         /\ NoOverlap(r)
         /\ PagesIn(r) = PagesIn(list) \cup Run(pp, n)
<1> DEFINE c == list[i]
           d == [c EXCEPT !.pagecnt = @ + n]
<1>1. c \in page_chunk
  BY ListShape
<1>2. /\ c.pp \in Nat /\ c.pagecnt \in Nat \ {0} /\ pp = c.pp + c.pagecnt
      /\ NPAGES \in Nat
  BY <1>1, PageAssumption DEF page_chunk, End, RAM, Extends
<1>3. pp + n <= NPAGES
  <2>1. pp + n - 1 \in Run(pp, n)
    BY <1>2 DEF Run
  <2>2. pp + n - 1 \in 0 .. NPAGES - 1
    BY <2>1 DEF RAM, Unlisted
  <2> QED BY <1>2, <2>2
<1>4. r = [list EXCEPT ![i] = d]
  BY DEF Grow
<1>5. d.pp = c.pp /\ d.pagecnt = c.pagecnt + n
  BY <1>1 DEF page_chunk
<1>6. d \in page_chunk
  <2>1. c.pp \in RAM /\ c.pagecnt + n \in 1 .. NPAGES
    BY <1>1, <1>2, <1>3 DEF page_chunk
  <2>2. d \in [pp : RAM, pagecnt : 1 .. NPAGES]
    BY <1>1, <2>1 DEF page_chunk
  <2>3. End(d) <= NPAGES
    BY <1>2, <1>3, <1>5 DEF End
  <2> QED BY <2>2, <2>3 DEF page_chunk
<1>7. Pages(d) = Pages(c) \cup Run(pp, n)
  BY <1>2, <1>5, SMTT(30) DEF Pages, Run
<1>8. \A j \in DOMAIN list : Pages(list[j]) \subseteq PagesIn(list)
  BY DEF PagesIn
<1>13. c = list[i]
  OBVIOUS
<1> HIDE DEF c, d
<1>9. Apart(list, i, d)
  BY <1>7, <1>8, <1>13 DEF NoOverlap, Apart, Unlisted
<1>12. r \in Seq(page_chunk) /\ ChunkReplaced(r, list, i, d)
  BY <1>4, <1>6, ExceptSeq DEF ChunkReplaced
<1>10. /\ NoOverlap(r)
       /\ PagesIn(r) = (PagesIn(list) \ Pages(list[i])) \cup Pages(d)
  BY <1>6, <1>9, <1>12, ReplaceChunk
<1>11. PagesIn(r) = PagesIn(list) \cup Run(pp, n)
  BY <1>7, <1>8, <1>13, <1>10
<1> QED BY <1>10, <1>11, <1>12

(* free_phys_pages makes a chunk of a run that no chunk ends at.           *)
LEMMA LinkGives ==
  ASSUME NEW list \in Seq(page_chunk), NoOverlap(list),
         NEW n \in Nat \ {0}, NEW pp \in RAM,
         Unlisted(list, pp, n),
         NEW r, r = <<[pp |-> pp, pagecnt |-> n]>> \o list
  PROVE  /\ r \in Seq(page_chunk)
         /\ NoOverlap(r)
         /\ PagesIn(r) = PagesIn(list) \cup Run(pp, n)
<1> DEFINE c == [pp |-> pp, pagecnt |-> n]
<1>1. pp \in Nat /\ NPAGES \in Nat
  BY PageAssumption DEF RAM
<1>2. pp + n <= NPAGES
  <2>1. pp + n - 1 \in Run(pp, n)
    BY <1>1 DEF Run
  <2>2. pp + n - 1 \in 0 .. NPAGES - 1
    BY <2>1 DEF RAM, Unlisted
  <2> QED BY <1>1, <2>2
<1>3. c \in page_chunk
  BY <1>1, <1>2 DEF page_chunk, End
<1>4. Pages(c) = Run(pp, n)
  BY DEF Pages
<1> HIDE DEF c
<1>5. r = <<c>> \o list
  BY DEF c
<1>6. Pages(c) \cap PagesIn(list) = {}
  BY <1>4 DEF Unlisted
<1> QED BY <1>3, <1>4, <1>5, <1>6, LinkChunk
----------------------------------------------------------------------------
(* The invariant, one step per action.                                     *)

PageInv == PageTypeOK /\ Partition

LEMMA PageInvInit ==
  ASSUME PageInit
  PROVE  PageInv
<1> DEFINE c == [pp |-> 0, pagecnt |-> NPAGES]
<1>1. c \in page_chunk /\ Pages(c) = RAM
  BY PageAssumption DEF page_chunk, Pages, Run, End, RAM
<1> HIDE DEF c
<1>2. free_chunk_list = <<c>> /\ held = {} /\ panicked = FALSE
  BY DEF PageInit, c
<1>3. <<c>> \in Seq(page_chunk) /\ DOMAIN <<c>> = {1} /\ <<c>>[1] = c
  BY <1>1
<1>4. PageTypeOK
  BY <1>2, <1>3 DEF PageTypeOK
<1>5. PagesIn(free_chunk_list) = RAM /\ NoOverlap(free_chunk_list)
  BY <1>1, <1>2, <1>3 DEF PagesIn, NoOverlap
<1> QED BY <1>2, <1>4, <1>5 DEF PageInv, Partition, Disjoint, NothingLost

LEMMA AllocStep ==
  ASSUME PageInv, NEW n \in 1 .. MaxCnt, alloc_phys_pages(n)
  PROVE  PageInv' /\ Pool!Take(n)
<1> USE DEF PageInv, PageTypeOK, Partition, Disjoint, NothingLost
<1>1. n \in Nat \ {0}
  BY PageAssumption
<1>2. PICK i \in DOMAIN free_chunk_list :
        /\ Fits(free_chunk_list[i], n)
        /\ free_chunk_list' = Cut(free_chunk_list, i, n)
        /\ held' = held \cup Run(End(free_chunk_list[i]) - n, n)
        /\ panicked' = panicked
  BY DEF alloc_phys_pages, Best
<1> DEFINE pp == End(free_chunk_list[i]) - n
<1>3. /\ free_chunk_list' \in Seq(page_chunk)
      /\ NoOverlap(free_chunk_list')
      /\ pp \in RAM
      /\ Run(pp, n) \subseteq Pages(free_chunk_list[i])
      /\ PagesIn(free_chunk_list') = PagesIn(free_chunk_list) \ Run(pp, n)
  BY <1>1, <1>2, CutTakes
<1>4. Pages(free_chunk_list[i]) \subseteq PagesIn(free_chunk_list)
  BY DEF PagesIn
<1> HIDE DEF pp
<1>5. held' = held \cup Run(pp, n)
  BY <1>2 DEF pp
<1>6. Run(pp, n) \subseteq RAM \ held
  BY <1>3, <1>4
<1>7. PageTypeOK'
  BY <1>2, <1>3, <1>5, <1>6
<1>8. Partition'
  BY <1>3, <1>4, <1>5 DEF NoOverlap, PagesIn
<1>9. Pool!Take(n)
  BY <1>2, <1>3, <1>5, <1>6 DEF Pool!Take, Pool!Run, Run
<1> QED BY <1>7, <1>8, <1>9

LEMMA FreeStep ==
  ASSUME PageInv, NEW n \in 1 .. MaxCnt, NEW pp \in RAM, free_phys_pages(pp, n)
  PROVE  PageInv' /\ Pool!Give(n)
<1> USE DEF PageInv, PageTypeOK, Partition, Disjoint, NothingLost
<1>1. n \in Nat \ {0}
  BY PageAssumption
<1>2. /\ Run(pp, n) \subseteq held
      /\ held' = held \ Run(pp, n)
      /\ panicked' = panicked
      /\ FreeExtends(pp, n) \/ FreeLinks(pp, n)
  BY DEF free_phys_pages
<1>3. Unlisted(free_chunk_list, pp, n)
  BY <1>2 DEF Unlisted
<1>4. /\ free_chunk_list' \in Seq(page_chunk)
      /\ NoOverlap(free_chunk_list')
      /\ PagesIn(free_chunk_list') = PagesIn(free_chunk_list) \cup Run(pp, n)
  <2>1. CASE FreeExtends(pp, n)
    <3>1. PICK i \in DOMAIN free_chunk_list :
            /\ Extends(free_chunk_list, i, pp, n)
            /\ free_chunk_list' = Grow(free_chunk_list, i, n)
      BY <2>1 DEF FreeExtends
    <3> QED BY <1>1, <1>3, <3>1, ExtendGives
  <2>2. CASE FreeLinks(pp, n)
    BY <1>1, <1>3, <2>2, LinkGives DEF FreeLinks
  <2> QED BY <1>2, <2>1, <2>2
<1>5. PageTypeOK'
  BY <1>2, <1>4
<1>6. Partition'
  BY <1>2, <1>4 DEF NoOverlap, PagesIn
<1>7. Pool!Give(n)
  BY <1>2 DEF Pool!Give, Pool!Run, Run
<1> QED BY <1>5, <1>6, <1>7

(* A request for one page panics only when the list is empty, because a    *)
(* chunk is never empty.                                                   *)
LEMMA PanicStep ==
  ASSUME PageInv, NEW n \in 1 .. MaxCnt, Panic(n)
  PROVE  PageInv' /\ Pool!Fail(n)
<1> USE DEF PageInv, PageTypeOK, Partition, Disjoint, NothingLost
<1>1. /\ \A i \in DOMAIN free_chunk_list : ~Fits(free_chunk_list[i], n)
      /\ free_chunk_list' = free_chunk_list /\ held' = held /\ panicked' = TRUE
  BY DEF Panic
<1>2. ASSUME n = 1
      PROVE  held = RAM
  <2>1. ASSUME NEW i \in DOMAIN free_chunk_list
        PROVE  FALSE
    <3>1. free_chunk_list[i] \in page_chunk
      BY <2>1, ListShape
    <3>2. free_chunk_list[i].pagecnt \in Nat \ {0}
      BY <3>1, PageAssumption DEF page_chunk
    <3> QED BY <1>1, <1>2, <3>2 DEF Fits
  <2>2. PagesIn(free_chunk_list) = {}
    BY <2>1 DEF PagesIn
  <2> QED BY <2>2
<1>3. PageTypeOK'
  BY <1>1
<1>4. Partition'
  BY <1>1 DEF NoOverlap, PagesIn
<1>5. Pool!Fail(n)
  BY <1>1, <1>2 DEF Pool!Fail
<1> QED BY <1>3, <1>4, <1>5

(* Every step keeps the invariant and is a step of the pool.               *)
LEMMA PageStep ==
  ASSUME PageInv, [PageNext]_pageVars
  PROVE  PageInv' /\ [Pool!Next]_<<held, panicked>>
<1>1. CASE UNCHANGED pageVars
  <2>1. free_chunk_list' = free_chunk_list /\ held' = held /\ panicked' = panicked
    BY <1>1 DEF pageVars
  <2> QED BY <2>1 DEF PageInv, PageTypeOK, Partition, Disjoint, NothingLost,
                      NoOverlap, PagesIn
<1>2. CASE PageNext
  <2>1. PICK n \in 1 .. MaxCnt :
          \/ alloc_phys_pages(n)
          \/ Panic(n)
          \/ \E pp \in RAM : free_phys_pages(pp, n)
    BY <1>2 DEF PageNext
  <2>2. ~panicked
    BY <1>2 DEF PageNext
  <2>3. CASE alloc_phys_pages(n)
    <3>1. PageInv' /\ Pool!Take(n)
      BY <2>3, AllocStep
    <3> QED BY <2>2, <3>1 DEF Pool!Next
  <2>4. CASE Panic(n)
    <3>1. PageInv' /\ Pool!Fail(n)
      BY <2>4, PanicStep
    <3> QED BY <2>2, <3>1 DEF Pool!Next
  <2>5. CASE \E pp \in RAM : free_phys_pages(pp, n)
    <3>1. PageInv' /\ Pool!Give(n)
      BY <2>5, FreeStep
    <3> QED BY <2>2, <3>1 DEF Pool!Next
  <2> QED BY <2>1, <2>3, <2>4, <2>5
<1> QED BY <1>1, <1>2
----------------------------------------------------------------------------
(* The variables keep their types: no chunk ever reaches past the end of   *)
(* RAM or becomes empty.                                                   *)
THEOREM PageTyping == PageSpec => []PageTypeOK
<1>1. PageInit => PageInv
  BY PageInvInit
<1>2. PageInv /\ [PageNext]_pageVars => PageInv'
  BY PageStep
<1>3. PageInv => PageTypeOK
  BY DEF PageInv
<1> QED BY <1>1, <1>2, <1>3, PTL DEF PageSpec

(* Every page between the boot heap and the end of RAM is in exactly one   *)
(* chunk or held by a caller.                                              *)
THEOREM PagePartition == PageSpec => []Partition
<1>1. PageInit => PageInv
  BY PageInvInit
<1>2. PageInv /\ [PageNext]_pageVars => PageInv'
  BY PageStep
<1>3. PageInv => Partition
  BY DEF PageInv
<1> QED BY <1>1, <1>2, <1>3, PTL DEF PageSpec

(* The chunk list implements the pool: a request is answered with pages    *)
(* that nobody holds, and one for a single page panics only when every     *)
(* page is held.                                                           *)
THEOREM PageRefinement == PageSpec => PoolSpec
<1>1. PageInit => PageInv
  BY PageInvInit
<1>2. PageInv /\ [PageNext]_pageVars => PageInv'
  BY PageStep
<1>3. PageInit => Pool!Init
  BY DEF PageInit, Pool!Init
<1>4. PageInv /\ [PageNext]_pageVars => [Pool!Next]_<<held, panicked>>
  BY PageStep
<1> QED BY <1>1, <1>2, <1>3, <1>4, PTL DEF PageSpec, PoolSpec, Pool!Spec
----------------------------------------------------------------------------
(* The heap, as one caller of the allocator.                               *)

(* A page is PAGE_SIZE units, and two pages share none.                    *)
LEMMA PageUnits ==
  ASSUME NEW pp \in RAM
  PROVE  /\ Base(pp) \in Nat /\ Base(pp + 1) = Base(pp) + PAGE_SIZE
         /\ \A qq \in RAM : qq # pp =>
              (Base(pp) .. Base(pp + 1) - 1) \cap (Base(qq) .. Base(qq + 1) - 1) = {}
<1>1. pp \in Nat /\ PAGE_SIZE \in Nat
  BY HeapAssumption, PageAssumption DEF RAM
<1>2. ASSUME NEW k \in Nat, NEW l \in Nat, k < l
      PROVE  Base(k + 1) <= Base(l)
  <2>1. PICK d \in Nat : l = k + 1 + d
    <3>1. l - k - 1 \in Nat /\ l = k + 1 + (l - k - 1)
      BY <1>2
    <3> QED BY <3>1
  <2>2. Base(l) = Base(k + 1) + d * PAGE_SIZE
    BY <1>1, <2>1 DEF Base
  <2>3. d * PAGE_SIZE \in Nat /\ Base(k + 1) \in Nat
    BY <1>1 DEF Base
  <2> QED BY <2>2, <2>3
<1>3. \A k \in Nat : Base(k) \in Nat /\ Base(k + 1) = Base(k) + PAGE_SIZE
  BY <1>1 DEF Base
<1>4. ASSUME NEW qq \in RAM, qq # pp
      PROVE  (Base(pp) .. Base(pp + 1) - 1) \cap (Base(qq) .. Base(qq + 1) - 1) = {}
  <2>1. qq \in Nat /\ (qq < pp \/ pp < qq)
    BY <1>1, <1>4, PageAssumption DEF RAM
  <2>2. Base(qq + 1) <= Base(pp) \/ Base(pp + 1) <= Base(qq)
    BY <1>1, <1>2, <2>1
  <2>3. Base(pp) \in Nat /\ Base(qq) \in Nat /\ Base(pp + 1) \in Nat /\ Base(qq + 1) \in Nat
    BY <1>1, <1>3, <2>1
  <2> QED BY <2>2, <2>3
<1> QED BY <1>1, <1>3, <1>4

HeapTyped ==
  /\ heap_low \in Int /\ heap_end \in Int
  /\ blocks \subseteq [ptr : Int, size : 1 .. HEAP_ALLOC_MAX]
  /\ heapPages \subseteq RAM

HeapInv == PageInv /\ HeapTyped /\ HeapBlocks

(* The memory of the heap changes only by whole pages it did not have.     *)
LEMMA UnitsGrow ==
  ASSUME NEW page, heapPages' = heapPages \cup {page}
  PROVE  HeapUnits' = HeapUnits \cup (Base(page) .. Base(page + 1) - 1)
BY DEF HeapUnits, Base

LEMMA HeapStarts == HeapInit => HeapInv
<1> SUFFICES ASSUME HeapInit PROVE HeapInv
  OBVIOUS
<1>1. BootSize \in Nat \ {0}
  BY HeapAssumption
<1>2. PageInv
  BY PageInvInit DEF HeapInit
<1>3. HeapTyped
  BY <1>1 DEF HeapTyped, HeapInit
<1>4. HeapBlocks
  <2>1. PoolUnits = -BootSize .. -1
    BY <1>1 DEF HeapInit, PoolUnits
  <2> QED BY <1>1, <2>1 DEF HeapInit, HeapBlocks, HeapUnits
<1> QED BY <1>2, <1>3, <1>4 DEF HeapInv

(* Steps that leave the heap alone keep it, if its pages stay held.        *)
LEMMA HeapAlone ==
  ASSUME HeapInv, PageInv', heapPages \subseteq held', UNCHANGED heapVars
  PROVE  HeapInv'
BY DEF HeapInv, HeapTyped, HeapBlocks, HeapUnits, PoolUnits, heapVars

LEMMA OthersStep ==
  ASSUME HeapInv, Others
  PROVE  HeapInv'
<1>1. PICK n \in 1 .. MaxCnt :
        \/ alloc_phys_pages(n) \/ Panic(n)
        \/ \E pp \in RAM : Run(pp, n) \cap heapPages = {} /\ free_phys_pages(pp, n)
  BY DEF Others
<1>2. UNCHANGED heapVars /\ PageInv /\ heapPages \subseteq held
  BY DEF Others, HeapInv, HeapBlocks
<1>3. PageInv' /\ heapPages \subseteq held'
  <2>1. CASE alloc_phys_pages(n)
    BY <1>2, <2>1, AllocStep DEF alloc_phys_pages
  <2>2. CASE Panic(n)
    BY <1>2, <2>2, PanicStep DEF Panic
  <2>3. ASSUME NEW pp \in RAM, Run(pp, n) \cap heapPages = {}, free_phys_pages(pp, n)
        PROVE  PageInv' /\ heapPages \subseteq held'
    BY <1>2, <2>3, FreeStep DEF free_phys_pages
  <2> QED BY <1>1, <2>1, <2>2, <2>3
<1> QED BY <1>2, <1>3, HeapAlone

(* A block cut from the end of the pool.                                   *)
LEMMA PoolStep ==
  ASSUME HeapInv, NEW size \in 1 .. HEAP_ALLOC_MAX, AllocFromPool(size)
  PROVE  HeapInv'
<1> DEFINE new == [ptr |-> heap_end - size, size |-> size]
<1>1. /\ size \in Nat \ {0} /\ heap_low \in Int /\ heap_end \in Int /\ size + 1 <= heap_end - heap_low
      /\ blocks' = blocks \cup {new} /\ heap_end' = heap_end - size - 1
      /\ heap_low' = heap_low /\ heapPages' = heapPages /\ UNCHANGED pageVars
  BY HeapAssumption DEF AllocFromPool, FitsPool, Cutout, HDR, HeapInv, HeapTyped
<1>2. new \in [ptr : Int, size : 1 .. HEAP_ALLOC_MAX]
  BY <1>1
<1>3. Units(new) = heap_end - size - 1 .. heap_end - 1
  BY <1>1 DEF Units, HDR
<1> HIDE DEF new
<1>4. PageInv' /\ held' = held
  BY <1>1, PageStep DEF HeapInv, pageVars
<1>5. HeapTyped'
  BY <1>1, <1>2 DEF HeapInv, HeapTyped
<1>6. /\ Units(new) \subseteq PoolUnits /\ PoolUnits' \subseteq PoolUnits
      /\ Units(new) \cap PoolUnits' = {} /\ heap_low' <= heap_end' /\ HeapUnits' = HeapUnits
  BY <1>1, <1>3 DEF PoolUnits, HeapUnits
<1>7. HeapBlocks'
  BY <1>1, <1>4, <1>6 DEF HeapBlocks, HeapInv, Units
<1> QED BY <1>4, <1>5, <1>7 DEF HeapInv

(* A block at the end of a page that was free: it overlaps nothing of the  *)
(* heap, whether or not the rest of the page becomes the pool.             *)
LEMMA FromPageStep ==
  ASSUME HeapInv, NEW size \in 1 .. HEAP_ALLOC_MAX, AllocFromPage(size)
  PROVE  HeapInv'
<1> DEFINE page == CHOOSE pp \in RAM : pp \in held' \ held
           leftover == PAGE_SIZE - size - HDR
           new == [ptr |-> Base(page + 1) - size, size |-> size]
           units == Base(page) .. Base(page + 1) - 1
<1>1. /\ alloc_phys_pages(1) /\ blocks' = blocks \cup {new}
      /\ heapPages' = heapPages \cup {page}
      /\ \/ heap_low' = Base(page) /\ heap_end' = Base(page) + leftover
         \/ UNCHANGED <<heap_low, heap_end>>
  BY DEF AllocFromPage, Cutout
<1>2. PageInv' /\ Pool!Take(1)
  BY <1>1, AllocStep, PageAssumption DEF HeapInv
<1>3. PICK pp \in RAM : pp \notin held /\ held' = held \cup {pp}
  <2>1. PICK pp \in RAM : Pool!Run(pp, 1) \subseteq RAM \ held /\ held' = held \cup Pool!Run(pp, 1)
    BY <1>2 DEF Pool!Take
  <2>2. Pool!Run(pp, 1) = {pp}
    BY PageAssumption DEF Pool!Run, RAM
  <2> QED BY <2>1, <2>2
<1>4. page = pp
  BY <1>3
<1> HIDE DEF page
<1>5. page \in RAM /\ page \notin held /\ held' = held \cup {page}
  BY <1>3, <1>4
<1>6. /\ size \in Nat \ {0} /\ PAGE_SIZE \in Nat /\ size + 1 <= PAGE_SIZE
      /\ leftover = PAGE_SIZE - size - 1 /\ BootSize \in Nat
  BY HeapAssumption DEF HDR
<1>7. Base(page) \in Nat /\ Base(page + 1) = Base(page) + PAGE_SIZE
  BY <1>5, PageUnits
<1>8. new \in [ptr : Int, size : 1 .. HEAP_ALLOC_MAX]
  BY <1>6, <1>7
<1>9. Units(new) = Base(page) + leftover .. Base(page) + PAGE_SIZE - 1
  BY <1>6, <1>7 DEF Units, HDR
<1> HIDE DEF new, leftover
<1>10. HeapTyped'
  BY <1>1, <1>5, <1>6, <1>7, <1>8 DEF HeapInv, HeapTyped
<1>11. units \cap HeapUnits = {} /\ HeapUnits' = HeapUnits \cup units
  <2>1. \A qq \in heapPages : units \cap (Base(qq) .. Base(qq + 1) - 1) = {}
    <3>1. heapPages \subseteq RAM /\ page \notin heapPages
      BY <1>5 DEF HeapInv, HeapTyped, HeapBlocks
    <3> QED BY <1>5, <3>1, PageUnits
  <2>2. units \cap (-BootSize .. -1) = {}
    BY <1>6, <1>7
  <2> HIDE DEF units
  <2>3. units \cap HeapUnits = {}
    BY <2>1, <2>2 DEF HeapUnits
  <2> QED BY <1>1, <2>3, UnitsGrow DEF units
<1>12. Units(new) \subseteq units /\ units = Base(page) .. Base(page) + PAGE_SIZE - 1
  BY <1>6, <1>7, <1>9
<1> HIDE DEF units
<1>13. /\ heap_low' <= heap_end' /\ Units(new) \cap PoolUnits' = {}
       /\ PoolUnits' = PoolUnits \/ PoolUnits' \subseteq units
       /\ PoolUnits' \subseteq HeapUnits'
  <2>1. CASE heap_low' = Base(page) /\ heap_end' = Base(page) + leftover
    <3>1. PoolUnits' = Base(page) .. Base(page) + leftover - 1
      BY <1>6, <1>7, <2>1 DEF PoolUnits
    <3> QED BY <1>6, <1>7, <1>9, <1>11, <1>12, <2>1, <3>1
  <2>2. CASE UNCHANGED <<heap_low, heap_end>>
    <3>1. PoolUnits' = PoolUnits /\ heap_low <= heap_end /\ PoolUnits \subseteq HeapUnits
      BY <2>2 DEF PoolUnits, HeapInv, HeapBlocks
    <3> QED BY <1>11, <1>12, <2>2, <3>1
  <2> QED BY <1>1, <2>1, <2>2
<1>14. \A b \in blocks : /\ Units(b) \subseteq HeapUnits /\ Units(b) \cap PoolUnits = {}
                         /\ \A c \in blocks \ {b} : Units(b) \cap Units(c) = {}
  BY DEF HeapInv, HeapBlocks
<1>15. heapPages' \subseteq held'
  BY <1>1, <1>5 DEF HeapInv, HeapBlocks
<1>16. ASSUME NEW b \in blocks'
       PROVE  /\ Units(b) \subseteq HeapUnits' /\ Units(b) \cap PoolUnits' = {}
              /\ \A c \in blocks' \ {b} : Units(b) \cap Units(c) = {}
  <2>1. CASE b \in blocks
    <3>1. Units(b) \cap units = {} /\ Units(b) \subseteq HeapUnits'
      BY <1>11, <1>14, <2>1
    <3>2. Units(b) \cap PoolUnits' = {}
      BY <1>13, <1>14, <2>1, <3>1
    <3> QED BY <1>1, <1>12, <1>14, <2>1, <3>1, <3>2
  <2>2. CASE b = new
    <3>1. \A c \in blocks : Units(new) \cap Units(c) = {}
      BY <1>11, <1>12, <1>14
    <3> QED BY <1>1, <1>11, <1>12, <1>13, <2>2, <3>1
  <2> QED BY <1>1, <2>1, <2>2
<1>17. HeapBlocks'
  BY <1>13, <1>15, <1>16 DEF HeapBlocks, Units
<1> QED BY <1>2, <1>10, <1>17 DEF HeapInv

LEMMA HeapFreeStep ==
  ASSUME HeapInv, NEW b \in blocks, heap_free_actual(b)
  PROVE  HeapInv'
<1>1. /\ blocks' \subseteq blocks /\ UNCHANGED pageVars
      /\ heap_low' = heap_low /\ heap_end' = heap_end /\ heapPages' = heapPages
  BY DEF heap_free_actual
<1>2. PageInv' /\ held' = held
  BY <1>1, PageStep DEF HeapInv, pageVars
<1>3. PoolUnits' = PoolUnits /\ HeapUnits' = HeapUnits
  BY <1>1 DEF PoolUnits, HeapUnits
<1>4. HeapBlocks'
  BY <1>1, <1>2, <1>3 DEF HeapInv, HeapBlocks, Units
<1> QED BY <1>1, <1>2, <1>4 DEF HeapInv, HeapTyped

LEMMA HeapStep == HeapInv /\ [HeapNext]_allVars => HeapInv'
<1> SUFFICES ASSUME HeapInv, [HeapNext]_allVars PROVE HeapInv'
  OBVIOUS
<1>1. ASSUME NEW size \in 1 .. HEAP_ALLOC_MAX, heap_malloc_actual(size) \/ MallocPanic(size)
      PROVE  HeapInv'
  <2>1. CASE MallocPanic(size)
    <3>1. PageInv' /\ held' = held
      BY <2>1, PanicStep, PageAssumption DEF MallocPanic, Panic, HeapInv
    <3> QED BY <2>1, <3>1, HeapAlone DEF MallocPanic, HeapInv, HeapBlocks
  <2> QED BY <1>1, <2>1, PoolStep, FromPageStep DEF heap_malloc_actual
<1>2. CASE UNCHANGED allVars
  <2>1. PageInv' /\ held' = held
    BY <1>2, PageStep DEF HeapInv, allVars, pageVars
  <2> QED BY <1>2, <2>1, HeapAlone DEF allVars, HeapInv, HeapBlocks
<1> QED BY <1>1, <1>2, OthersStep, HeapFreeStep DEF HeapNext

(* Blocks with their headers and the pool never overlap each other, and    *)
(* all lie in pages the heap holds, whoever else takes and gives pages.    *)
THEOREM HeapBlocksHolds == HeapSpec => []HeapBlocks
<1>1. HeapInv => HeapBlocks
  BY DEF HeapInv
<1> QED BY <1>1, HeapStarts, HeapStep, PTL DEF HeapSpec


----------------------------------------------------------------------------
(* Taking pages from a pool.                                               *)

LEMMA NatMin ==
  ASSUME NEW T \in SUBSET Nat, T # {}
  PROVE  \E x \in T : \A y \in T : x <= y
<1> DEFINE R == OpToRel(<, Nat)
<1>1. \A x, y \in Nat : x < y => <<x, y>> \in R
  BY DEF OpToRel
<1>2. IsWellFoundedOn(R, Nat)
  BY NatLessThanWellFounded
<1> HIDE DEF R
<1>3. PICK x \in T : \A y \in T : ~ (<<y, x>> \in R)
  BY <1>2, WFMin
<1>4. ASSUME NEW y \in T
      PROVE  x <= y
  <2>1. x \in Nat /\ y \in Nat /\ ~(y < x)
    BY <1>1, <1>3
  <2> QED BY <2>1
<1> QED BY <1>3, <1>4

Below(S, x) == {y \in S : y < x}

LEMMA BelowFinite ==
  ASSUME NEW S \in SUBSET Nat, IsFiniteSet(S), NEW x \in S
  PROVE  /\ IsFiniteSet(Below(S, x)) /\ Cardinality(Below(S, x)) \in Nat
         /\ IsFiniteSet({y \in S : y <= x})
         /\ Cardinality({y \in S : y <= x}) = Cardinality(Below(S, x)) + 1
<1>1. IsFiniteSet(Below(S, x)) /\ Cardinality(Below(S, x)) \in Nat
  BY FS_Subset, FS_CardinalityType DEF Below
<1>2. {y \in S : y <= x} = Below(S, x) \cup {x} /\ x \notin Below(S, x)
  <2>1. \A y \in S : (y <= x <=> y < x \/ y = x) /\ ~(x < x)
    OBVIOUS
  <2> QED BY <2>1 DEF Below
<1> QED BY <1>1, <1>2, FS_AddElement

(* The smallest element, and the one after x.                              *)
LEMMA FirstElement ==
  ASSUME NEW S \in SUBSET Nat, S # {}
  PROVE  \E x \in S : Below(S, x) = {}
<1>1. PICK x \in S : \A y \in S : x <= y
  BY NatMin
<1>2. \A y \in S : ~(y < x)
  BY <1>1
<1> QED BY <1>2 DEF Below

LEMMA NextElement ==
  ASSUME NEW S \in SUBSET Nat, IsFiniteSet(S), NEW x \in S,
         Cardinality(Below(S, x)) + 1 < Cardinality(S)
  PROVE  \E y \in S : Cardinality(Below(S, y)) = Cardinality(Below(S, x)) + 1
<1> DEFINE T == {y \in S : x < y}
           L == {y \in S : y <= x}
<1>1. T # {}
  <2>1. SUFFICES ASSUME T = {} PROVE FALSE
    OBVIOUS
  <2>2. L = S
    <3>1. \A y \in S : x < y \/ y <= x
      OBVIOUS
    <3> QED BY <2>1, <3>1
  <2>3. Cardinality(S) = Cardinality(Below(S, x)) + 1 /\ Cardinality(Below(S, x)) \in Nat
    BY <2>2, BelowFinite
  <2> QED BY <2>3
<1>2. PICK y \in T : \A z \in T : y <= z
  BY <1>1, NatMin
<1>3. Below(S, y) = L
  <2>1. ASSUME NEW z \in S
        PROVE  z < y <=> z <= x
    <3>1. z \in Nat /\ x \in Nat /\ y \in Nat /\ x < y
      BY <1>2
    <3>2. x < z => y <= z
      BY <1>2
    <3> QED BY <3>1, <3>2
  <2> QED BY <2>1 DEF Below
<1> QED BY <1>2, <1>3, BelowFinite

(* A finite set of numbers has a k-th element.                             *)
LEMMA NthExists ==
  ASSUME NEW S \in SUBSET Nat, IsFiniteSet(S), NEW k \in 1 .. Cardinality(S)
  PROVE  \E x \in S : Cardinality(Below(S, x)) = k - 1
<1> DEFINE Missing == {j \in 1 .. Cardinality(S) :
                         ~ \E x \in S : Cardinality(Below(S, x)) = j - 1}
<1>0. Cardinality(S) \in Nat
  BY FS_CardinalityType
<1>1. SUFFICES ASSUME k \in Missing PROVE FALSE
  OBVIOUS
<1>2. PICK j \in Missing : \A i \in Missing : j <= i
  <2>1. Missing \in SUBSET Nat /\ Missing # {}
    BY <1>0, <1>1
  <2> QED BY <2>1, NatMin
<1>3. j \in 1 .. Cardinality(S) /\ ~ \E x \in S : Cardinality(Below(S, x)) = j - 1
  OBVIOUS
<1>4. CASE j = 1
  <2>1. S # {}
    BY <1>0, <1>3, FS_EmptySet
  <2>2. PICK x \in S : Below(S, x) = {}
    BY <2>1, FirstElement
  <2> QED BY <1>3, <1>4, <2>2, FS_EmptySet
<1>5. CASE j # 1
  <2>1. j - 1 \in 1 .. Cardinality(S) /\ j \in Nat /\ ~(j <= j - 1)
    BY <1>0, <1>3, <1>5
  <2>2. PICK x \in S : Cardinality(Below(S, x)) = j - 2
    BY <1>2, <2>1
  <2>3. Cardinality(Below(S, x)) + 1 = j - 1 /\ j - 1 < Cardinality(S)
    BY <1>0, <1>3, <2>1, <2>2
  <2>4. \E y \in S : Cardinality(Below(S, y)) = j - 1
    BY <2>3, NextElement
  <2> QED BY <1>3, <2>4
<1> QED BY <1>4, <1>5

LEMMA NthOK ==
  ASSUME NEW S \in SUBSET Nat, IsFiniteSet(S), NEW k \in 1 .. Cardinality(S)
  PROVE  Nth(S, k) \in S /\ Cardinality(Below(S, Nth(S, k))) = k - 1
<1>1. Nth(S, k) = CHOOSE x \in S : Cardinality(Below(S, x)) = k - 1
  BY DEF Nth, Below
<1> QED BY <1>1, NthExists

(* Which place an element has.                                             *)
LEMMA Ranks ==
  ASSUME NEW N \in SUBSET Nat, IsFiniteSet(N)
  PROVE  /\ \A n \in N : Cardinality({m \in N : m <= n}) \in 1 .. Cardinality(N)
         /\ \A n, m \in N : n # m => Cardinality({i \in N : i <= n})
                                       # Cardinality({i \in N : i <= m})
<1>1. ASSUME NEW n \in N
      PROVE  Cardinality({m \in N : m <= n}) \in 1 .. Cardinality(N)
  <2>1. Cardinality({m \in N : m <= n}) <= Cardinality(N) /\ Cardinality(N) \in Nat
    BY FS_Subset, FS_CardinalityType
  <2> QED BY <2>1, BelowFinite
<1>2. ASSUME NEW n \in N, NEW m \in N, n < m
      PROVE  Cardinality({i \in N : i <= n}) # Cardinality({i \in N : i <= m})
  <2>1. /\ IsFiniteSet({i \in N : i <= m})
        /\ {i \in N : i <= n} \in SUBSET {i \in N : i <= m}
        /\ m \in {i \in N : i <= m} /\ m \notin {i \in N : i <= n}
    <3>1. \A i \in N : i <= n => i <= m
      BY <1>2
    <3>2. m <= m /\ ~(m <= n)
      BY <1>2
    <3> QED BY <3>1, <3>2, FS_Subset
  <2> QED BY <2>1, FS_Subset
<1>3. \A n, m \in N : n # m => n < m \/ m < n
  OBVIOUS
<1> QED BY <1>1, <1>2, <1>3

(* Alloc gives every node a page of the pool, no page twice.               *)
LEMMA AllocOK ==
  ASSUME NEW N \in SUBSET Nat, IsFiniteSet(N),
         NEW pool \in SUBSET Nat, IsFiniteSet(pool), Enough(N, pool)
  PROVE  /\ Alloc(N, pool) \in [N -> pool]
         /\ \A n, m \in N : Alloc(N, pool)[n] = Alloc(N, pool)[m] => n = m
<1> DEFINE rank(n) == Cardinality({m \in N : m <= n})
<1>1. \A n \in N : rank(n) \in 1 .. Cardinality(pool)
  <2>1. Cardinality(N) \in Nat /\ Cardinality(pool) \in Nat /\ Cardinality(N) <= Cardinality(pool)
    BY FS_CardinalityType DEF Enough
  <2> QED BY <2>1, Ranks
<1>2. \A n \in N : /\ Nth(pool, rank(n)) \in pool
                   /\ Cardinality(Below(pool, Nth(pool, rank(n)))) = rank(n) - 1
  BY <1>1, NthOK
<1>3. \A n, m \in N : n # m => rank(n) # rank(m) /\ rank(n) \in Int /\ rank(m) \in Int
  BY <1>1, Ranks
<1>4. Alloc(N, pool) = [n \in N |-> Nth(pool, rank(n))]
  BY DEF Alloc
<1> HIDE DEF rank
<1>5. ASSUME NEW n \in N, NEW m \in N, Nth(pool, rank(n)) = Nth(pool, rank(m))
      PROVE  n = m
  <2>1. rank(n) - 1 = rank(m) - 1
    BY <1>2, <1>5
  <2> QED BY <1>3, <2>1
<1> QED BY <1>2, <1>4, <1>5
----------------------------------------------------------------------------
(* The inductive invariant.                                                *)

Typing ==
  /\ free \subseteq Page /\ pc \in [Proc -> Labels]
  /\ DOMAIN space = Proc /\ DOMAIN perm = Proc /\ DOMAIN arg = Proc
  /\ uiotab \in [Proc -> [FD -> Uio \cup {NoUio}]] /\ refcnt \in [Uio -> Nat]

(* A space is a tree: the table of each node is there.                     *)
IsTree(s) ==
  /\ Root \in DOMAIN s /\ DOMAIN s \subseteq {Root} \cup DOMAIN Up
  /\ \A n \in DOMAIN s : s[n] \in Page \cup {MainRoot}
  /\ \A n \in DOMAIN s \ {Root} : Up[n] \in DOMAIN s

(* A slot without a process has no space; main keeps the kernel's.         *)
SpaceOK(p) ==
  /\ p \in Live => IsTree(space[p])
  /\ p \notin Live => DOMAIN space[p] = {}
  /\ DOMAIN perm[p] = Mapped(p)
SpaceInv ==
  /\ \A p \in Proc : SpaceOK(p)
  /\ Main \in Live /\ space[Main][Root] = MainRoot

(* What a call relies on after its wait. A child's parent waits for it, and*)
(* for it alone.                                                           *)
Loading == [kind : {"elf"}, exe : Exe, stack : Page, left : Seq(Segment)]
ArgOK(p) ==
  /\ pc[p] = "io" => arg[p].buf \in Mapped(p) /\ "W" \in perm[p][arg[p].buf]
  /\ pc[p] \in {"elf", "load"} => arg[p] \in Loading
  /\ pc[p] = "load" => arg[p].left # <<>>
BornOK(p) ==
  pc[p] = "born" =>
    /\ arg[p].parent \in Proc /\ pc[arg[p].parent] = "fork"
    /\ \A q \in Proc : pc[q] = "born" /\ arg[q].parent = arg[p].parent => p = q
CallOK(p) == ArgOK(p) /\ BornOK(p)
CallInv == \A p \in Proc : CallOK(p)

ProcInv == Typing /\ SpaceInv /\ NoSharing /\ CallInv

LEMMA InvTypeOK == ProcInv => TypeOK
<1> SUFFICES ASSUME ProcInv PROVE TypeOK
  OBVIOUS
<1>1. ASSUME NEW p \in Proc
      PROVE  /\ Root \in DOMAIN space[p] <=> p \in Live
             /\ \A n \in DOMAIN space[p] \ {Root} : Up[n] \in DOMAIN space[p]
             /\ PagesOf(space[p]) \subseteq Page \cup {MainRoot}
             /\ DOMAIN perm[p] = Mapped(p)
             /\ pc[p] = "io" => arg[p].buf \in Mapped(p) /\ "W" \in perm[p][arg[p].buf]
  <2>1. SpaceOK(p) /\ CallOK(p)
    BY DEF ProcInv, SpaceInv, CallInv
  <2> QED BY <2>1 DEF SpaceOK, CallOK, ArgOK, IsTree, PagesOf
<1> QED BY <1>1 DEF ProcInv, Typing, TypeOK

----------------------------------------------------------------------------
(* Nodes and the spaces made of them.                                      *)

LEMMA Nodes ==
  /\ VPage \subseteq Nat \ {Root} /\ DOMAIN Up \subseteq Nat \ {Root} /\ VPage \subseteq DOMAIN Up
  /\ Page \subseteq Nat /\ MainRoot \notin Page /\ IsFiniteSet(Page)
  /\ Stack \in VPage
  /\ \A v \in VPage : /\ Table(v) \subseteq DOMAIN Up \ VPage
                      /\ \A n \in Table(v) : Up[n] \in Table(v) \cup {Root}
                      /\ Up[v] \in Table(v)
  /\ \A N \in SUBSET ({Root} \cup DOMAIN Up) : IsFiniteSet(N) /\ N \in SUBSET Nat
<1>1. ASSUME NEW v \in VPage
      PROVE  /\ Table(v) \subseteq DOMAIN Up \ VPage
             /\ \A n \in Table(v) : Up[n] \in Table(v) \cup {Root}
             /\ Up[v] \in Table(v)
  <2>1. Up[v] \in DOMAIN Up /\ Up[Up[v]] \in DOMAIN Up /\ Up[Up[Up[v]]] = Root
    BY ProcessAssumption DEF Table
  <2>2. v \in DOMAIN Up /\ Root \notin DOMAIN Up
    BY ProcessAssumption
  <2>3. Up[v] \notin VPage /\ Up[Up[v]] \notin VPage
    BY <2>1, <2>2, ProcessAssumption
  <2> QED BY <2>1, <2>3 DEF Table
<1>2. IsFiniteSet({Root} \cup DOMAIN Up) /\ {Root} \cup DOMAIN Up \subseteq Nat
  <2>1. {Root} \cup DOMAIN Up = DOMAIN Up \cup {Root} /\ Root \in Nat
    BY DEF Root
  <2> QED BY <2>1, FS_AddElement, ProcessAssumption
<1>3. \A N \in SUBSET ({Root} \cup DOMAIN Up) : IsFiniteSet(N) /\ N \in SUBSET Nat
  BY <1>2, FS_Subset
<1> QED BY <1>1, <1>3, ProcessAssumption DEF MainRoot

LEMMA FreeOK ==
  ASSUME NEW F \in SUBSET Page
  PROVE  F \in SUBSET Nat /\ IsFiniteSet(F)
BY Nodes, FS_Subset

(* A process gets another space.                                           *)
LEMMA Replaced ==
  ASSUME Typing, SpaceInv, NoSharing, NEW p \in Proc, NEW s, NEW f,
         space' = [space EXCEPT ![p] = s], perm' = [perm EXCEPT ![p] = f],
         pc' \in [Proc -> Labels],
         \A q \in Proc \ {p} : q \in Live' <=> q \in Live,
         p \in Live', IsTree(s), DOMAIN f = DOMAIN s \cap VPage,
         p = Main => s[Root] = MainRoot,
         \A n, m \in DOMAIN s : s[n] = s[m] => n = m,
         \A n \in DOMAIN s : s[n] \notin free',
         \A q \in Live \ {p} : \A m \in DOMAIN space[q] :
           space[q][m] \notin free' /\ \A n \in DOMAIN s : s[n] # space[q][m]
  PROVE  SpaceInv' /\ NoSharing'
<1>1. space'[p] = s /\ perm'[p] = f
  BY DEF Typing
<1>2. \A q \in Proc \ {p} : space'[q] = space[q] /\ perm'[q] = perm[q]
  BY DEF Typing
<1>3. ASSUME NEW q \in Proc
      PROVE  SpaceOK(q)'
  BY <1>1, <1>2 DEF SpaceInv, SpaceOK, Mapped
<1>4. (Main \in Live /\ space[Main][Root] = MainRoot)'
  BY <1>1, <1>2, ProcessAssumption DEF SpaceInv
<1>5. ASSUME NEW q \in Live', NEW n \in DOMAIN space'[q]
      PROVE  /\ space'[q][n] \notin free'
             /\ \A r \in Live' : \A m \in DOMAIN space'[r] :
                  space'[q][n] = space'[r][m] => q = r /\ n = m
  <2>1. \A r \in Live' : r \in Proc /\ (r # p => r \in Live)
    BY DEF Live
  <2>2. CASE q = p
    BY <1>1, <1>2, <2>1, <2>2
  <2>3. CASE q # p
    BY <1>1, <1>2, <2>1, <2>3 DEF NoSharing
  <2> QED BY <2>2, <2>3
<1>6. NoSharing'
  BY <1>5 DEF NoSharing
<1> QED BY <1>3, <1>4, <1>6 DEF SpaceInv

(* Where no space changes.                                                 *)
LEMMA SameSpaces ==
  ASSUME Typing, SpaceInv, NoSharing, UNCHANGED <<space>>, free' \subseteq free,
         pc' \in [Proc -> Labels], Live' = Live,
         DOMAIN perm' = Proc, \A p \in Proc : DOMAIN perm'[p] = DOMAIN perm[p]
  PROVE  SpaceInv' /\ NoSharing'
BY DEF SpaceInv, SpaceOK, IsTree, Mapped, NoSharing

LEMMA OverOK ==
  ASSUME NEW f, NEW g
  PROVE  /\ DOMAIN Over(f, g) = DOMAIN f \cup DOMAIN g
         /\ \A n \in DOMAIN f : Over(f, g)[n] = f[n]
         /\ \A n \in DOMAIN g \ DOMAIN f : Over(f, g)[n] = g[n]
BY DEF Over

(* A page that is free or somebody's is not lost.                          *)
Held(x) == x \in free \/ \E q \in Proc : \E n \in DOMAIN space[q] : x = space[q][n]

LEMMA HeldNotLost ==
  ASSUME \A x \in Page : Held(x) => Held(x)'
  PROVE  Lost' \subseteq Lost
<1>1. ASSUME NEW x \in Page
      PROVE  x \in Lost <=> ~Held(x)
  <2>1. x \in UNION {PagesOf(space[q]) : q \in Proc}
          <=> \E q \in Proc : \E n \in DOMAIN space[q] : x = space[q][n]
    BY DEF PagesOf
  <2> QED BY <2>1 DEF Lost, Held
<1>2. \A x \in Page : x \in Lost' <=> ~Held(x)'
  <2>1. ASSUME NEW x \in Page
        PROVE  x \in Lost' <=> ~Held(x)'
    <3>1. x \in (UNION {PagesOf(space[q]) : q \in Proc})'
            <=> \E q \in Proc : \E n \in DOMAIN space'[q] : x = space'[q][n]
      BY DEF PagesOf
    <3> QED BY <3>1 DEF Lost, Held
  <2> QED BY <2>1
<1>3. Lost' \subseteq Page
  BY DEF Lost
<1> QED BY <1>1, <1>2, <1>3

(* New pages are mapped at V, with the tables that are missing.            *)
LEMMA FreshOK ==
  ASSUME NEW s, IsTree(s), NEW V \in SUBSET VPage
  PROVE  /\ Fresh(s, V) \subseteq DOMAIN Up /\ Fresh(s, V) \cap VPage = V
         /\ Fresh(s, V) \cap DOMAIN s \subseteq V
         /\ \A n \in Fresh(s, V) : Up[n] \in Fresh(s, V) \cup DOMAIN s
<1>1. Fresh(s, V) = V \cup ((UNION {Table(v) : v \in V}) \ DOMAIN s)
  BY DEF Fresh
<1>2. \A v \in V : /\ v \in DOMAIN Up /\ Table(v) \subseteq DOMAIN Up \ VPage
                  /\ \A n \in Table(v) : Up[n] \in Table(v) \cup {Root}
                  /\ Up[v] \in Table(v)
  BY Nodes
<1>3. /\ Fresh(s, V) \subseteq DOMAIN Up /\ Fresh(s, V) \cap VPage = V
      /\ Fresh(s, V) \cap DOMAIN s \subseteq V
  BY <1>1, <1>2
<1>4. ASSUME NEW n \in Fresh(s, V)
      PROVE  Up[n] \in Fresh(s, V) \cup DOMAIN s
  <2>1. PICK w \in V : n = w \/ n \in Table(w)
    BY <1>1
  <2>2. Up[w] \in Table(w) /\ \A m \in Table(w) : Up[m] \in Table(w) \cup {Root}
    BY Nodes
  <2>3. Up[n] \in Table(w) \/ Up[n] = Root
    BY <2>1, <2>2
  <2>4. \A m \in Table(w) : m \in Fresh(s, V) \cup DOMAIN s
    <3> DEFINE Tables == UNION {Table(v) : v \in V}
    <3>1. Table(w) \in {Table(v) : v \in V}
      OBVIOUS
    <3>2. \A m \in Table(w) : m \in Tables
      BY <3>1
    <3>3. Fresh(s, V) = V \cup (Tables \ DOMAIN s)
      BY <1>1
    <3> HIDE DEF Tables
    <3> QED BY <3>2, <3>3
  <2> QED BY <2>3, <2>4 DEF IsTree
<1> QED BY <1>3, <1>4

LEMMA MapNewOK ==
  ASSUME Typing, SpaceInv, NoSharing, NEW p \in Live, NEW V \in SUBSET VPage, NEW flags, NEW bytes,
         MapNew(p, V, flags, bytes), pc' \in [Proc -> Labels], Live' = Live
  PROVE  /\ SpaceInv' /\ NoSharing' /\ free' \subseteq Page
         /\ DOMAIN space' = Proc /\ DOMAIN perm' = Proc
         /\ \A q \in Proc \ {p} : Mapped(q)' = Mapped(q) /\ perm'[q] = perm[q]
         /\ \/ Lost' \subseteq Lost
            \/ \E v \in Mapped(p) : space'[p] # Empty /\ space'[p][v] # space[p][v]
         /\ Mapped(p)' = Mapped(p) \cup V /\ \A q \in Proc \ {p} : space'[q] = space[q]
         /\ \A v \in V : space'[p][v] \in free /\ data'[space'[p][v]] = bytes
         /\ \A v \in Mapped(p) \ V : space'[p][v] = space[p][v]
         /\ DOMAIN data = Page => DOMAIN data' = Page /\ \A pp \in Page \ free : data'[pp] = data[pp]
<1> DEFINE N   == Fresh(space[p], V)
           new == Alloc(N, free)
           s   == Over(new, space[p])
           f   == Over([v \in V |-> flags], perm[p])
<1>1. /\ p \in Proc /\ IsTree(space[p]) /\ DOMAIN perm[p] = Mapped(p)
      /\ p = Main => space[p][Root] = MainRoot
  BY DEF Live, SpaceInv, SpaceOK
<1>2. /\ N \subseteq DOMAIN Up /\ N \cap VPage = V /\ N \cap DOMAIN space[p] \subseteq V
      /\ \A n \in N : Up[n] \in N \cup DOMAIN space[p]
  BY <1>1, FreshOK
<1>3. new \in [N -> free] /\ \A n, m \in N : new[n] = new[m] => n = m
  <2>1. N \in SUBSET Nat /\ IsFiniteSet(N)
    BY <1>2, Nodes
  <2>2. Enough(N, free)
    BY DEF MapNew
  <2> QED BY <2>1, <2>2, FreeOK, AllocOK DEF Typing
<1>4. /\ free' = free \ PagesOf(new) /\ space' = [space EXCEPT ![p] = s]
      /\ perm' = [perm EXCEPT ![p] = f]
      /\ data' = Over([pp \in {new[v] : v \in V} |-> bytes], data)
  BY <1>1 DEF MapNew, Typing
<1> HIDE DEF new, N
<1>5. /\ DOMAIN s = N \cup DOMAIN space[p]
      /\ \A n \in N : s[n] = new[n] /\ s[n] \in free /\ s[n] \in PagesOf(new)
      /\ \A n \in DOMAIN space[p] \ N : s[n] = space[p][n] /\ s[n] \notin free
  <2>1. DOMAIN new = N /\ \A n \in N : new[n] \in free /\ new[n] \in PagesOf(new)
    BY <1>3 DEF PagesOf
  <2>2. /\ DOMAIN s = DOMAIN new \cup DOMAIN space[p]
        /\ \A n \in DOMAIN new : s[n] = new[n]
        /\ \A n \in DOMAIN space[p] \ DOMAIN new : s[n] = space[p][n]
    BY OverOK, Zenon
  <2>3. \A n \in DOMAIN space[p] : space[p][n] \notin free
    BY DEF NoSharing
  <2> HIDE DEF s
  <2> QED BY <2>1, <2>2, <2>3
<1>6. DOMAIN f = V \cup Mapped(p) /\ DOMAIN s \cap VPage = V \cup Mapped(p)
  <2>1. DOMAIN f = V \cup Mapped(p)
    BY <1>1 DEF Over
  <2> HIDE DEF f, s
  <2> QED BY <1>2, <1>5, <2>1 DEF Mapped
<1> HIDE DEF s, f
<1>7. IsTree(s)
  BY <1>1, <1>2, <1>5 DEF IsTree, Typing
<1>8. \A n, m \in DOMAIN s : s[n] = s[m] => n = m
  BY <1>3, <1>5 DEF NoSharing
<1>9. \A n \in DOMAIN s : s[n] \notin free'
  BY <1>4, <1>5
<1>10. \A q \in Live \ {p} : \A m \in DOMAIN space[q] :
         space[q][m] \notin free' /\ \A n \in DOMAIN s : s[n] # space[q][m]
  BY <1>4, <1>5 DEF NoSharing
<1>11. p = Main => s[Root] = MainRoot
  <2>1. Root \in DOMAIN space[p] \ N
    BY <1>1, <1>2, Nodes DEF IsTree
  <2> QED BY <1>1, <1>5, <2>1
<1>12. SpaceInv' /\ NoSharing'
  <2>1. \A q \in Proc \ {p} : q \in Live' <=> q \in Live
    OBVIOUS
  <2>2. p \in Live' /\ DOMAIN f = DOMAIN s \cap VPage
    BY <1>6
  <2> QED BY <1>1, <1>4, <1>7, <1>8, <1>9, <1>10, <1>11, <2>1, <2>2, Replaced
<1>13. DOMAIN space' = Proc /\ DOMAIN perm' = Proc /\ free' \subseteq Page
  BY <1>4 DEF Typing
<1>14. \A q \in Proc \ {p} : Mapped(q)' = Mapped(q) /\ perm'[q] = perm[q]
  BY <1>4 DEF Mapped, Typing
<1>15. Mapped(p)' = Mapped(p) \cup V
  BY <1>1, <1>4, <1>6 DEF Mapped, Typing
<1>16. \A v \in V : space'[p][v] \in free /\ data'[space'[p][v]] = bytes
  <2>1. \A v \in V : space'[p][v] = new[v] /\ new[v] \in free
    BY <1>1, <1>2, <1>4, <1>5 DEF Typing
  <2>2. \A v \in V : data'[new[v]] = bytes
    BY <1>4 DEF Over
  <2> QED BY <2>1, <2>2
<1>17. \A v \in Mapped(p) \ V : space'[p][v] = space[p][v]
  BY <1>1, <1>2, <1>4, <1>5 DEF Mapped, Typing
<1>18. ASSUME DOMAIN data = Page
       PROVE  DOMAIN data' = Page /\ \A pp \in Page \ free : data'[pp] = data[pp]
  <2> DEFINE W == {new[v] : v \in V}
  <2>1. W \subseteq free /\ W \subseteq Page
    BY <1>2, <1>3 DEF Typing
  <2>2. DOMAIN data' = W \cup Page /\ \A pp \in Page \ W : data'[pp] = data[pp]
    BY <1>4, <1>18 DEF Over
  <2> HIDE DEF W
  <2> QED BY <2>1, <2>2
<1>19. /\ space'[p] = s /\ \A q \in Proc \ {p} : space'[q] = space[q]
  BY <1>1, <1>4 DEF Typing
<1>20. CASE V \cap Mapped(p) # {}
  <2>1. PICK v \in Mapped(p) : v \in V
    BY <1>20
  <2>2. v \in DOMAIN space[p] /\ v \in N /\ space[p][v] \notin free
    BY <1>2, <2>1 DEF Mapped, NoSharing
  <2>3. v \in DOMAIN s /\ s[v] # space[p][v] /\ DOMAIN Empty = {}
    BY <1>5, <2>2 DEF Empty
  <2> QED BY <1>12, <1>13, <1>14, <1>19, <1>15, <1>16, <1>17, <1>18, <2>1, <2>3
<1>21. CASE V \cap Mapped(p) = {}
  <2>1. \A n \in DOMAIN space[p] : n \in DOMAIN s /\ s[n] = space[p][n]
    BY <1>2, <1>5, <1>21 DEF Mapped
  <2>2. \A x \in free : x \in free' \/ \E n \in DOMAIN s : x = s[n]
    BY <1>3, <1>4, <1>5 DEF PagesOf
  <2>3. \A x \in Page : Held(x) => Held(x)'
    BY <1>1, <1>19, <2>1, <2>2 DEF Held
  <2>4. Lost' \subseteq Lost
    BY <2>3, HeldNotLost
  <2> QED BY <1>12, <1>13, <1>14, <1>19, <1>15, <1>16, <1>17, <1>18, <2>4
<1> QED BY <1>20, <1>21

(* exec: a stack, the root of the old space and new tables for the stack.  *)
LEMMA StackOK ==
  ASSUME NEW F \in SUBSET Page, Enough({Stack}, F)
  PROVE  Nth(F, 1) \in F
<1>1. F \in SUBSET Nat /\ IsFiniteSet(F) /\ Cardinality(F) \in Nat
  BY FreeOK, FS_CardinalityType
<1>2. Cardinality({Stack}) = 1
  BY FS_Singleton
<1>3. 1 \in 1 .. Cardinality(F)
  BY <1>1, <1>2 DEF Enough
<1> QED BY <1>1, <1>3, NthOK

LEMMA ExecOK ==
  ASSUME Typing, SpaceInv, NoSharing, NEW p \in Live, NEW u, NEW prog, Exec(p, u, prog)
  PROVE  /\ SpaceInv' /\ NoSharing' /\ free' \subseteq Page
         /\ DOMAIN space' = Proc /\ DOMAIN perm' = Proc /\ Live' = Live
         /\ Nth(free, 1) \in Page /\ Nth(free, 1) \in free /\ Lost' \subseteq Lost
         /\ Mapped(p)' = {Stack} /\ space'[p][Stack] = Nth(free, 1)
         /\ \A q \in Proc \ {p} : space'[q] = space[q]
         /\ \A q \in Proc \ {p} : Mapped(q)' = Mapped(q) /\ perm'[q] = perm[q]
<1> DEFINE old   == space[p]
           stack == Nth(free, 1)
           pool  == PoolAfterReset(p, free)
           new   == Alloc(Table(Stack), pool)
           s     == Over(Only(Root, old[Root]), Over(Only(Stack, stack), new))
           f     == Only(Stack, {"R", "W"})
<1>1. /\ p \in Proc /\ IsTree(old) /\ p = Main => old[Root] = MainRoot
      /\ space[Main][Root] = MainRoot /\ Main \in Live /\ Root \in DOMAIN space[Main]
      /\ Root \in DOMAIN old
      /\ \A n \in DOMAIN old : old[n] \notin free /\ old[n] \in Page \cup {MainRoot}
      /\ \A n, m \in DOMAIN old : old[n] = old[m] => n = m
      /\ \A n \in DOMAIN old \ {Root} : old[n] # MainRoot
  <2>1. p \in Proc /\ SpaceOK(p) /\ SpaceOK(Main) /\ Main \in Live /\ space[Main][Root] = MainRoot
    BY DEF Live, SpaceInv
  <2>2. IsTree(old) /\ IsTree(space[Main])
    BY <2>1 DEF SpaceOK
  <2>3. Root \in DOMAIN old /\ Root \in DOMAIN space[Main]
    BY <2>2 DEF IsTree
  <2>4. \A n \in DOMAIN old :
          /\ old[n] \notin free
          /\ \A q \in Live : \A m \in DOMAIN space[q] : old[n] = space[q][m] => p = q /\ n = m
    BY DEF NoSharing
  <2>5. \A n, m \in DOMAIN old : old[n] = old[m] => n = m
    BY <2>4
  <2>6. \A n \in DOMAIN old \ {Root} : old[n] # MainRoot
    BY <2>1, <2>3, <2>4
  <2>7. \A n \in DOMAIN old : old[n] \in Page \cup {MainRoot}
    BY <2>2 DEF IsTree
  <2> QED BY <2>1, <2>2, <2>3, <2>4, <2>5, <2>6, <2>7
<1>2. /\ pc' = [pc EXCEPT ![p] = "elf"] /\ Live' = Live /\ pc' \in [Proc -> Labels]
  BY <1>1 DEF Exec, Live, Typing, Labels
<1>3. stack \in free
  BY StackOK DEF Exec, Typing
<1>4. /\ pool = (free \ {stack}) \cup ResetFrees(old) /\ pool \in SUBSET Page
      /\ stack \notin pool /\ old[Root] \notin pool
  <2>2. pool = (free \ {stack}) \cup ResetFrees(old)
    BY DEF PoolAfterReset
  <2> HIDE DEF old, stack, pool
  <2>3. ResetFrees(old) \subseteq Page /\ stack \notin ResetFrees(old)
    BY <1>1, <1>3 DEF ResetFrees
  <2>4. old[Root] \notin ResetFrees(old)
    BY <1>1 DEF ResetFrees
  <2>5. old[Root] \notin pool
    BY <1>1, <2>2, <2>4
  <2> QED BY <1>3, <2>2, <2>3, <2>5 DEF Typing
<1>5. /\ Table(Stack) \subseteq DOMAIN Up \ VPage /\ Stack \in VPage
      /\ Stack \in DOMAIN Up /\ Root \notin DOMAIN Up /\ Up[Stack] \in Table(Stack)
      /\ \A n \in Table(Stack) : Up[n] \in Table(Stack) \cup {Root}
  BY Nodes
<1>6. new \in [Table(Stack) -> pool] /\ \A n, m \in Table(Stack) : new[n] = new[m] => n = m
  <2>1. Table(Stack) \in SUBSET Nat /\ IsFiniteSet(Table(Stack))
    BY <1>5, Nodes
  <2>2. Enough(Table(Stack), pool)
    BY DEF Exec
  <2> QED BY <1>4, <2>1, <2>2, FreeOK, AllocOK
<1>7. /\ free' = pool \ PagesOf(new) /\ space' = [space EXCEPT ![p] = s]
      /\ perm' = [perm EXCEPT ![p] = f]
  BY <1>1 DEF Exec, Typing
<1> HIDE DEF pool, new, stack
<1>8. /\ DOMAIN s = {Root, Stack} \cup Table(Stack)
      /\ s[Root] = old[Root] /\ s[Stack] = stack
      /\ \A n \in Table(Stack) : s[n] = new[n] /\ s[n] \in pool /\ s[n] \in PagesOf(new)
  <2> DEFINE inner == Over(Only(Stack, stack), new)
             top   == Only(Root, old[Root])
             leaf  == Only(Stack, stack)
  <2>1. DOMAIN top = {Root} /\ top[Root] = old[Root] /\ DOMAIN leaf = {Stack} /\ leaf[Stack] = stack
    BY DEF Only
  <2>2. DOMAIN new = Table(Stack) /\ \A n \in Table(Stack) : new[n] \in pool /\ new[n] \in PagesOf(new)
    BY <1>6 DEF PagesOf
  <2> HIDE DEF top, leaf
  <2>3. /\ DOMAIN inner = {Stack} \cup Table(Stack) /\ inner[Stack] = stack
        /\ \A n \in Table(Stack) : inner[n] = new[n]
    <3>1. inner = Over(leaf, new)
      BY DEF leaf
    <3>2. Stack \notin Table(Stack)
      BY <1>5
    <3> HIDE DEF inner, s
    <3>3. DOMAIN inner = {Stack} \cup Table(Stack)
      BY <2>1, <2>2, <3>1 DEF Over
    <3>4. inner[Stack] = stack
      BY <2>1, <2>2, <3>1 DEF Over
    <3>5. \A n \in Table(Stack) : inner[n] = new[n]
      BY <2>1, <2>2, <3>1, <3>2 DEF Over
    <3> QED BY <3>3, <3>4, <3>5
  <2>4. s = Over(top, inner)
    BY DEF top
  <2> HIDE DEF inner, s
  <2>5. Root \notin Table(Stack) /\ Root # Stack
    BY <1>5
  <2>6. DOMAIN s = {Root} \cup ({Stack} \cup Table(Stack)) /\ s[Root] = top[Root]
        /\ \A n \in {Stack} \cup Table(Stack) : s[n] = inner[n]
    <3>1. DOMAIN s = {Root} \cup ({Stack} \cup Table(Stack))
      BY <2>1, <2>3, <2>4 DEF Over
    <3>2. s[Root] = top[Root]
      BY <2>1, <2>3, <2>4 DEF Over
    <3>3. \A n \in {Stack} \cup Table(Stack) : s[n] = inner[n]
      BY <2>1, <2>3, <2>4, <2>5 DEF Over
    <3> QED BY <3>1, <3>2, <3>3
  <2> QED BY <2>1, <2>2, <2>3, <2>6
<1>9. DOMAIN f = {Stack} /\ DOMAIN s \cap VPage = {Stack}
  BY <1>5, <1>8, Nodes DEF Only
<1> HIDE DEF s, f
<1>10. IsTree(s)
  <2>1. DOMAIN s \subseteq {Root} \cup DOMAIN Up /\ Root \in DOMAIN s
    BY <1>5, <1>8
  <2>2. ASSUME NEW n \in DOMAIN s
        PROVE  s[n] \in Page \cup {MainRoot} /\ (n # Root => Up[n] \in DOMAIN s)
    <3>1. CASE n = Root
      BY <1>1, <1>8, <3>1
    <3>2. CASE n = Stack
      BY <1>3, <1>5, <1>8, <3>2 DEF Typing
    <3>3. CASE n \in Table(Stack)
      BY <1>4, <1>5, <1>8, <3>3
    <3> QED BY <1>8, <3>1, <3>2, <3>3
  <2> QED BY <2>1, <2>2 DEF IsTree
<1>11. \A n, m \in DOMAIN s : s[n] = s[m] => n = m
  <2>1. old[Root] # stack
    BY <1>1, <1>3
  <2> QED BY <1>4, <1>6, <1>8, <2>1
<1>12. \A n \in DOMAIN s : s[n] \notin free'
  BY <1>4, <1>7, <1>8
<1>13. \A q \in Live \ {p} : \A m \in DOMAIN space[q] :
         space[q][m] \notin free' /\ \A n \in DOMAIN s : s[n] # space[q][m]
  <2> SUFFICES ASSUME NEW q \in Live \ {p}, NEW m \in DOMAIN space[q]
               PROVE  space[q][m] \notin free' /\ \A n \in DOMAIN s : s[n] # space[q][m]
    OBVIOUS
  <2>1. space[q][m] \notin free /\ \A n \in DOMAIN old : old[n] # space[q][m]
    BY DEF NoSharing
  <2>2. space[q][m] \notin pool
    BY <1>4, <2>1 DEF ResetFrees
  <2>3. stack # space[q][m] /\ old[Root] # space[q][m]
    BY <1>1, <1>3, <2>1
  <2> QED BY <1>7, <1>8, <2>2, <2>3
<1>14. SpaceInv' /\ NoSharing'
  <2>1. (\A q \in Proc \ {p} : q \in Live' <=> q \in Live) /\ pc' \in [Proc -> Labels]
    BY <1>2
  <2>2. p \in Proc /\ p \in Live' /\ DOMAIN f = DOMAIN s \cap VPage /\ (p = Main => s[Root] = MainRoot)
    BY <1>1, <1>2, <1>8, <1>9
  <2> QED BY <1>7, <1>10, <1>11, <1>12, <1>13, <2>1, <2>2, Replaced
<1>15. Nth(free, 1) \in Page /\ Nth(free, 1) \in free
  BY <1>3 DEF stack, Typing
<1>16. \A q \in Proc \ {p} : Mapped(q)' = Mapped(q) /\ perm'[q] = perm[q]
  BY <1>7 DEF Mapped, Typing
<1>17. /\ p \in Proc /\ space'[p] = s /\ \A q \in Proc \ {p} : space'[q] = space[q]
  <2>1. p \in Proc
    BY DEF Live
  <2> QED BY <1>7, <2>1 DEF Typing
<1>18. \A x \in pool : x \in free' \/ \E n \in DOMAIN s : x = s[n]
  BY <1>6, <1>7, <1>8 DEF PagesOf
<1>19. \A x \in free : x \in free' \/ \E n \in DOMAIN s : x = s[n]
  BY <1>4, <1>8, <1>18
<1>20. \A k \in DOMAIN old : old[k] \in free' \/ \E n \in DOMAIN s : old[k] = s[n]
  <2>1. \A k \in DOMAIN old \ {Root} : old[k] \in pool
    BY <1>4 DEF ResetFrees
  <2> QED BY <1>8, <1>18, <2>1
<1>21. \A x \in Page : Held(x) => Held(x)'
  <2> SUFFICES ASSUME NEW x \in Page, Held(x) PROVE Held(x)'
    OBVIOUS
  <2>1. CASE x \in free
    BY <1>17, <1>19, <2>1 DEF Held
  <2>2. CASE \E n \in DOMAIN space[p] : x = space[p][n]
    BY <1>17, <1>20, <2>2 DEF Held
  <2>3. CASE \E q \in Proc \ {p} : \E n \in DOMAIN space[q] : x = space[q][n]
    BY <1>17, <2>3 DEF Held
  <2> QED BY <2>1, <2>2, <2>3 DEF Held
<1>22. Lost' \subseteq Lost
  BY <1>21, HeldNotLost
<1>23. Mapped(p)' = {Stack} /\ space'[p][Stack] = Nth(free, 1)
  BY <1>8, <1>9, <1>17 DEF Mapped, stack
<1> QED BY <1>2, <1>4, <1>7, <1>14, <1>15, <1>16, <1>17, <1>22, <1>23 DEF Typing

(* fork: every node of the child has a page that was free.                 *)
LEMMA ForkOK ==
  ASSUME Typing, SpaceInv, NoSharing, NEW p \in Proc, NEW q \in Proc, Fork(p, q)
  PROVE  /\ SpaceInv' /\ NoSharing' /\ free' \subseteq Page
         /\ DOMAIN space' = Proc /\ DOMAIN perm' = Proc
         /\ \A r \in Proc \ {q} : Mapped(r)' = Mapped(r) /\ perm'[r] = perm[r]
         /\ Lost' \subseteq Lost /\ space' = [space EXCEPT ![q] = Clone(p)]
         /\ Clone(p) \in [DOMAIN space[p] -> free]
         /\ \A n, m \in DOMAIN space[p] : Clone(p)[n] = Clone(p)[m] => n = m
<1> DEFINE N   == DOMAIN space[p]
           new == Alloc(N, free)
<1>1. /\ p \in Live /\ q \notin Live /\ p # q /\ Main \in Live
      /\ pc' = [pc EXCEPT ![p] = "fork", ![q] = "born"] /\ pc' \in [Proc -> Labels]
  BY DEF Fork, Live, Typing, SpaceInv, Labels
<1>2. \A r \in Proc \ {q} : r \in Live' <=> r \in Live
  BY <1>1 DEF Live, Typing
<1>3. q \in Live' /\ q # Main
  BY <1>1 DEF Live, Typing
<1>4. IsTree(space[p]) /\ DOMAIN perm[p] = N \cap VPage
  BY <1>1 DEF SpaceInv, SpaceOK, Mapped
<1>5. new \in [N -> free] /\ \A n, m \in N : new[n] = new[m] => n = m
  <2>1. N \in SUBSET Nat /\ IsFiniteSet(N)
    BY <1>4, Nodes DEF IsTree
  <2>2. Enough(N, free)
    BY DEF Fork
  <2> QED BY <2>1, <2>2, FreeOK, AllocOK DEF Typing
<1>6. /\ free' = free \ PagesOf(new) /\ space' = [space EXCEPT ![q] = new]
      /\ perm' = [perm EXCEPT ![q] = perm[p]]
  BY DEF Fork, Clone
<1>7. /\ Clone(p) \in [N -> free] /\ space' = [space EXCEPT ![q] = Clone(p)]
       /\ \A n, m \in N : Clone(p)[n] = Clone(p)[m] => n = m
  BY <1>5, <1>6 DEF Clone
<1> HIDE DEF new
<1>8. DOMAIN new = N /\ \A n \in N : new[n] \in free /\ new[n] \in PagesOf(new)
  BY <1>5 DEF PagesOf
<1>9. IsTree(new)
  BY <1>4, <1>8 DEF IsTree, Typing
<1>10. \A n \in DOMAIN new : new[n] \notin free'
  BY <1>6, <1>8
<1>11. \A r \in Live \ {q} : \A m \in DOMAIN space[r] :
         space[r][m] \notin free' /\ \A n \in DOMAIN new : new[n] # space[r][m]
  BY <1>6, <1>8 DEF NoSharing
<1>12. SpaceInv' /\ NoSharing'
  BY <1>1, <1>2, <1>3, <1>4, <1>5, <1>6, <1>8, <1>9, <1>10, <1>11, Replaced
<1>13. \A r \in Proc \ {q} : Mapped(r)' = Mapped(r) /\ perm'[r] = perm[r]
  BY <1>6 DEF Mapped, Typing
<1>14. Lost' \subseteq Lost
  <2>1. space'[q] = new /\ \A r \in Proc \ {q} : space'[r] = space[r]
    BY <1>6 DEF Typing
  <2>2. \A x \in free : x \in free' \/ \E n \in DOMAIN new : x = new[n]
    BY <1>6 DEF PagesOf
  <2>3. DOMAIN space[q] = {}
    BY <1>1 DEF SpaceInv, SpaceOK
  <2>4. \A x \in Page : Held(x) => Held(x)'
    BY <2>1, <2>2, <2>3 DEF Held
  <2> QED BY <2>4, HeldNotLost
<1> QED BY <1>6, <1>12, <1>13, <1>14, <1>7 DEF Typing

(* exit gives back all pages of a space that is not main's.                *)
LEMMA ExitOK ==
  ASSUME Typing, SpaceInv, NoSharing, NEW p \in Proc, Exit(p)
  PROVE  /\ SpaceInv' /\ NoSharing' /\ free' \subseteq Page
         /\ DOMAIN space' = Proc /\ DOMAIN perm' = Proc
         /\ \A q \in Proc \ {p} : Mapped(q)' = Mapped(q) /\ perm'[q] = perm[q]
         /\ Lost' \subseteq Lost
<1>1. p \in Live /\ p # Main /\ IsTree(space[p])
  BY DEF Exit, Live, SpaceInv, SpaceOK
<1>2. Main \in Live /\ space[Main][Root] = MainRoot /\ Root \in DOMAIN space[Main]
  BY DEF SpaceInv, SpaceOK, IsTree, Live
<1>3. /\ free' = free \cup ResetFrees(space[p]) \cup {space[p][Root]}
      /\ space' = [space EXCEPT ![p] = Empty] /\ perm' = [perm EXCEPT ![p] = Empty]
      /\ pc' = [pc EXCEPT ![p] = "exited"]
  BY DEF Exit, Discard
<1>4. \A x \in free' : x \in free \/ \E n \in DOMAIN space[p] : x = space[p][n]
  BY <1>1, <1>3 DEF ResetFrees, IsTree
<1>5. \A n \in DOMAIN space[p] : space[p][n] \in Page
  <2>1. \A n \in DOMAIN space[p] : space[p][n] # MainRoot
    BY <1>1, <1>2 DEF NoSharing
  <2> QED BY <1>1, <2>1 DEF IsTree
<1>6. free' \subseteq Page
  BY <1>4, <1>5 DEF Typing
<1>7. Live' = Live \ {p}
  BY <1>3 DEF Live, Typing
<1>8. space'[p] = Empty /\ perm'[p] = Empty /\ DOMAIN Empty = {}
  BY <1>3 DEF Typing, Empty
<1>9. \A q \in Proc \ {p} : space'[q] = space[q] /\ perm'[q] = perm[q]
  BY <1>3 DEF Typing
<1>10. ASSUME NEW q \in Proc
       PROVE  SpaceOK(q)'
  <2>1. CASE q = p
    BY <1>7, <1>8, <2>1 DEF SpaceOK, Mapped
  <2>2. CASE q # p
    BY <1>7, <1>9, <2>2 DEF SpaceInv, SpaceOK, Mapped
  <2> QED BY <2>1, <2>2
<1>11. (Main \in Live /\ space[Main][Root] = MainRoot)'
  BY <1>1, <1>2, <1>7, <1>9, ProcessAssumption
<1>12. ASSUME NEW q \in Live', NEW n \in DOMAIN space'[q]
       PROVE  /\ space'[q][n] \notin free'
              /\ \A r \in Live' : \A m \in DOMAIN space'[r] :
                   space'[q][n] = space'[r][m] => q = r /\ n = m
  <2>1. /\ \A r \in Live' : r \in Live /\ r # p /\ space'[r] = space[r]
    BY <1>7, <1>9 DEF Live
  <2>2. space[q][n] \notin free /\ \A k \in DOMAIN space[p] : space[q][n] # space[p][k]
    BY <1>1, <2>1 DEF NoSharing
  <2>3. \A r \in Live : \A m \in DOMAIN space[r] : space[q][n] = space[r][m] => q = r /\ n = m
    BY <2>1 DEF NoSharing
  <2> QED BY <1>4, <2>1, <2>2, <2>3
<1>13. NoSharing'
  BY <1>12 DEF NoSharing
<1>14. \A q \in Proc \ {p} : Mapped(q)' = Mapped(q) /\ perm'[q] = perm[q]
  BY <1>9 DEF Mapped
<1>15. Lost' \subseteq Lost
  <2>1. \A n \in DOMAIN space[p] : space[p][n] \in free'
    BY <1>3 DEF ResetFrees
  <2>2. \A x \in Page : Held(x) => Held(x)'
    BY <1>3, <1>9, <2>1 DEF Held
  <2> QED BY <2>2, HeldNotLost
<1> QED BY <1>3, <1>6, <1>10, <1>11, <1>13, <1>14, <1>15 DEF SpaceInv, Typing
----------------------------------------------------------------------------
(* The calls.                                                              *)

(* One process takes a step that is not about its children.                *)
LEMMA OneCalls ==
  ASSUME Typing, CallInv, NEW p \in Proc, pc[p] # "fork", pc'[p] # "born",
         \A q \in Proc \ {p} : /\ pc'[q] = pc[q] /\ arg'[q] = arg[q]
                               /\ Mapped(q)' = Mapped(q) /\ perm'[q] = perm[q],
         ArgOK(p)'
  PROVE  CallInv'
<1>1. ASSUME NEW q \in Proc, q # p
      PROVE  ArgOK(q)'
  <2>1. ArgOK(q) /\ pc'[q] = pc[q] /\ arg'[q] = arg[q] /\ Mapped(q)' = Mapped(q) /\ perm'[q] = perm[q]
    BY <1>1 DEF CallInv, CallOK
  <2> QED BY <2>1 DEF ArgOK
<1>2. ASSUME NEW q \in Proc
      PROVE  BornOK(q)'
  <2>1. SUFFICES ASSUME pc'[q] = "born" PROVE BornOK(q)'
    BY DEF BornOK
  <2>2. q # p /\ pc[q] = "born" /\ arg'[q] = arg[q] /\ BornOK(q)
    BY <2>1 DEF CallInv, CallOK
  <2>3. arg[q].parent \in Proc /\ pc[arg[q].parent] = "fork" /\ arg[q].parent # p
    BY <2>2 DEF BornOK
  <2>4. \A r \in Proc : pc'[r] = "born" => pc[r] = "born" /\ arg'[r] = arg[r]
    OBVIOUS
  <2> QED BY <2>2, <2>3, <2>4 DEF BornOK
<1>3. \A q \in Proc : ArgOK(q)'
  BY <1>1
<1> QED BY <1>2, <1>3 DEF CallInv, CallOK

LEMMA CallsOf ==
  ASSUME ProcInv, NEW p \in Proc
  PROVE  /\ Typing /\ SpaceInv /\ NoSharing /\ CallInv /\ SpaceOK(p) /\ ArgOK(p) /\ BornOK(p)
         /\ free \subseteq Page /\ pc \in [Proc -> Labels]
         /\ DOMAIN space = Proc /\ DOMAIN perm = Proc /\ DOMAIN arg = Proc
         /\ uiotab \in [Proc -> [FD -> Uio \cup {NoUio}]] /\ refcnt \in [Uio -> Nat]
         /\ 0 \in FD /\ 1 \in FD /\ 2 \in FD
<1>1. 0 \in FD /\ 1 \in FD /\ 2 \in FD
  BY ProcessAssumption DEF FD
<1> QED BY <1>1 DEF ProcInv, Typing, SpaceInv, CallInv, CallOK

(* Nothing changes but descriptors, data and free pages that get lost.     *)
LEMMA SameCalls ==
  ASSUME ProcInv, UNCHANGED <<space, perm, pc, arg>>, free' \subseteq free,
         uiotab' \in [Proc -> [FD -> Uio \cup {NoUio}]], refcnt' \in [Uio -> Nat]
  PROVE  ProcInv'
<1>1. Live' = Live /\ (\A p \in Proc : Mapped(p)' = Mapped(p))
  BY DEF Live, Mapped
<1>2. Typing'
  BY DEF ProcInv, Typing
<1>3. SpaceInv' /\ NoSharing'
  BY <1>1, SameSpaces DEF ProcInv, Typing
<1>4. CallInv'
  BY <1>1 DEF ProcInv, CallInv, CallOK, ArgOK, BornOK
<1> QED BY <1>2, <1>3, <1>4 DEF ProcInv

LEMMA DroppedNat ==
  ASSUME refcnt \in [Uio -> Nat], NEW u \in Uio, NEW n \in Nat
  PROVE  Dropped(u, n) \in Nat
<1>1. refcnt[u] \in Nat
  OBVIOUS
<1> QED BY <1>1 DEF Dropped

LEMMA InTabFinite ==
  ASSUME NEW p, NEW u
  PROVE  Cardinality(InTab(p, u)) \in Nat
<1>1. IsFiniteSet(0 .. UIOMAX - 1)
  BY FS_Interval, ProcessAssumption
<1>2. InTab(p, u) \subseteq 0 .. UIOMAX - 1
  BY DEF InTab, FD
<1> QED BY <1>1, <1>2, FS_Subset, FS_CardinalityType

LEMMA DescriptorsOK ==
  ASSUME ProcInv, NEW p \in Proc, Descriptors(p)
  PROVE  ProcInv'
<1> USE CallsOf
<1>1. ASSUME NEW fd \in FD, NEW u \in Uio, SysOpen(p, fd, u)
      PROVE  ProcInv'
  <2>1. UNCHANGED <<space, perm, pc, arg>> /\ free' \subseteq free
    BY <1>1 DEF SysOpen, memVars
  <2>2. uiotab' \in [Proc -> [FD -> Uio \cup {NoUio}]] /\ refcnt' \in [Uio -> Nat]
    BY <1>1 DEF SysOpen
  <2> QED BY <2>1, <2>2, SameCalls
<1>2. ASSUME NEW fd \in FD, SysClose(p, fd)
      PROVE  ProcInv'
  <2>1. UNCHANGED <<space, perm, pc, arg>> /\ free' \subseteq free
    BY <1>2 DEF SysClose, memVars
  <2>2. uiotab[p][fd] \in Uio /\ Dropped(uiotab[p][fd], 1) \in Nat
    BY <1>2, DroppedNat DEF SysClose
  <2>3. uiotab' \in [Proc -> [FD -> Uio \cup {NoUio}]] /\ refcnt' \in [Uio -> Nat]
    BY <1>2, <2>2 DEF SysClose
  <2> QED BY <2>1, <2>3, SameCalls
<1>3. ASSUME NEW old \in FD, NEW new \in FD, SysUiodup(p, old, new)
      PROVE  ProcInv'
  <2>1. UNCHANGED <<space, perm, pc, arg>> /\ free' \subseteq free
    BY <1>3 DEF SysUiodup, memVars
  <2>2. uiotab[p][old] \in Uio /\ refcnt[uiotab[p][old]] + 1 \in Nat
    BY <1>3 DEF SysUiodup
  <2>3. uiotab' \in [Proc -> [FD -> Uio \cup {NoUio}]] /\ refcnt' \in [Uio -> Nat]
    BY <1>3, <2>2 DEF SysUiodup
  <2> QED BY <2>1, <2>3, SameCalls
<1> QED BY <1>1, <1>2, <1>3 DEF Descriptors

(* A process goes on, in the same space.                                   *)
LEMMA StepOK ==
  ASSUME ProcInv, NEW p \in Live, pc[p] # "fork",
         NEW l \in {"user", "io", "elf", "load"}, pc' = [pc EXCEPT ![p] = l],
         DOMAIN arg' = Proc, \A q \in Proc \ {p} : arg'[q] = arg[q],
         UNCHANGED <<space, uiotab>>, free' = free,
         DOMAIN perm' = Proc, DOMAIN perm'[p] = DOMAIN perm[p],
         \A q \in Proc \ {p} : perm'[q] = perm[q],
         refcnt' \in [Uio -> Nat], ArgOK(p)'
  PROVE  ProcInv'
<1>1. p \in Proc
  BY DEF Live
<1> USE <1>1, CallsOf
<1>2. pc' \in [Proc -> Labels] /\ Live' = Live /\ pc'[p] = l
      /\ \A q \in Proc \ {p} : pc'[q] = pc[q]
  BY DEF Live, Labels
<1>3. Typing'
  BY <1>2 DEF Typing
<1>4. \A q \in Proc : DOMAIN perm'[q] = DOMAIN perm[q] /\ Mapped(q)' = Mapped(q)
  BY DEF Mapped
<1>5. SpaceInv' /\ NoSharing'
  BY <1>2, <1>4, SameSpaces
<1>6. CallInv'
  BY <1>2, <1>4, OneCalls
<1> QED BY <1>3, <1>5, <1>6 DEF ProcInv

LEMMA MemoryOK ==
  ASSUME ProcInv, NEW p \in Proc, Memory(p)
  PROVE  ProcInv'
<1> USE CallsOf
<1>1. ASSUME NEW fd \in FD, NEW v \in Touched, SysRead(p, fd, v)
      PROVE  ProcInv'
  <2>1. p \in Live /\ pc[p] # "fork"
    BY <1>1 DEF SysRead, Live
  <2>2. ArgOK(p)'
    BY <1>1 DEF SysRead, ArgOK, Valid, Mapped, memVars
  <2>3. pc' = [pc EXCEPT ![p] = "io"] /\ DOMAIN arg' = Proc
        /\ UNCHANGED <<free, space, perm, uiotab, refcnt>>
        /\ \A q \in Proc \ {p} : arg'[q] = arg[q]
    BY <1>1 DEF SysRead, memVars, fdVars
  <2> QED BY <2>1, <2>2, <2>3, StepOK
<1>2. ASSUME SysReadDone(p)
      PROVE  ProcInv'
  <2>1. p \in Live /\ pc[p] # "fork"
    BY <1>2 DEF SysReadDone, Live
  <2>2. ArgOK(p)'
    BY <1>2 DEF SysReadDone, ArgOK
  <2>3. pc' = [pc EXCEPT ![p] = "user"] /\ DOMAIN arg' = Proc
        /\ UNCHANGED <<free, space, perm, uiotab, refcnt>>
        /\ \A q \in Proc \ {p} : arg'[q] = arg[q]
    BY <1>2 DEF SysReadDone, fdVars
  <2> QED BY <2>1, <2>2, <2>3, StepOK
<1>3. ASSUME NEW v \in Touched, UserStore(p, v)
      PROVE  ProcInv'
  <2>1. UNCHANGED <<free, space, perm, pc, arg, uiotab, refcnt>>
    BY <1>3 DEF UserStore, fdVars
  <2> QED BY <2>1, SameCalls
<1>4. ASSUME NEW v \in Touched, NEW x \in Perms, PageFault(p, v, x)
      PROVE  ProcInv'
  <2>1. p \in Live /\ pc[p] = "user" /\ {v} \in SUBSET VPage
        /\ MapNew(p, {v}, {"R", "W"}, Cleared) /\ UNCHANGED <<pc, arg, uiotab, refcnt>>
    BY <1>4, ProcessAssumption DEF PageFault, Live, fdVars
  <2>2. Live' = Live /\ pc' \in [Proc -> Labels]
    BY <2>1 DEF Live
  <2>3. /\ SpaceInv' /\ NoSharing' /\ free' \subseteq Page
        /\ DOMAIN space' = Proc /\ DOMAIN perm' = Proc
        /\ \A q \in Proc \ {p} : Mapped(q)' = Mapped(q) /\ perm'[q] = perm[q]
    BY <2>1, <2>2, MapNewOK
  <2>4. ArgOK(p)' /\ pc'[p] = "user"
    BY <2>1 DEF ArgOK
  <2>5. Typing'
    BY <2>1, <2>3 DEF Typing
  <2>6. CallInv'
    BY <2>1, <2>3, <2>4, OneCalls
  <2> QED BY <2>3, <2>5, <2>6 DEF ProcInv
<1>5. ASSUME Exit(p)
      PROVE  ProcInv'
  <2>1. /\ pc[p] = "user" /\ pc' = [pc EXCEPT ![p] = "exited"] /\ UNCHANGED arg
        /\ refcnt' = [u \in Uio |-> Dropped(u, Cardinality(InTab(p, u)))]
        /\ uiotab' = [uiotab EXCEPT ![p] = [fd \in FD |-> NoUio]]
    BY <1>5 DEF Exit
  <2>2. /\ SpaceInv' /\ NoSharing' /\ free' \subseteq Page
        /\ DOMAIN space' = Proc /\ DOMAIN perm' = Proc
        /\ \A q \in Proc \ {p} : Mapped(q)' = Mapped(q) /\ perm'[q] = perm[q]
    BY <1>5, ExitOK
  <2>3. refcnt' \in [Uio -> Nat]
    BY <2>1, DroppedNat, InTabFinite
  <2>4. pc' \in [Proc -> Labels] /\ pc'[p] = "exited" /\ \A q \in Proc \ {p} : pc'[q] = pc[q]
    BY <2>1 DEF Labels
  <2>5. Typing'
    BY <2>1, <2>2, <2>3, <2>4 DEF Typing
  <2>6. ArgOK(p)'
    BY <2>4 DEF ArgOK
  <2>7. CallInv'
    BY <2>1, <2>2, <2>4, <2>6, OneCalls
  <2> QED BY <2>2, <2>5, <2>7 DEF ProcInv
<1> QED BY <1>1, <1>2, <1>3, <1>4, <1>5 DEF Memory, handle_umode_exception

LEMMA ConsoleOK ==
  ASSUME ProcInv, NEW p \in Proc, Console(p)
  PROVE  uiotab' \in [Proc -> [FD -> Uio \cup {NoUio}]] /\ refcnt' \in [Uio -> Nat]
<1> USE CallsOf
<1>1. CASE uiotab[p][2] = NoUio
  <2>1. /\ uiotab' = [uiotab EXCEPT ![p][0] = Uart1, ![p][1] = Uart1, ![p][2] = Uart1]
        /\ refcnt' = [refcnt EXCEPT ![Uart1] = 3] /\ Uart1 \in Uio
    BY <1>1, ProcessAssumption DEF Console
  <2>2. [uiotab EXCEPT ![p][0] = Uart1, ![p][1] = Uart1, ![p][2] = Uart1]
          \in [Proc -> [FD -> Uio \cup {NoUio}]]
    BY <2>1
  <2> QED BY <2>1, <2>2
<1>2. CASE uiotab[p][2] # NoUio
  BY <1>2 DEF Console, fdVars
<1> QED BY <1>1, <1>2

LEMMA ExecStepOK ==
  ASSUME ProcInv, NEW p \in Proc, pc[p] \in {"user", "boot"},
         NEW u \in Exe, NEW prog \in Programs, Console(p), Exec(p, u, prog)
  PROVE  ProcInv'
<1> USE CallsOf
<1>1. p \in Live /\ pc[p] # "fork"
  BY DEF Live
<1>2. /\ SpaceInv' /\ NoSharing' /\ free' \subseteq Page
      /\ DOMAIN space' = Proc /\ DOMAIN perm' = Proc /\ Nth(free, 1) \in Page
      /\ \A q \in Proc \ {p} : Mapped(q)' = Mapped(q) /\ perm'[q] = perm[q]
  BY <1>1, ExecOK
<1>3. /\ pc' = [pc EXCEPT ![p] = "elf"]
      /\ arg' = [arg EXCEPT ![p] =
                   [kind |-> "elf", exe |-> u, stack |-> Nth(free, 1), left |-> prog]]
  BY DEF Exec
<1>4. prog \in Seq(Segment)
  BY ProcessAssumption
<1>5. pc'[p] = "elf" /\ arg'[p] \in Loading
  BY <1>2, <1>3, <1>4 DEF Loading
<1>6. ArgOK(p)'
  BY <1>5 DEF ArgOK
<1>7. CallInv'
  BY <1>1, <1>2, <1>3, <1>5, <1>6, OneCalls
<1>8. Typing'
  <2>1. pc' \in [Proc -> Labels] /\ DOMAIN arg' = Proc
    BY <1>3 DEF Labels
  <2> QED BY <1>2, <2>1, ConsoleOK DEF Typing
<1> QED BY <1>2, <1>7, <1>8 DEF ProcInv

LEMMA HeadSegment ==
  ASSUME NEW p \in Proc, ArgOK(p), pc[p] \in {"elf", "load"}, arg[p].left # <<>>
  PROVE  /\ Head(arg[p].left) \in Segment /\ Head(arg[p].left).pages \in SUBSET VPage
         /\ Tail(arg[p].left) \in Seq(Segment)
<1>1. arg[p].left \in Seq(Segment)
  BY DEF ArgOK, Loading
<1>2. Head(arg[p].left) \in Segment /\ Tail(arg[p].left) \in Seq(Segment)
  BY <1>1
<1> QED BY <1>2, ProcessAssumption

LEMMA ExecutionOK ==
  ASSUME ProcInv, NEW p \in Proc, Execution(p)
  PROVE  ProcInv'
<1> USE CallsOf
<1>1. ASSUME NEW fd \in FD, NEW prog \in Programs, SysExec(p, fd, prog)
      PROVE  ProcInv'
  <2>1. /\ pc[p] = "user" /\ uiotab[p][fd] \in Exe /\ Console(p)
        /\ Exec(p, uiotab[p][fd], prog)
    BY <1>1 DEF SysExec
  <2> QED BY <2>1, ExecStepOK
<1>2. ASSUME NEW prog \in Programs, p = Main, BootExec(prog)
      PROVE  ProcInv'
  <2>1. pc[p] = "boot" /\ InitExe \in Exe /\ Console(p) /\ Exec(p, InitExe, prog)
    BY <1>2, ProcessAssumption DEF BootExec
  <2> QED BY <2>1, ExecStepOK
<1>3. ASSUME ElfMap(p)
      PROVE  ProcInv'
  <2> DEFINE seg == Head(arg[p].left)
  <2>1. /\ pc[p] = "elf" /\ arg[p].left # <<>> /\ MapNew(p, seg.pages, {"R", "W"}, "junk")
        /\ pc' = [pc EXCEPT ![p] = "load"] /\ UNCHANGED <<arg, uiotab, refcnt>>
    BY <1>3 DEF ElfMap, fdVars
  <2>2. seg.pages \in SUBSET VPage
    BY <2>1, HeadSegment
  <2>3. p \in Live /\ Live' = Live /\ pc' \in [Proc -> Labels] /\ pc'[p] = "load"
        /\ \A q \in Proc \ {p} : pc'[q] = pc[q]
    BY <2>1 DEF Live, Labels
  <2>4. /\ SpaceInv' /\ NoSharing' /\ free' \subseteq Page
        /\ DOMAIN space' = Proc /\ DOMAIN perm' = Proc
        /\ \A q \in Proc \ {p} : Mapped(q)' = Mapped(q) /\ perm'[q] = perm[q]
    BY <2>1, <2>2, <2>3, MapNewOK
  <2>5. ArgOK(p)'
    BY <2>1, <2>3 DEF ArgOK
  <2>6. Typing'
    BY <2>1, <2>3, <2>4 DEF Typing
  <2>7. CallInv'
    BY <2>1, <2>3, <2>4, <2>5, OneCalls
  <2> QED BY <2>4, <2>6, <2>7 DEF ProcInv
<1>4. ASSUME ElfRead(p)
      PROVE  ProcInv'
  <2> DEFINE seg == Head(arg[p].left)
             g   == [v \in seg.pages \cap Mapped(p) |-> seg.perm]
  <2>1. /\ pc[p] = "load" /\ pc' = [pc EXCEPT ![p] = "elf"]
        /\ arg' = [arg EXCEPT ![p].left = Tail(@)]
        /\ perm' = [perm EXCEPT ![p] = Over(g, @)] /\ UNCHANGED <<free, space, uiotab, refcnt>>
    BY <1>4 DEF ElfRead, SetFlags, fdVars
  <2>2. p \in Live /\ arg[p].left # <<>> /\ arg[p] \in Loading
    BY <2>1 DEF Live, ArgOK
  <2>3. Tail(arg[p].left) \in Seq(Segment)
    BY <2>1, <2>2, HeadSegment
  <2>4. arg'[p] = [arg[p] EXCEPT !.left = Tail(arg[p].left)] /\ DOMAIN arg' = Proc
        /\ \A q \in Proc \ {p} : arg'[q] = arg[q]
    BY <2>1
  <2>5. arg'[p] \in Loading /\ pc'[p] = "elf"
    BY <2>1, <2>2, <2>3, <2>4 DEF Loading
  <2>6. ArgOK(p)'
    BY <2>5 DEF ArgOK
  <2>7. /\ DOMAIN perm' = Proc /\ DOMAIN perm'[p] = DOMAIN perm[p]
        /\ \A q \in Proc \ {p} : perm'[q] = perm[q]
    <3>1. perm'[p] = Over(g, perm[p]) /\ DOMAIN perm[p] = Mapped(p)
      BY <2>1 DEF SpaceOK
    <3>2. DOMAIN Over(g, perm[p]) = (seg.pages \cap Mapped(p)) \cup DOMAIN perm[p]
      BY DEF Over
    <3> HIDE DEF g
    <3> QED BY <2>1, <3>1, <3>2
  <2> QED BY <2>1, <2>2, <2>4, <2>6, <2>7, StepOK
<1>5. ASSUME ExecDone(p)
      PROVE  ProcInv'
  <2>1. /\ pc[p] = "elf" /\ pc' = [pc EXCEPT ![p] = "user"] /\ arg' = [arg EXCEPT ![p] = NoArg]
        /\ refcnt' = [refcnt EXCEPT ![arg[p].exe] = Dropped(arg[p].exe, 1)]
        /\ UNCHANGED <<free, space, perm, uiotab>>
    BY <1>5 DEF ExecDone, memVars
  <2>2. p \in Live /\ arg[p].exe \in Uio /\ pc'[p] = "user"
    BY <2>1, ProcessAssumption DEF Live, ArgOK, Loading
  <2>3. refcnt' \in [Uio -> Nat]
    BY <2>1, <2>2, DroppedNat
  <2>4. ArgOK(p)'
    BY <2>2 DEF ArgOK
  <2> QED BY <2>1, <2>2, <2>3, <2>4, StepOK
<1>6. ASSUME NEW fd \in FD, ExecNoConsole(p, fd)
      PROVE  ProcInv'
  BY <1>6, SameCalls DEF ExecNoConsole, fdVars
<1> QED BY <1>1, <1>2, <1>3, <1>4, <1>5, <1>6 DEF Execution

LEMMA LivesOK ==
  ASSUME ProcInv, NEW p \in Proc, Lives(p)
  PROVE  ProcInv'
<1> USE CallsOf
<1>1. ASSUME NEW q \in Proc, Fork(p, q)
      PROVE  ProcInv'
  <2>1. /\ pc[p] = "user" /\ pc[q] = "free" /\ p # q
        /\ uiotab' = [uiotab EXCEPT ![q] = uiotab[p]]
        /\ refcnt' = [u \in Uio |-> refcnt[u] + Cardinality(InTab(p, u))]
        /\ pc' = [pc EXCEPT ![p] = "fork", ![q] = "born"]
        /\ arg' = [arg EXCEPT ![q] = [kind |-> "born", parent |-> p]]
    BY <1>1 DEF Fork, Shared
  <2>2. /\ SpaceInv' /\ NoSharing' /\ free' \subseteq Page
        /\ DOMAIN space' = Proc /\ DOMAIN perm' = Proc
        /\ \A r \in Proc \ {q} : Mapped(r)' = Mapped(r) /\ perm'[r] = perm[r]
    BY <1>1, ForkOK
  <2>3. Typing'
    <3>1. refcnt' \in [Uio -> Nat]
      BY <2>1, InTabFinite
    <3>2. pc' \in [Proc -> Labels]
      BY <2>1 DEF Labels
    <3> QED BY <2>1, <2>2, <3>1, <3>2 DEF Typing
  <2>4. /\ pc'[p] = "fork" /\ pc'[q] = "born" /\ arg'[q].parent = p
        /\ \A r \in Proc \ {p, q} : pc'[r] = pc[r]
        /\ \A r \in Proc \ {q} : arg'[r] = arg[r]
    BY <2>1
  <2>5. ASSUME NEW r \in Proc
        PROVE  ArgOK(r)'
    BY <2>2, <2>4 DEF CallInv, CallOK, ArgOK
  <2>6. ASSUME NEW r \in Proc, pc[r] = "born"
        PROVE  /\ r # p /\ r # q /\ arg[r].parent \in Proc \ {p, q}
               /\ pc[arg[r].parent] = "fork"
    BY <2>1, <2>6 DEF CallInv, CallOK, BornOK
  <2>7. \A r \in Proc : pc'[r] = "born" => r = q \/ pc[r] = "born"
    BY <2>4
  <2>8. ASSUME NEW r \in Proc, pc'[r] = "born"
        PROVE  BornOK(r)'
    <3>1. CASE r = q
      BY <2>4, <2>6, <2>7, <3>1 DEF BornOK
    <3>2. CASE r # q
      <4>1. pc[r] = "born" /\ BornOK(r)
        BY <2>7, <2>8, <3>2 DEF CallInv, CallOK
      <4>2. /\ arg[r].parent \in Proc \ {p, q} /\ pc'[arg[r].parent] = "fork"
            /\ arg'[r] = arg[r]
        BY <2>4, <2>6, <3>2, <4>1
      <4>3. ASSUME NEW t \in Proc, pc'[t] = "born", arg'[t].parent = arg[r].parent
            PROVE  r = t
        <5>1. t # q
          BY <2>4, <4>2, <4>3
        <5>2. pc[t] = "born" /\ arg'[t] = arg[t]
          BY <2>4, <2>7, <4>3, <5>1
        <5> QED BY <4>1, <4>3, <5>2 DEF BornOK
      <4> QED BY <4>2, <4>3 DEF BornOK
    <3> QED BY <3>1, <3>2
  <2>9. CallInv'
    BY <2>5, <2>8 DEF CallInv, CallOK, BornOK
  <2> QED BY <2>2, <2>3, <2>9 DEF ProcInv
<1>2. ASSUME NEW q \in Proc, SysWait(p, q)
      PROVE  ProcInv'
  <2>1. pc[q] = "exited" /\ pc' = [pc EXCEPT ![q] = "free"]
        /\ UNCHANGED <<free, space, perm, data, arg, uiotab, refcnt>>
    BY <1>2 DEF SysWait, memVars, fdVars
  <2>2. Live' = Live /\ pc' \in [Proc -> Labels] /\ pc'[q] = "free"
        /\ \A r \in Proc \ {q} : pc'[r] = pc[r]
    BY <2>1 DEF Live, Labels
  <2>3. Typing'
    BY <2>1, <2>2 DEF Typing
  <2>4. SpaceInv' /\ NoSharing'
    BY <2>1, <2>2, SameSpaces
  <2>5. ArgOK(q)' /\ \A r \in Proc : Mapped(r)' = Mapped(r)
    BY <2>1, <2>2 DEF ArgOK, Mapped
  <2>6. CallInv'
    BY <2>1, <2>2, <2>5, OneCalls
  <2> QED BY <2>3, <2>4, <2>6 DEF ProcInv
<1>3. ASSUME ForkFail(p)
      PROVE  ProcInv'
  <2>1. UNCHANGED <<space, perm, pc, arg, uiotab, refcnt>> /\ free' \subseteq free
    BY <1>3 DEF ForkFail, RefsAfterFailedFork
  <2> QED BY <2>1, SameCalls
<1>4. ASSUME ForkFunc(p)
      PROVE  ProcInv'
  <2> DEFINE parent == arg[p].parent
  <2>1. /\ pc[p] = "born" /\ pc' = [pc EXCEPT ![p] = "user", ![parent] = "user"]
        /\ arg' = [arg EXCEPT ![p] = NoArg]
        /\ UNCHANGED <<free, space, perm, data, uiotab, refcnt>>
    BY <1>4 DEF ForkFunc, memVars, fdVars
  <2>2. /\ parent \in Proc /\ parent # p /\ pc[parent] = "fork"
        /\ \A r \in Proc : pc[r] = "born" /\ arg[r].parent = parent => r = p
    BY <2>1 DEF BornOK
  <2>3. /\ pc'[p] = "user" /\ pc'[parent] = "user" /\ pc' \in [Proc -> Labels]
        /\ \A r \in Proc \ {p, parent} : pc'[r] = pc[r]
        /\ \A r \in Proc \ {p} : arg'[r] = arg[r]
    BY <2>1, <2>2 DEF Labels
  <2>4. Live' = Live /\ \A r \in Proc : Mapped(r)' = Mapped(r)
    BY <2>1, <2>2, <2>3 DEF Live, Mapped
  <2>5. Typing'
    BY <2>1, <2>3 DEF Typing
  <2>6. SpaceInv' /\ NoSharing'
    BY <2>1, <2>3, <2>4, SameSpaces
  <2>7. ASSUME NEW r \in Proc
        PROVE  ArgOK(r)'
    BY <2>1, <2>3, <2>4 DEF CallInv, CallOK, ArgOK
  <2>8. ASSUME NEW r \in Proc, pc'[r] = "born"
        PROVE  BornOK(r)'
    <3>1. r # p /\ pc[r] = "born" /\ BornOK(r) /\ arg'[r] = arg[r]
      BY <2>2, <2>3, <2>8 DEF CallInv, CallOK
    <3>2. arg[r].parent \in Proc \ {p, parent} /\ pc[arg[r].parent] = "fork"
      BY <2>1, <2>2, <3>1 DEF BornOK
    <3>3. \A q \in Proc : pc'[q] = "born" => pc[q] = "born" /\ arg'[q] = arg[q]
      BY <2>3
    <3> QED BY <2>3, <3>1, <3>2, <3>3 DEF BornOK
  <2>9. CallInv'
    BY <2>7, <2>8 DEF CallInv, CallOK, BornOK
  <2> QED BY <2>5, <2>6, <2>9 DEF ProcInv
<1>5. ASSUME Exit(p)
      PROVE  ProcInv'
  BY <1>5, MemoryOK DEF Memory, handle_umode_exception
<1> QED BY <1>1, <1>2, <1>3, <1>4, <1>5 DEF Lives
----------------------------------------------------------------------------
LEMMA ProcInit == Init => ProcInv
<1> SUFFICES ASSUME Init PROVE ProcInv
  OBVIOUS
<1>1. /\ free = Page /\ DOMAIN space = Proc /\ DOMAIN perm = Proc /\ DOMAIN arg = Proc
      /\ Main \in Proc /\ pc[Main] = "boot" /\ space[Main] = Only(Root, MainRoot)
      /\ \A p \in Proc : perm[p] = Empty
      /\ \A p \in Proc \ {Main} : pc[p] = "free" /\ space[p] = Empty
  BY ProcessAssumption DEF Init, main_pt2
<1>2. Live = {Main}
  BY <1>1 DEF Live
<1>3. /\ DOMAIN Only(Root, MainRoot) = {Root} /\ Only(Root, MainRoot)[Root] = MainRoot
      /\ DOMAIN Empty = {}
  BY DEF Only, Empty
<1>4. Typing
  <2>1. pc \in [Proc -> Labels]
    BY DEF Init, Labels
  <2>2. uiotab \in [Proc -> [FD -> Uio \cup {NoUio}]] /\ refcnt \in [Uio -> Nat]
    BY DEF Init
  <2> QED BY <1>1, <2>1, <2>2 DEF Typing
<1>5. SpaceInv
  <2>1. ASSUME NEW p \in Proc
        PROVE  SpaceOK(p)
    <3>1. CASE p = Main
      <4>1. {Root} \cap VPage = {} /\ MainRoot \in Page \cup {MainRoot}
        BY Nodes
      <4> QED BY <1>1, <1>2, <1>3, <3>1, <4>1 DEF SpaceOK, IsTree, Mapped
    <3>2. CASE p # Main
      BY <1>1, <1>2, <1>3, <3>2 DEF SpaceOK, Mapped
    <3> QED BY <3>1, <3>2
  <2> QED BY <1>1, <1>2, <1>3, <2>1 DEF SpaceInv
<1>6. NoSharing
  BY <1>1, <1>2, <1>3, Nodes DEF NoSharing
<1>7. CallInv
  BY <1>1 DEF CallInv, CallOK, ArgOK, BornOK
<1> QED BY <1>4, <1>5, <1>6, <1>7 DEF ProcInv

LEMMA ProcStep == ProcInv /\ [Next]_vars => ProcInv'
<1> SUFFICES ASSUME ProcInv, [Next]_vars PROVE ProcInv'
  OBVIOUS
<1>1. ASSUME NEW p \in Proc, Descriptors(p) \/ Memory(p) \/ Execution(p) \/ Lives(p)
      PROVE  ProcInv'
  BY <1>1, DescriptorsOK, MemoryOK, ExecutionOK, LivesOK
<1>2. ASSUME UNCHANGED vars
      PROVE  ProcInv'
  <2>1. UNCHANGED <<free, space, perm, pc, arg, uiotab, refcnt>>
    BY <1>2 DEF vars, memVars, fdVars
  <2> QED BY <2>1, CallsOf, SameCalls, ProcessAssumption
<1> QED BY <1>1, <1>2 DEF Next

LEMMA ProcInvariant == Spec => []ProcInv
BY ProcInit, ProcStep, PTL DEF Spec

(* Every live process has a tree of pages with its own root table, flags   *)
(* belong to mapped pages, and a read that was validated before its wait   *)
(* still finds its buffer mapped and writeable, however many processes     *)
(* fork, execute and exit meanwhile.                                       *)
THEOREM ProcessTyping == Spec => []TypeOK
BY ProcInvariant, InvTypeOK, PTL

(* fork, exec, exit and page faults, in any order and of any number of     *)
(* processes, never give a page to two places or leave a used page free.   *)
THEOREM NoSharingHolds == Spec => []NoSharing
<1>1. ProcInv => NoSharing
  BY DEF ProcInv
<1> QED BY <1>1, ProcInvariant, PTL
----------------------------------------------------------------------------
(* Where pages get lost.                                                   *)

LEMMA NoneLost ==
  ASSUME UNCHANGED <<free, space>>
  PROVE  Lost' \subseteq Lost
BY DEF Lost, PagesOf

LEMMA LostStep ==
  ASSUME ProcInv, NEW p \in Proc, Descriptors(p) \/ Memory(p) \/ Execution(p) \/ Lives(p)
  PROVE  \/ Lost' \subseteq Lost
         \/ \E r \in Live : \E v \in Mapped(r) :
              space'[r] # Empty /\ pc'[r] # "elf" /\ space'[r][v] # space[r][v]
         \/ (\A q \in Proc : pc[q] # "free") /\ UNCHANGED <<space, pc>>
         \/ \E r \in Live, stack \in free :
              /\ uiotab[r][2] = NoUio /\ refcnt[Uart1] # 0
              /\ Lost' \subseteq Lost \cup {stack} /\ UNCHANGED <<space, pc>>
<1> USE CallsOf
<1>1. CASE Descriptors(p)
  BY <1>1, NoneLost DEF Descriptors, SysOpen, SysClose, SysUiodup, memVars
<1>2. ASSUME NEW fd \in FD, NEW v \in Touched, SysRead(p, fd, v)
      PROVE  Lost' \subseteq Lost
  BY <1>2, NoneLost DEF SysRead, memVars
<1>3. CASE SysReadDone(p)
  BY <1>3, NoneLost DEF SysReadDone
<1>4. ASSUME NEW v \in Touched, UserStore(p, v)
      PROVE  Lost' \subseteq Lost
  BY <1>4, NoneLost DEF UserStore
<1>5. ASSUME NEW V \in SUBSET VPage, NEW bytes, MapNew(p, V, {"R", "W"}, bytes),
             p \in Live, Live' = Live, pc' \in [Proc -> Labels], pc'[p] # "elf"
      PROVE  \/ Lost' \subseteq Lost
             \/ \E r \in Live : \E v \in Mapped(r) :
                  space'[r] # Empty /\ pc'[r] # "elf" /\ space'[r][v] # space[r][v]
  BY <1>5, MapNewOK
<1>6. ASSUME NEW v \in Touched, NEW x \in Perms, PageFault(p, v, x)
      PROVE  \/ Lost' \subseteq Lost
             \/ \E r \in Live : \E w \in Mapped(r) :
                  space'[r] # Empty /\ pc'[r] # "elf" /\ space'[r][w] # space[r][w]
  <2>1. /\ pc[p] = "user" /\ {v} \in SUBSET VPage /\ MapNew(p, {v}, {"R", "W"}, Cleared)
        /\ pc' = pc
    BY <1>6, ProcessAssumption DEF PageFault
  <2>2. p \in Live /\ Live' = Live /\ pc' \in [Proc -> Labels] /\ pc'[p] # "elf"
    BY <2>1 DEF Live
  <2> QED BY <1>5, <2>1, <2>2
<1>7. CASE Exit(p)
  BY <1>7, ExitOK
<1>8. ASSUME NEW u \in Exe, NEW prog \in Programs, Exec(p, u, prog),
             pc[p] \in {"user", "boot"}
      PROVE  Lost' \subseteq Lost
  <2>1. p \in Live
    BY <1>8 DEF Live
  <2> QED BY <1>8, <2>1, ExecOK
<1>9. ASSUME NEW fd \in FD, NEW prog \in Programs, SysExec(p, fd, prog)
      PROVE  Lost' \subseteq Lost
  <2>1. pc[p] = "user" /\ uiotab[p][fd] \in Exe /\ Exec(p, uiotab[p][fd], prog)
    BY <1>9 DEF SysExec
  <2> QED BY <1>8, <2>1
<1>10. ASSUME NEW prog \in Programs, p = Main, BootExec(prog)
       PROVE  Lost' \subseteq Lost
  <2>1. pc[p] = "boot" /\ InitExe \in Exe /\ Exec(p, InitExe, prog)
    BY <1>10, ProcessAssumption DEF BootExec
  <2> QED BY <1>8, <2>1
<1>11. CASE ElfMap(p)
  <2> DEFINE seg == Head(arg[p].left)
  <2>1. /\ pc[p] = "elf" /\ arg[p].left # <<>> /\ MapNew(p, seg.pages, {"R", "W"}, "junk")
        /\ pc' = [pc EXCEPT ![p] = "load"]
    BY <1>11 DEF ElfMap
  <2>2. seg.pages \in SUBSET VPage
    BY <2>1, HeadSegment
  <2>3. p \in Live /\ Live' = Live /\ pc' \in [Proc -> Labels] /\ pc'[p] # "elf"
    BY <2>1 DEF Live, Labels
  <2> QED BY <1>5, <2>1, <2>2, <2>3
<1>12. CASE ElfRead(p) \/ ExecDone(p)
  BY <1>12, NoneLost DEF ElfRead, ExecDone, memVars
<1>13. ASSUME NEW q \in Proc, Fork(p, q)
       PROVE  Lost' \subseteq Lost
  BY <1>13, ForkOK
<1>14. ASSUME NEW q \in Proc, SysWait(p, q)
       PROVE  Lost' \subseteq Lost
  BY <1>14, NoneLost DEF SysWait, memVars
<1>15. CASE ForkFail(p)
  BY <1>15 DEF ForkFail
<1>16. CASE ForkFunc(p)
  BY <1>16, NoneLost DEF ForkFunc, memVars
<1>17. CASE Memory(p)
  BY <1>2, <1>3, <1>4, <1>6, <1>7, <1>17 DEF Memory, handle_umode_exception
<1>18. ASSUME NEW fd \in FD, ExecNoConsole(p, fd)
       PROVE  \E r \in Live, stack \in free :
                /\ uiotab[r][2] = NoUio /\ refcnt[Uart1] # 0
                /\ Lost' \subseteq Lost \cup {stack} /\ UNCHANGED <<space, pc>>
  <2> DEFINE stack == Nth(free, 1)
  <2>1. /\ pc[p] = "user" /\ uiotab[p][2] = NoUio /\ refcnt[Uart1] # 0
        /\ Enough({Stack}, free) /\ free' = free \ {stack} /\ UNCHANGED <<space, pc>>
    BY <1>18 DEF ExecNoConsole
  <2>2. p \in Live /\ stack \in free
    BY <2>1, StackOK DEF Live
  <2> HIDE DEF stack
  <2>3. Lost' \subseteq Lost \cup {stack}
    BY <2>1 DEF Lost, PagesOf
  <2> QED BY <2>1, <2>2, <2>3
<1>19. CASE Execution(p)
  BY <1>9, <1>10, <1>11, <1>12, <1>18, <1>19 DEF Execution
<1>20. CASE Lives(p)
  BY <1>7, <1>13, <1>14, <1>15, <1>16, <1>20 DEF Lives
<1> QED BY <1>1, <1>17, <1>19, <1>20

(* Pages get lost in three places only: where a page is mapped over a page,*)
(* in a fork that finds no thread, and, one page, in an exec that cannot   *)
(* open the console. Every other exec gives back the old space, exit the   *)
(* whole space, and a successful fork takes what its child uses.           *)
THEOREM LostOnlyThereHolds == Spec => LostOnlyThere
<1> DEFINE Known ==
      \/ Lost' \subseteq Lost
      \/ \E p \in Live : \E v \in Mapped(p) :
           space'[p] # Empty /\ pc'[p] # "elf" /\ space'[p][v] # space[p][v]
      \/ (\A q \in Proc : pc[q] # "free") /\ UNCHANGED <<space, pc>>
      \/ \E p \in Live, stack \in free :
           /\ uiotab[p][2] = NoUio /\ refcnt[Uart1] # 0
           /\ Lost' \subseteq Lost \cup {stack} /\ UNCHANGED <<space, pc>>
<1>1. ProcInv /\ [Next]_vars => [Known]_vars
  BY LostStep DEF Next
<1> HIDE DEF Known
<1>2. Spec => [][Known]_vars
  BY <1>1, ProcInvariant, PTL DEF Spec
<1> QED BY <1>2 DEF LostOnlyThere, Known
----------------------------------------------------------------------------
(* References. A slot without a process has no descriptors.                *)

Bare(p) == pc[p] \in {"free", "exited", "boot"}
TabOK(p) == Bare(p) => \A fd \in FD : uiotab[p][fd] = NoUio
TabInv == \A p \in Proc : TabOK(p)
RefInv == ProcInv /\ TabInv /\ NamedAreOpen

(* What a step does to the references of u and to the descriptors naming it*)
Overwritten(u) ==
  \E p \in Proc : /\ uiotab[p][2] = NoUio /\ uiotab'[p][2] = Uart1 /\ pc'[p] = "elf"
                  /\ u \in {uiotab[p][0], uiotab[p][1]}
NoneForgotten(u) ==
  \/ refcnt'[u] <= Cardinality(Names(u)')
  \/ refcnt'[u] - Cardinality(Names(u)') <= refcnt[u] - Cardinality(Names(u))
CountOK(u) ==
  /\ u \notin Exe => Cardinality(Names(u)') <= refcnt'[u]
  /\ NoneForgotten(u) \/ Overwritten(u)
CountsOK == \A u \in Uio : CountOK(u)

LEMMA ThreeElements ==
  ASSUME NEW a, NEW b, NEW c, a # b, a # c, b # c
  PROVE  Cardinality({a, b, c}) = 3
<1>1. IsFiniteSet({a}) /\ Cardinality({a}) = 1
  BY FS_Singleton
<1>2. IsFiniteSet({a} \cup {b}) /\ Cardinality({a} \cup {b}) = 2
  <2>1. b \notin {a}
    OBVIOUS
  <2> QED BY <1>1, <2>1, FS_AddElement
<1>3. Cardinality(({a} \cup {b}) \cup {c}) = 3
  <2>1. c \notin {a} \cup {b}
    OBVIOUS
  <2> QED BY <1>2, <2>1, FS_AddElement
<1>4. {a, b, c} = ({a} \cup {b}) \cup {c}
  OBVIOUS
<1> QED BY <1>3, <1>4

LEMMA NamesFinite ==
  ASSUME NEW u
  PROVE  IsFiniteSet(Names(u)) /\ Cardinality(Names(u)) \in Nat
<1>1. IsFiniteSet(FD)
  <2>1. UIOMAX - 1 \in Int
    BY ProcessAssumption
  <2> QED BY <2>1, FS_Interval DEF FD
<1>2. IsFiniteSet(Proc \X FD)
  BY <1>1, FS_Product, ProcessAssumption
<1>3. Names(u) \in SUBSET (Proc \X FD)
  BY DEF Names
<1> QED BY <1>2, <1>3, FS_Subset, FS_CardinalityType

LEMMA NamesFiniteNext ==
  ASSUME NEW u
  PROVE  IsFiniteSet(Names(u)') /\ Cardinality(Names(u)') \in Nat
<1>1. \A w : IsFiniteSet(Names(w)) /\ Cardinality(Names(w)) \in Nat
  BY NamesFinite
<1>2. (\A w : IsFiniteSet(Names(w)) /\ Cardinality(Names(w)) \in Nat)'
  BY <1>1, PTL
<1> QED BY <1>2

(* A count that follows the descriptors, up or down, is as good as before. *)
LEMMA Followed ==
  ASSUME RefInv, refcnt' \in [Uio -> Nat], NEW u \in Uio, NEW k \in Nat,
         \/ /\ Cardinality(Names(u)') = Cardinality(Names(u)) + k
            /\ refcnt'[u] = refcnt[u] + k
         \/ /\ Cardinality(Names(u)') = Cardinality(Names(u)) - k
            /\ refcnt'[u] = Dropped(u, k)
  PROVE  CountOK(u)
<1> DEFINE n == Cardinality(Names(u))
           m == Cardinality(Names(u)')
<1>1. n \in Nat /\ m \in Nat
  BY NamesFinite, NamesFiniteNext
<1>2. refcnt[u] \in Nat /\ refcnt'[u] \in Nat /\ (u \notin Exe => n <= refcnt[u])
  BY DEF RefInv, ProcInv, Typing, NamedAreOpen
<1>3. \/ m = n + k /\ refcnt'[u] = refcnt[u] + k
      \/ m = n - k /\ refcnt'[u] = IF refcnt[u] < k THEN 0 ELSE refcnt[u] - k
  BY DEF Dropped
<1>4. u \notin Exe => m <= refcnt'[u]
  <2> HIDE DEF n, m
  <2> QED BY <1>1, <1>2, <1>3
<1>5. refcnt'[u] <= m \/ refcnt'[u] - m <= refcnt[u] - n
  <2> HIDE DEF n, m
  <2> QED BY <1>1, <1>2, <1>3
<1> QED BY <1>4, <1>5 DEF CountOK, NoneForgotten

(* Neither its references nor its descriptors change.                      *)
LEMMA Untouched ==
  ASSUME RefInv, NEW u \in Uio, Names(u)' = Names(u), refcnt'[u] = refcnt[u]
  PROVE  CountOK(u)
<1> DEFINE n == Cardinality(Names(u))
<1>1. n \in Nat /\ refcnt[u] \in Nat /\ (u \notin Exe => n <= refcnt[u])
  BY NamesFinite DEF RefInv, ProcInv, Typing, NamedAreOpen
<1>2. Cardinality(Names(u)') = n
  BY Zenon
<1> HIDE DEF n
<1>3. u \notin Exe => n <= refcnt'[u]
  BY <1>1
<1>4. refcnt'[u] - n <= refcnt[u] - n
  BY <1>1
<1> QED BY <1>2, <1>3, <1>4 DEF CountOK, NoneForgotten, n

LEMMA Places ==
  ASSUME NEW p \in Proc, NEW fd \in FD, NEW x, uiotab \in [Proc -> [FD -> Uio \cup {NoUio}]],
         uiotab' = [uiotab EXCEPT ![p][fd] = x]
  PROVE  /\ uiotab'[p][fd] = x
         /\ \A y \in Proc \X FD : y # <<p, fd>> => uiotab'[y[1]][y[2]] = uiotab[y[1]][y[2]]
<1>1. ASSUME NEW r \in Proc, NEW gd \in FD, <<r, gd>> # <<p, fd>>
      PROVE  uiotab'[r][gd] = uiotab[r][gd]
  BY <1>1
<1>2. \A y \in Proc \X FD : y = <<y[1], y[2]>> /\ y[1] \in Proc /\ y[2] \in FD
  OBVIOUS
<1>3. uiotab'[p][fd] = x
  OBVIOUS
<1> QED BY <1>1, <1>2, <1>3

(* A free place of the table gets a name.                                  *)
LEMMA OneMore ==
  ASSUME ProcInv, NEW p \in Proc, NEW fd \in FD, NEW u \in Uio, uiotab[p][fd] = NoUio,
         uiotab' = [uiotab EXCEPT ![p][fd] = u]
  PROVE  /\ Cardinality(Names(u)') = Cardinality(Names(u)) + 1
         /\ \A w \in Uio \ {u} : Names(w)' = Names(w)
<1> USE CallsOf
<1>1. NoUio \notin Uio
  BY ProcessAssumption
<1>2. /\ uiotab'[p][fd] = u
      /\ \A x \in Proc \X FD : x # <<p, fd>> => uiotab'[x[1]][x[2]] = uiotab[x[1]][x[2]]
  BY Places
<1>3. \A w \in Uio \ {u} : Names(w)' = Names(w)
  BY <1>1, <1>2 DEF Names
<1>4. Names(u)' = Names(u) \cup {<<p, fd>>} /\ <<p, fd>> \notin Names(u)
  BY <1>1, <1>2 DEF Names
<1>5. Cardinality(Names(u) \cup {<<p, fd>>}) = Cardinality(Names(u)) + 1
  BY <1>4, NamesFinite, FS_AddElement
<1> QED BY <1>3, <1>4, <1>5

LEMMA DescriptorsRefs ==
  ASSUME RefInv, NEW p \in Proc, Descriptors(p)
  PROVE  TabInv' /\ CountsOK
<1> USE CallsOf DEF RefInv
<1>0. (\A q \in Proc : TabOK(q)) /\ refcnt' \in [Uio -> Nat] /\ \A u \in Uio : refcnt[u] \in Nat
  BY DescriptorsOK DEF TabInv, ProcInv, Typing
<1>1. ASSUME NEW fd \in FD, NEW u \in Uio, SysOpen(p, fd, u)
      PROVE  TabInv' /\ CountsOK
  <2>1. /\ pc[p] = "user" /\ uiotab[p][fd] = NoUio /\ refcnt[u] = 0 /\ pc' = pc
        /\ uiotab' = [uiotab EXCEPT ![p][fd] = u] /\ refcnt' = [refcnt EXCEPT ![u] = 1]
    BY <1>1 DEF SysOpen, Unused
  <2>2. TabInv'
    BY <1>0, <2>1 DEF TabInv, TabOK, Bare
  <2>3. /\ Cardinality(Names(u)') = Cardinality(Names(u)) + 1
        /\ \A w \in Uio \ {u} : Names(w)' = Names(w)
    BY <2>1, OneMore
  <2>4. CountOK(u)
    <3>1. refcnt'[u] = refcnt[u] + 1
      BY <2>1
    <3> QED BY <1>0, <2>3, <3>1, Followed
  <2>5. \A w \in Uio \ {u} : CountOK(w)
    BY <2>1, <2>3, Untouched
  <2> QED BY <2>2, <2>4, <2>5 DEF CountsOK
<1>2. ASSUME NEW fd \in FD, SysClose(p, fd)
      PROVE  TabInv' /\ CountsOK
  <2>0. PICK u \in Uio : u = uiotab[p][fd]
    BY <1>2 DEF SysClose
  <2>1. /\ pc[p] = "user" /\ pc' = pc /\ uiotab' = [uiotab EXCEPT ![p][fd] = NoUio]
        /\ refcnt' = [refcnt EXCEPT ![u] = Dropped(u, 1)]
    BY <1>2, <2>0 DEF SysClose
  <2>2. TabInv'
    BY <1>0, <2>1 DEF TabInv, TabOK, Bare
  <2>3. /\ uiotab'[p][fd] = NoUio /\ NoUio \notin Uio
        /\ \A x \in Proc \X FD : x # <<p, fd>> => uiotab'[x[1]][x[2]] = uiotab[x[1]][x[2]]
    BY <2>1, Places, ProcessAssumption
  <2>4. CountOK(u)
    <3>1. Names(u)' = Names(u) \ {<<p, fd>>} /\ <<p, fd>> \in Names(u)
      BY <2>0, <2>3 DEF Names
    <3>2. Cardinality(Names(u)') = Cardinality(Names(u)) - 1
      <4>1. Cardinality(Names(u) \ {<<p, fd>>}) = Cardinality(Names(u)) - 1
        BY <3>1, NamesFinite, FS_RemoveElement
      <4> QED BY <3>1, <4>1
    <3>3. refcnt'[u] = Dropped(u, 1)
      BY <2>1
    <3> QED BY <1>0, <3>2, <3>3, Followed
  <2>5. ASSUME NEW w \in Uio \ {u}
        PROVE  CountOK(w)
    <3>1. Names(w)' = Names(w)
      BY <2>0, <2>3 DEF Names
    <3> QED BY <2>1, <3>1, Untouched
  <2> QED BY <2>2, <2>4, <2>5 DEF CountsOK
<1>3. ASSUME NEW old \in FD, NEW new \in FD, SysUiodup(p, old, new)
      PROVE  TabInv' /\ CountsOK
  <2>0. PICK u \in Uio : u = uiotab[p][old]
    BY <1>3 DEF SysUiodup
  <2>1. /\ pc[p] = "user" /\ uiotab[p][new] = NoUio /\ pc' = pc
        /\ uiotab' = [uiotab EXCEPT ![p][new] = u]
        /\ refcnt' = [refcnt EXCEPT ![u] = refcnt[u] + 1]
    BY <1>3, <2>0 DEF SysUiodup
  <2>2. TabInv'
    BY <1>0, <2>1 DEF TabInv, TabOK, Bare
  <2>3. /\ Cardinality(Names(u)') = Cardinality(Names(u)) + 1
        /\ \A w \in Uio \ {u} : Names(w)' = Names(w)
    BY <2>1, OneMore
  <2>4. CountOK(u)
    <3>1. refcnt'[u] = refcnt[u] + 1
      BY <2>1
    <3> QED BY <1>0, <2>3, <3>1, Followed
  <2>5. \A w \in Uio \ {u} : CountOK(w)
    BY <2>1, <2>3, Untouched
  <2> QED BY <2>2, <2>4, <2>5 DEF CountsOK
<1> QED BY <1>1, <1>2, <1>3 DEF Descriptors

(* Descriptors and counts stay.                                            *)
LEMMA SameRefs ==
  ASSUME RefInv, UNCHANGED <<uiotab, refcnt>>, \A p \in Proc : Bare(p)' => Bare(p)
  PROVE  TabInv' /\ CountsOK
<1>1. TabInv'
  BY DEF RefInv, TabInv, TabOK
<1>2. ASSUME NEW u \in Uio
      PROVE  CountOK(u)
  <2>1. Names(u)' = Names(u)
    BY DEF Names
  <2> QED BY <2>1, Untouched
<1> QED BY <1>1, <1>2 DEF CountsOK

LEMMA ConsoleRefs ==
  ASSUME RefInv, NEW p \in Proc, Console(p), pc' = [pc EXCEPT ![p] = "elf"]
  PROVE  TabInv' /\ CountsOK
<1> USE CallsOf DEF RefInv
<1>0. /\ (\A q \in Proc : TabOK(q)) /\ pc'[p] = "elf" /\ \A q \in Proc \ {p} : pc'[q] = pc[q]
      /\ Uart1 \in Uio /\ NoUio \notin Uio /\ \A u \in Uio : refcnt[u] \in Nat
  BY ProcessAssumption DEF TabInv
<1>1. CASE uiotab[p][2] = NoUio
  <2>1. /\ uiotab' = [uiotab EXCEPT ![p][0] = Uart1, ![p][1] = Uart1, ![p][2] = Uart1]
        /\ refcnt' = [refcnt EXCEPT ![Uart1] = 3] /\ refcnt[Uart1] = 0 /\ Names(Uart1) = {}
    BY <1>1 DEF Console, Unused
  <2>2. /\ uiotab'[p][0] = Uart1 /\ uiotab'[p][1] = Uart1 /\ uiotab'[p][2] = Uart1
        /\ \A fd \in FD \ {0, 1, 2} : uiotab'[p][fd] = uiotab[p][fd]
        /\ \A r \in Proc \ {p} : uiotab'[r] = uiotab[r]
    BY <1>0, <2>1
  <2>3. TabInv'
    BY <1>0, <2>2 DEF TabInv, TabOK, Bare
  <2>4. \A r \in Proc, fd \in FD : <<r, fd>> \notin Names(Uart1)
    BY <2>1
  <2>5. CountOK(Uart1)
    <3> DEFINE T == {<<p, 0>>, <<p, 1>>, <<p, 2>>}
    <3>1. Names(Uart1)' = T
      <4>1. ASSUME NEW r \in Proc, NEW fd \in FD
            PROVE  uiotab'[r][fd] = Uart1 <=> <<r, fd>> \in T
        <5>1. uiotab[r][fd] # Uart1
          BY <2>4 DEF Names
        <5>2. <<r, fd>> \in T <=> r = p /\ fd \in {0, 1, 2}
          OBVIOUS
        <5>3. CASE r = p /\ fd \in {0, 1, 2}
          BY <2>2, <5>2, <5>3
        <5>4. CASE ~(r = p /\ fd \in {0, 1, 2})
          <6>1. uiotab'[r][fd] = uiotab[r][fd]
            BY <2>2, <5>4
          <6> QED BY <5>1, <5>2, <5>4, <6>1
        <5> QED BY <5>3, <5>4
      <4>2. \A x \in Proc \X FD : x = <<x[1], x[2]>> /\ x[1] \in Proc /\ x[2] \in FD
        OBVIOUS
      <4>3. T \subseteq Proc \X FD
        OBVIOUS
      <4> HIDE DEF T
      <4> QED BY <4>1, <4>2, <4>3 DEF Names
    <3>2. Cardinality(T) = 3
      <4>1. <<p, 0>> # <<p, 1>> /\ <<p, 0>> # <<p, 2>> /\ <<p, 1>> # <<p, 2>>
        OBVIOUS
      <4> QED BY <4>1, ThreeElements
    <3>3. Cardinality(Names(Uart1)) = 0
      BY <2>1, FS_EmptySet
    <3>4. refcnt'[Uart1] = refcnt[Uart1] + 3 /\ refcnt' \in [Uio -> Nat]
      BY <1>0, <2>1
    <3> HIDE DEF T
    <3>5. Cardinality(Names(Uart1)') = Cardinality(Names(Uart1)) + 3
      BY <3>1, <3>2, <3>3
    <3> QED BY <1>0, <3>4, <3>5, Followed
  <2>6. ASSUME NEW w \in Uio \ {Uart1}
        PROVE  CountOK(w)
    <3>1. refcnt'[w] = refcnt[w]
      BY <2>1
    <3>2. ASSUME NEW x \in Proc \X FD, uiotab'[x[1]][x[2]] = w
          PROVE  uiotab[x[1]][x[2]] = w
      <4>1. x = <<x[1], x[2]>> /\ x[1] \in Proc /\ x[2] \in FD
        OBVIOUS
      <4> QED BY <2>2, <3>2, <4>1
    <3>3. CASE w \in {uiotab[p][0], uiotab[p][1]}
      <4>1. Overwritten(w)
        BY <1>0, <1>1, <2>2, <3>3 DEF Overwritten
      <4>2. Names(w)' \in SUBSET Names(w)
        BY <3>2 DEF Names
      <4>3. Cardinality(Names(w)') <= Cardinality(Names(w))
        BY <4>2, NamesFinite, FS_Subset
      <4>4. w \notin Exe => Cardinality(Names(w)) <= refcnt[w]
        BY DEF NamedAreOpen
      <4>5. w \notin Exe => Cardinality(Names(w)') <= refcnt'[w]
        BY <1>0, <3>1, <4>3, <4>4, NamesFinite, NamesFiniteNext
      <4> QED BY <4>1, <4>5 DEF CountOK
    <3>4. CASE w \notin {uiotab[p][0], uiotab[p][1]}
      <4>1. ASSUME NEW r \in Proc, NEW fd \in FD
            PROVE  uiotab[r][fd] = w <=> uiotab'[r][fd] = w
        <5>1. CASE r = p /\ fd \in {0, 1, 2}
          BY <1>0, <1>1, <2>2, <3>4, <5>1
        <5>2. CASE ~(r = p /\ fd \in {0, 1, 2})
          BY <2>2, <5>2
        <5> QED BY <5>1, <5>2
      <4>2. Names(w)' = Names(w)
        BY <4>1 DEF Names
      <4> QED BY <3>1, <4>2, Untouched
    <3> QED BY <3>3, <3>4
  <2> QED BY <2>3, <2>5, <2>6 DEF CountsOK
<1>2. CASE uiotab[p][2] # NoUio
  <2>1. UNCHANGED <<uiotab, refcnt>>
    BY <1>2 DEF Console, fdVars
  <2>2. \A q \in Proc : Bare(q)' => Bare(q)
    BY <1>0 DEF Bare
  <2> QED BY <2>1, <2>2, SameRefs
<1> QED BY <1>1, <1>2

(* The descriptors of p as names.                                          *)
LEMMA TabNames ==
  ASSUME NEW p, NEW u
  PROVE  /\ IsFiniteSet({p} \X InTab(p, u))
         /\ Cardinality({p} \X InTab(p, u)) = Cardinality(InTab(p, u))
         /\ \A q : Cardinality({q} \X InTab(p, u)) = Cardinality(InTab(p, u))
                     /\ IsFiniteSet({q} \X InTab(p, u))
<1>1. IsFiniteSet(InTab(p, u)) /\ Cardinality(InTab(p, u)) \in Nat
  <2>1. UIOMAX - 1 \in Int
    BY ProcessAssumption
  <2>2. IsFiniteSet(FD) /\ InTab(p, u) \in SUBSET FD
    BY <2>1, FS_Interval DEF FD, InTab
  <2> QED BY <2>2, FS_Subset, InTabFinite
<1>2. ASSUME NEW q
      PROVE  /\ IsFiniteSet({q} \X InTab(p, u))
             /\ Cardinality({q} \X InTab(p, u)) = Cardinality(InTab(p, u))
  <2>1. IsFiniteSet({q}) /\ Cardinality({q}) = 1
    BY FS_Singleton
  <2>2. /\ IsFiniteSet({q} \X InTab(p, u))
        /\ Cardinality({q} \X InTab(p, u)) = 1 * Cardinality(InTab(p, u))
    BY <1>1, <2>1, FS_Product
  <2> QED BY <1>1, <2>2
<1> QED BY <1>2

LEMMA ForkRefs ==
  ASSUME RefInv, NEW p \in Proc, NEW q \in Proc, Fork(p, q)
  PROVE  TabInv' /\ CountsOK
<1> USE CallsOf DEF RefInv
<1>1. /\ pc[p] = "user" /\ pc[q] = "free" /\ p # q /\ NoUio \notin Uio
      /\ uiotab' = [uiotab EXCEPT ![q] = uiotab[p]]
      /\ refcnt' = [u \in Uio |-> refcnt[u] + Cardinality(InTab(p, u))]
      /\ pc' = [pc EXCEPT ![p] = "fork", ![q] = "born"]
  BY ProcessAssumption DEF Fork, Shared
<1>2. /\ uiotab'[q] = uiotab[p] /\ \A r \in Proc \ {q} : uiotab'[r] = uiotab[r]
      /\ pc'[p] = "fork" /\ pc'[q] = "born" /\ \A r \in Proc \ {p, q} : pc'[r] = pc[r]
  BY <1>1
<1>3. \A fd \in FD : uiotab[q][fd] = NoUio
  BY <1>1 DEF TabInv, TabOK, Bare
<1>4. TabInv'
  BY <1>1, <1>2 DEF TabInv, TabOK, Bare
<1>5. ASSUME NEW u \in Uio
      PROVE  CountOK(u)
  <2> DEFINE T == {q} \X InTab(p, u)
  <2>1. Names(u)' = Names(u) \cup T /\ Names(u) \cap T = {}
    <3>1. ASSUME NEW r \in Proc, NEW fd \in FD
          PROVE  /\ <<r, fd>> \in Names(u)' <=> uiotab'[r][fd] = u
                 /\ <<r, fd>> \in Names(u) <=> uiotab[r][fd] = u
                 /\ <<r, fd>> \in T <=> r = q /\ uiotab[p][fd] = u
      BY DEF Names, InTab
    <3>2. ASSUME NEW r \in Proc, NEW fd \in FD
          PROVE  /\ <<r, fd>> \in Names(u)' <=> <<r, fd>> \in Names(u) \cup T
                 /\ ~(<<r, fd>> \in Names(u) /\ <<r, fd>> \in T)
      <4>1. CASE r = q
        BY <1>1, <1>2, <1>3, <3>1, <4>1
      <4>2. CASE r # q
        BY <1>2, <3>1, <4>2
      <4> QED BY <4>1, <4>2
    <3>3. \A x \in Names(u)' \cup Names(u) \cup T :
            x = <<x[1], x[2]>> /\ x[1] \in Proc /\ x[2] \in FD
      BY DEF Names, InTab
    <3> HIDE DEF T
    <3> QED BY <3>2, <3>3
  <2>2. Cardinality(Names(u) \cup T) = Cardinality(Names(u)) + Cardinality(T)
    <3>1. IsFiniteSet(T) /\ Cardinality(T) \in Nat
      <4>1. IsFiniteSet({q} \X InTab(p, u))
        BY TabNames
      <4> QED BY <4>1, FS_CardinalityType
    <3> HIDE DEF T
    <3>2. Cardinality(Names(u) \cup T)
            = Cardinality(Names(u)) + Cardinality(T) - Cardinality(Names(u) \cap T)
      BY <3>1, NamesFinite, FS_Union
    <3>3. Cardinality(Names(u) \cap T) = 0
      BY <2>1, FS_EmptySet
    <3> QED BY <3>1, <3>2, <3>3, NamesFinite
  <2>3. Cardinality(T) = Cardinality(InTab(p, u)) /\ Cardinality(InTab(p, u)) \in Nat
    BY TabNames, InTabFinite
  <2>4. refcnt'[u] = refcnt[u] + Cardinality(InTab(p, u)) /\ refcnt' \in [Uio -> Nat]
    BY <1>1, InTabFinite
  <2> HIDE DEF T
  <2>5. Cardinality(Names(u)') = Cardinality(Names(u)) + Cardinality(InTab(p, u))
    BY <2>1, <2>2, <2>3
  <2> QED BY <2>3, <2>4, <2>5, Followed
<1> QED BY <1>4, <1>5 DEF CountsOK

LEMMA ExitRefs ==
  ASSUME RefInv, NEW p \in Proc, Exit(p)
  PROVE  TabInv' /\ CountsOK
<1> USE CallsOf DEF RefInv
<1>1. /\ pc[p] = "user" /\ NoUio \notin Uio
      /\ uiotab' = [uiotab EXCEPT ![p] = [fd \in FD |-> NoUio]]
      /\ refcnt' = [u \in Uio |-> Dropped(u, Cardinality(InTab(p, u)))]
      /\ pc' = [pc EXCEPT ![p] = "exited"]
  BY ProcessAssumption DEF Exit
<1>2. /\ \A fd \in FD : uiotab'[p][fd] = NoUio
      /\ \A r \in Proc \ {p} : uiotab'[r] = uiotab[r] /\ pc'[r] = pc[r]
      /\ pc'[p] = "exited"
  BY <1>1
<1>3. TabInv'
  BY <1>2 DEF TabInv, TabOK, Bare
<1>4. ASSUME NEW u \in Uio
      PROVE  CountOK(u)
  <2> DEFINE T == {p} \X InTab(p, u)
  <2>1. Names(u)' = Names(u) \ T /\ Names(u) \cap T = T
    <3>1. ASSUME NEW r \in Proc, NEW fd \in FD
          PROVE  /\ <<r, fd>> \in Names(u)' <=> uiotab'[r][fd] = u
                 /\ <<r, fd>> \in Names(u) <=> uiotab[r][fd] = u
                 /\ <<r, fd>> \in T <=> r = p /\ uiotab[p][fd] = u
      BY DEF Names, InTab
    <3>2. ASSUME NEW r \in Proc, NEW fd \in FD
          PROVE  /\ <<r, fd>> \in Names(u)' <=> <<r, fd>> \in Names(u) \ T
                 /\ <<r, fd>> \in T => <<r, fd>> \in Names(u)
      <4>1. CASE r = p
        BY <1>1, <1>2, <3>1, <4>1
      <4>2. CASE r # p
        BY <1>2, <3>1, <4>2
      <4> QED BY <4>1, <4>2
    <3>3. \A x \in Names(u)' \cup Names(u) \cup T :
            x = <<x[1], x[2]>> /\ x[1] \in Proc /\ x[2] \in FD
      BY DEF Names, InTab
    <3> HIDE DEF T
    <3> QED BY <3>2, <3>3
  <2>2. Cardinality(Names(u) \ T) = Cardinality(Names(u)) - Cardinality(T)
    <3> HIDE DEF T
    <3> QED BY <2>1, NamesFinite, FS_Difference
  <2>3. Cardinality(T) = Cardinality(InTab(p, u)) /\ Cardinality(InTab(p, u)) \in Nat
    BY TabNames, InTabFinite
  <2>4. refcnt'[u] = Dropped(u, Cardinality(InTab(p, u))) /\ refcnt' \in [Uio -> Nat]
    BY <1>1, DroppedNat, InTabFinite
  <2> HIDE DEF T
  <2>5. Cardinality(Names(u)') = Cardinality(Names(u)) - Cardinality(InTab(p, u))
    BY <2>1, <2>2, <2>3
  <2> QED BY <2>3, <2>4, <2>5, Followed
<1> QED BY <1>3, <1>4 DEF CountsOK

(* The executable is closed, its descriptor stays.                         *)
LEMMA ExecDoneRefs ==
  ASSUME RefInv, NEW p \in Proc, ExecDone(p)
  PROVE  TabInv' /\ CountsOK
<1> USE CallsOf DEF RefInv
<1>1. /\ pc[p] = "elf" /\ pc' = [pc EXCEPT ![p] = "user"] /\ UNCHANGED uiotab
      /\ refcnt' = [refcnt EXCEPT ![arg[p].exe] = Dropped(arg[p].exe, 1)]
  BY DEF ExecDone
<1>2. PICK x \in Exe : x = arg[p].exe /\ x \in Uio
  BY <1>1, ProcessAssumption DEF ArgOK, Loading
<1>3. TabInv'
  BY <1>1 DEF TabInv, TabOK, Bare
<1>4. \A u \in Uio : Names(u)' = Names(u)
  BY <1>1 DEF Names
<1>5. \A u \in Uio \ {x} : CountOK(u)
  BY <1>1, <1>2, <1>4, Untouched
<1>6. CountOK(x)
  <2> DEFINE n == Cardinality(Names(x))
  <2>1. n \in Nat /\ refcnt[x] \in Nat /\ Cardinality(Names(x)') = n
    <3>1. refcnt[x] \in Nat
      BY <1>2
    <3>2. Names(x)' = Names(x)
      BY <1>2, <1>4
    <3>3. Cardinality(Names(x)') = n
      BY <3>2, Zenon
    <3> QED BY <3>1, <3>3, NamesFinite
  <2>2. refcnt'[x] = IF refcnt[x] < 1 THEN 0 ELSE refcnt[x] - 1
    BY <1>1, <1>2 DEF Dropped
  <2> HIDE DEF n
  <2>3. refcnt'[x] <= n \/ refcnt'[x] - n <= refcnt[x] - n
    BY <2>1, <2>2
  <2> QED BY <2>1, <2>3 DEF CountOK, NoneForgotten, n
<1> QED BY <1>3, <1>5, <1>6 DEF CountsOK

LEMMA RefStep ==
  ASSUME RefInv, [Next]_vars
  PROVE  TabInv' /\ CountsOK
<1> USE CallsOf
<1>0. ProcInv /\ Main \in Proc
  BY ProcessAssumption DEF RefInv
<1>1. ASSUME NEW p \in Proc, Descriptors(p) PROVE TabInv' /\ CountsOK
  BY <1>1, DescriptorsRefs
<1>2. ASSUME UNCHANGED <<uiotab, refcnt>>, \A p \in Proc : Bare(p)' => Bare(p)
      PROVE  TabInv' /\ CountsOK
  BY <1>2, SameRefs
<1>3. ASSUME NEW p \in Proc, NEW l \in Labels \ {"free", "exited", "boot"},
             pc' = [pc EXCEPT ![p] = l]
      PROVE  \A q \in Proc : Bare(q)' => Bare(q)
  BY <1>0, <1>3 DEF Bare
<1>4. ASSUME NEW p \in Proc, Memory(p) PROVE TabInv' /\ CountsOK
  <2>1. ASSUME NEW fd \in FD, NEW v \in Touched, SysRead(p, fd, v)
        PROVE  TabInv' /\ CountsOK
    <3>1. pc' = [pc EXCEPT ![p] = "io"] /\ UNCHANGED <<uiotab, refcnt>>
      BY <2>1 DEF SysRead, fdVars
    <3> QED BY <1>2, <1>3, <3>1 DEF Labels
  <2>2. ASSUME SysReadDone(p)
        PROVE  TabInv' /\ CountsOK
    <3>1. pc' = [pc EXCEPT ![p] = "user"] /\ UNCHANGED <<uiotab, refcnt>>
      BY <2>2 DEF SysReadDone, fdVars
    <3> QED BY <1>2, <1>3, <3>1 DEF Labels
  <2>3. ASSUME NEW v \in Touched, UserStore(p, v)
        PROVE  TabInv' /\ CountsOK
    BY <1>2, <2>3 DEF UserStore, fdVars, Bare
  <2>4. ASSUME NEW v \in Touched, NEW x \in Perms, PageFault(p, v, x)
        PROVE  TabInv' /\ CountsOK
    BY <1>2, <2>4 DEF PageFault, fdVars, Bare
  <2>5. ASSUME Exit(p)
        PROVE  TabInv' /\ CountsOK
    BY <2>5, ExitRefs
  <2> QED BY <1>4, <2>1, <2>2, <2>3, <2>4, <2>5 DEF Memory, handle_umode_exception
<1>5. ASSUME NEW p \in Proc, Execution(p) PROVE TabInv' /\ CountsOK
  <2>1. ASSUME NEW fd \in FD, NEW prog \in Programs, SysExec(p, fd, prog)
        PROVE  TabInv' /\ CountsOK
    BY <2>1, ConsoleRefs DEF SysExec, Exec
  <2>2. ASSUME NEW prog \in Programs, p = Main, BootExec(prog)
        PROVE  TabInv' /\ CountsOK
    BY <2>2, ConsoleRefs DEF BootExec, Exec
  <2>3. ASSUME ElfMap(p)
        PROVE  TabInv' /\ CountsOK
    <3>1. pc' = [pc EXCEPT ![p] = "load"] /\ UNCHANGED <<uiotab, refcnt>>
      BY <2>3 DEF ElfMap, fdVars
    <3> QED BY <1>2, <1>3, <3>1 DEF Labels
  <2>4. ASSUME ElfRead(p)
        PROVE  TabInv' /\ CountsOK
    <3>1. pc' = [pc EXCEPT ![p] = "elf"] /\ UNCHANGED <<uiotab, refcnt>>
      BY <2>4 DEF ElfRead, fdVars
    <3> QED BY <1>2, <1>3, <3>1 DEF Labels
  <2>5. ASSUME NEW fd \in FD, ExecNoConsole(p, fd)
        PROVE  TabInv' /\ CountsOK
    BY <1>2, <2>5 DEF ExecNoConsole, fdVars, Bare
  <2> QED BY <1>5, <2>1, <2>2, <2>3, <2>4, <2>5, ExecDoneRefs DEF Execution
<1>6. ASSUME NEW p \in Proc, Lives(p) PROVE TabInv' /\ CountsOK
  <2>1. ASSUME NEW q \in Proc, SysWait(p, q)
        PROVE  TabInv' /\ CountsOK
    <3>1. pc[q] = "exited" /\ pc' = [pc EXCEPT ![q] = "free"] /\ UNCHANGED <<uiotab, refcnt>>
      BY <2>1 DEF SysWait, fdVars
    <3>2. \A r \in Proc : Bare(r)' => Bare(r)
      BY <1>0, <3>1 DEF Bare
    <3> QED BY <1>2, <3>1, <3>2
  <2>2. ASSUME ForkFail(p)
        PROVE  TabInv' /\ CountsOK
    BY <1>2, <2>2 DEF ForkFail, RefsAfterFailedFork, Bare
  <2>3. ASSUME ForkFunc(p)
        PROVE  TabInv' /\ CountsOK
    <3>1. /\ pc' = [pc EXCEPT ![p] = "user", ![arg[p].parent] = "user"]
          /\ UNCHANGED <<uiotab, refcnt>>
      BY <1>0, <2>3 DEF ForkFunc, fdVars
    <3>2. \A r \in Proc : Bare(r)' => Bare(r)
      BY <1>0, <3>1 DEF Bare
    <3> QED BY <1>2, <3>1, <3>2
  <2> QED BY <1>6, <2>1, <2>2, <2>3, ForkRefs, ExitRefs DEF Lives
<1>7. CASE UNCHANGED vars
  <2>1. UNCHANGED <<uiotab, refcnt>> /\ pc' = pc
    BY <1>7 DEF vars, fdVars
  <2> QED BY <1>2, <2>1 DEF Bare
<1> QED BY <1>1, <1>4, <1>5, <1>6, <1>7 DEF Next

LEMMA RefInvStep == RefInv /\ [Next]_vars => RefInv' /\ CountsOK
<1> SUFFICES ASSUME RefInv, [Next]_vars PROVE RefInv' /\ CountsOK
  OBVIOUS
<1>1. TabInv' /\ CountsOK
  BY RefStep
<1>2. NamedAreOpen'
  BY <1>1 DEF CountsOK, CountOK, NamedAreOpen
<1> QED BY <1>1, <1>2, ProcStep DEF RefInv

LEMMA RefInit == Init => RefInv
<1> SUFFICES ASSUME Init PROVE RefInv
  OBVIOUS
<1>1. \A p \in Proc, fd \in FD : uiotab[p][fd] = NoUio
  BY DEF Init
<1>2. ASSUME NEW u \in Uio \ Exe
      PROVE  Cardinality(Names(u)) <= refcnt[u]
  <2>1. Names(u) = {}
    BY <1>1, ProcessAssumption DEF Names
  <2>2. refcnt[u] = 0
    BY ProcessAssumption DEF Init
  <2> QED BY <2>1, <2>2, FS_EmptySet
<1> QED BY <1>1, <1>2, ProcInit DEF RefInv, TabInv, TabOK, NamedAreOpen

LEMMA RefInvariant == Spec => []RefInv
<1>1. RefInv /\ [Next]_vars => RefInv'
  BY RefInvStep
<1> QED BY <1>1, RefInit, PTL DEF Spec

(* A file or device has a reference for every descriptor that names it, in *)
(* whatever process: no close, exit, failed fork or exec of one process    *)
(* closes it while another still has it open. Executables are left out.    *)
THEOREM NamedAreOpenHolds == Spec => []NamedAreOpen
<1>1. RefInv => NamedAreOpen
  BY DEF RefInv
<1> QED BY <1>1, RefInvariant, PTL

(* The converse, step by step: no step but an exec that opens the console  *)
(* over descriptors 0 and 1 leaves a uio with more references that no      *)
(* descriptor holds than it had.                                           *)
THEOREM ForgottenOnlyThereHolds == Spec => ForgottenOnlyThere
<1>1. RefInv /\ [Next]_vars => [CountsOK]_vars
  BY RefInvStep
<1>2. Spec => [][CountsOK]_vars
  BY <1>1, RefInvariant, PTL DEF Spec
<1>3. CountsOK => \A u \in Uio :
        \/ refcnt'[u] <= Cardinality(Names(u)')
        \/ refcnt'[u] - Cardinality(Names(u)') <= refcnt[u] - Cardinality(Names(u))
        \/ \E p \in Proc :
             /\ uiotab[p][2] = NoUio /\ uiotab'[p][2] = Uart1 /\ pc'[p] = "elf"
             /\ u \in {uiotab[p][0], uiotab[p][1]}
  BY DEF CountsOK, CountOK, NoneForgotten, Overwritten
<1> QED BY <1>2, <1>3, PTL DEF ForgottenOnlyThere
----------------------------------------------------------------------------
(* A memory of one's own: Process implements Images. While a program is    *)
(* loaded, what the pages hold is what the segments read so far have left. *)

Origin(prog, k, v, x) ==
  \/ \E j \in 1 .. k : /\ v \in prog[j].pages /\ x = prog[j].bytes
                       /\ \A i \in 1 .. k : v \in prog[i].pages => i <= j
  \/ v = Stack /\ x = Argv /\ \A j \in 1 .. k : v \notin prog[j].pages
Unread(p) == IF pc[p] = "load" THEN Head(arg[p].left).pages ELSE {}
LoadOf(p, prog, k) ==
  /\ Len(prog) = k + Len(arg[p].left)
  /\ \A i \in 1 .. Len(arg[p].left) : arg[p].left[i] = prog[k + i]
  /\ \A v \in VPage : v \in Mapped(p) <=>
       v = Stack \/ v \in Unread(p) \/ \E j \in 1 .. k : v \in prog[j].pages
  /\ \A v \in Mapped(p) \ Unread(p) : Origin(prog, k, v, data[space[p][v]])

Shown(p) == pc[p] \in {"user", "io", "fork", "born"}
LoadOK(p) ==
  /\ Shown(p) => Stack \in Mapped(p)
  /\ pc[p] \in {"elf", "load"} => \E prog \in Programs : \E k \in Nat : LoadOf(p, prog, k)
LoadInv == DOMAIN data = Page /\ \A p \in Proc : LoadOK(p)
ImageInv == ProcInv /\ LoadInv

(* A user page of a process is a page, not free, and nobody else's.        *)
LEMMA Leaf ==
  ASSUME ProcInv, NEW p \in Proc, NEW v \in Mapped(p)
  PROVE  /\ p \in Live /\ space[p][v] \in Page \ free
         /\ \A q \in Proc : \A w \in Mapped(q) : space[p][v] = space[q][w] => p = q /\ v = w
<1>1. v \in DOMAIN space[p] /\ v \in VPage /\ v # Root
  BY Nodes DEF Mapped
<1>2. \A q \in Proc : \A w \in Mapped(q) : q \in Live /\ w \in DOMAIN space[q]
  BY DEF ProcInv, SpaceInv, SpaceOK, Mapped
<1>3. p \in Live /\ Main \in Live /\ Root \in DOMAIN space[Main] /\ space[Main][Root] = MainRoot
  BY <1>2 DEF ProcInv, SpaceInv, SpaceOK, IsTree, Live
<1>4. space[p][v] # MainRoot /\ space[p][v] \notin free
  BY <1>1, <1>3 DEF ProcInv, NoSharing
<1>5. space[p][v] \in Page
  <2>1. IsTree(space[p])
    BY <1>3 DEF ProcInv, SpaceInv, SpaceOK
  <2> QED BY <1>1, <1>4, <2>1 DEF IsTree
<1>6. \A q \in Proc : \A w \in Mapped(q) : space[p][v] = space[q][w] => p = q /\ v = w
  BY <1>1, <1>2, <1>3 DEF ProcInv, NoSharing
<1> QED BY <1>3, <1>4, <1>5, <1>6

(* Stores to free pages and to pages of p do not show in another process.  *)
LEMMA OthersKeep ==
  ASSUME ImageInv, NEW p \in Proc, NEW W,
         \A pp \in W : pp \in free \/ \E v \in Mapped(p) : pp = space[p][v],
         \A pp \in Page \ W : data'[pp] = data[pp]
  PROVE  \A q \in Proc \ {p} : \A v \in Mapped(q) : data'[space[q][v]] = data[space[q][v]]
<1> SUFFICES ASSUME NEW q \in Proc \ {p}, NEW v \in Mapped(q)
             PROVE  data'[space[q][v]] = data[space[q][v]]
  OBVIOUS
<1>1. space[q][v] \in Page \ free /\ \A w \in Mapped(p) : space[p][w] # space[q][v]
  BY Leaf DEF ImageInv
<1> QED BY <1>1

(* A process whose own step it is not keeps its image and its program.     *)
LEMMA Kept ==
  ASSUME NEW q \in Proc, LoadOK(q), arg'[q] = arg[q], space'[q] = space[q],
         pc'[q] = pc[q] \/ (Shown(q) /\ Shown(q)'),
         \A v \in Mapped(q) : data'[space[q][v]] = data[space[q][v]]
  PROVE  LoadOK(q)' /\ Image(q)' = Image(q)
<1>1. Mapped(q)' = Mapped(q) /\ (Shown(q)' <=> Shown(q))
  BY DEF Mapped, Shown
<1>2. Image(q)' = Image(q)
  <2>1. CASE Shown(q)
    <3>1. /\ Image(q) = [v \in Mapped(q) |-> data[space[q][v]]]
          /\ Image(q)' = [v \in Mapped(q)' |-> data'[space'[q][v]]]
      BY <1>1, <2>1 DEF Image, Shown
    <3> QED BY <1>1, <3>1
  <2>2. CASE ~Shown(q)
    BY <1>1, <2>2 DEF Image, Shown, Empty
  <2> QED BY <2>1, <2>2
<1>3. CASE pc'[q] \in {"elf", "load"}
  <2>1. pc'[q] = pc[q] /\ pc[q] \in {"elf", "load"} /\ ~Shown(q) /\ ~Shown(q)'
    BY <1>3 DEF Shown
  <2>2. PICK prog \in Programs, k \in Nat : LoadOf(q, prog, k)
    BY <2>1 DEF LoadOK
  <2>3. Unread(q)' = Unread(q)
    BY <2>1 DEF Unread
  <2>4. LoadOf(q, prog, k)'
    BY <1>1, <2>2, <2>3 DEF LoadOf
  <2> QED BY <1>2, <2>1, <2>4 DEF LoadOK
<1>4. CASE pc'[q] \notin {"elf", "load"}
  BY <1>1, <1>2, <1>4 DEF LoadOK
<1> QED BY <1>3, <1>4

(* The shape of every step: the others keep theirs, p has a new image.     *)
LEMMA OneImage ==
  ASSUME ImageInv, NEW p \in Proc, NEW img, LoadOK(p)', Image(p)' = img, DOMAIN data' = Page,
         NEW W, \A pp \in W : pp \in free \/ \E v \in Mapped(p) : pp = space[p][v],
         \A pp \in Page \ W : data'[pp] = data[pp],
         \A q \in Proc \ {p} : /\ arg'[q] = arg[q] /\ space'[q] = space[q]
                               /\ pc'[q] = pc[q] \/ (Shown(q) /\ Shown(q)')
  PROVE  LoadInv' /\ I!Become(p, img)
<1>1. \A q \in Proc \ {p} : LoadOK(q)' /\ Image(q)' = Image(q)
  <2> SUFFICES ASSUME NEW q \in Proc \ {p} PROVE LoadOK(q)' /\ Image(q)' = Image(q)
    OBVIOUS
  <2>1. \A v \in Mapped(q) : data'[space[q][v]] = data[space[q][v]]
    BY OthersKeep
  <2> QED BY <2>1, Kept DEF ImageInv, LoadInv
<1>2. LoadInv'
  BY <1>1 DEF LoadInv
<1>3. [q \in Proc |-> Image(q)'] = [[q \in Proc |-> Image(q)] EXCEPT ![p] = img]
  BY <1>1
<1> QED BY <1>2, <1>3 DEF I!Become

mem == [p \in Proc |-> Image(p)]

LEMMA Images ==
  ASSUME ImageInv, NEW p \in Proc
  PROVE  /\ Shown(p) => Image(p) = [v \in Mapped(p) |-> data[space[p][v]]]
         /\ ~Shown(p) => Image(p) = I!None
         /\ Shown(p) => Image(p) # I!None
         /\ Empty = I!None
<1>1. Empty = I!None
  BY DEF Empty, I!None
<1>2. Shown(p) => Image(p) = [v \in Mapped(p) |-> data[space[p][v]]]
  BY DEF Image, Shown
<1>3. ~Shown(p) => Image(p) = I!None
  BY <1>1 DEF Image, Shown
<1>4. ASSUME Shown(p) PROVE Image(p) # I!None
  <2>1. Stack \in Mapped(p)
    BY <1>4 DEF ImageInv, LoadInv, LoadOK
  <2>2. Stack \in DOMAIN Image(p) /\ DOMAIN I!None = {}
    BY <1>2, <1>4, <2>1 DEF I!None
  <2> QED BY <2>2
<1> QED BY <1>1, <1>2, <1>3, <1>4

LEMMA ImageNext ==
  ASSUME NEW p \in Proc
  PROVE  /\ Shown(p)' => Image(p)' = [v \in Mapped(p)' |-> data'[space'[p][v]]]
         /\ ~Shown(p)' => Image(p)' = I!None
<1>1. Empty = I!None
  BY DEF Empty, I!None
<1> QED BY <1>1 DEF Image, Shown

LEMMA BecomeSame ==
  ASSUME NEW p \in Proc, I!Become(p, Image(p))
  PROVE  mem' = mem
<1>1. mem' = [mem EXCEPT ![p] = mem[p]]
  BY DEF I!Become, mem
<1> QED BY <1>1 DEF mem

(* Steps in which nothing shows.                                           *)
LEMMA Quiet ==
  ASSUME ImageInv, UNCHANGED <<space, data, arg>>,
         \A q \in Proc : pc'[q] = pc[q] \/ (Shown(q) /\ Shown(q)')
  PROVE  LoadInv' /\ mem' = mem
<1>1. ASSUME NEW q \in Proc
      PROVE  LoadOK(q)' /\ Image(q)' = Image(q)
  BY Kept DEF ImageInv, LoadInv
<1> QED BY <1>1 DEF ImageInv, LoadInv, mem

LEMMA QuietOne ==
  ASSUME ImageInv, NEW p \in Proc, UNCHANGED <<space, data>>, Shown(p), Shown(p)',
         \A q \in Proc \ {p} : arg'[q] = arg[q] /\ (pc'[q] = pc[q] \/ (Shown(q) /\ Shown(q)'))
  PROVE  LoadInv' /\ mem' = mem
<1>1. Mapped(p)' = Mapped(p)
  BY DEF Mapped
<1>2. LoadOK(p)'
  BY <1>1 DEF ImageInv, LoadInv, LoadOK, Shown
<1>3. Image(p)' = Image(p)
  BY <1>1, Images, ImageNext
<1>4. DOMAIN data' = Page
  BY DEF ImageInv, LoadInv
<1>5. LoadInv' /\ I!Become(p, Image(p))
  <2> DEFINE W == {}
  <2>1. \A pp \in W : pp \in free \/ \E v \in Mapped(p) : pp = space[p][v]
    OBVIOUS
  <2>2. \A pp \in Page \ W : data'[pp] = data[pp]
    OBVIOUS
  <2> HIDE DEF W
  <2> QED BY <1>2, <1>3, <1>4, <2>1, <2>2, OneImage
<1> QED BY <1>5, BecomeSame

Moves == LoadInv' /\ (I!Next \/ mem' = mem)

(* A store to a mapped page.                                               *)
LEMMA StoreMoves ==
  ASSUME ImageInv, NEW p \in Proc, NEW v \in Mapped(p), Shown(p), Shown(p)',
         data' = [data EXCEPT ![space[p][v]] = p], UNCHANGED space,
         \A q \in Proc \ {p} : arg'[q] = arg[q] /\ pc'[q] = pc[q]
  PROVE  Moves
<1> DEFINE img == [Image(p) EXCEPT ![v] = p]
           W   == {space[p][v]}
<1>1. Mapped(p)' = Mapped(p) /\ DOMAIN data = Page
  BY DEF Mapped, ImageInv, LoadInv
<1>2. space[p][v] \in Page /\ \A w \in Mapped(p) : space[p][v] = space[p][w] => v = w
  BY Leaf DEF ImageInv
<1>3. \A w \in Mapped(p) : space[p][w] \in Page
  BY Leaf DEF ImageInv
<1>4. Image(p)' = img
  <2>1. Image(p)' = [w \in Mapped(p) |-> data'[space[p][w]]]
    BY <1>1, ImageNext
  <2>2. img = [w \in Mapped(p) |-> IF w = v THEN p ELSE data[space[p][w]]]
    BY Images
  <2>3. \A w \in Mapped(p) : data'[space[p][w]] = IF w = v THEN p ELSE data[space[p][w]]
    BY <1>1, <1>2, <1>3
  <2> QED BY <2>1, <2>2, <2>3
<1>5. LoadOK(p)'
  BY <1>1 DEF ImageInv, LoadInv, LoadOK, Shown
<1>6. /\ \A pp \in W : pp \in free \/ \E w \in Mapped(p) : pp = space[p][w]
      /\ \A pp \in Page \ W : data'[pp] = data[pp]
      /\ DOMAIN data' = Page
  BY <1>1
<1> HIDE DEF W, img
<1>7. LoadInv' /\ I!Become(p, img)
  BY <1>4, <1>5, <1>6, OneImage
<1>8. I!Store(p)
  <2>1. v \in DOMAIN Image(p)
    BY Images
  <2> QED BY <1>7, <2>1 DEF I!Store, img
<1>9. Image(p) # I!None
  BY Images
<1> QED BY <1>7, <1>8, <1>9 DEF Moves, I!Next

(* What MapNew does to what can be seen.                                   *)
NewPages(p, V, bytes) ==
  /\ Mapped(p)' = Mapped(p) \cup V /\ \A q \in Proc \ {p} : space'[q] = space[q]
  /\ \A v \in V : data'[space'[p][v]] = bytes
  /\ \A v \in Mapped(p) \ V : space'[p][v] = space[p][v]
  /\ DOMAIN data' = Page /\ \A pp \in Page \ free : data'[pp] = data[pp]

LEMMA MapNewShows ==
  ASSUME Typing, SpaceInv, NoSharing, DOMAIN data = Page, NEW p \in Live, NEW V \in SUBSET VPage,
         NEW flags, NEW bytes, MapNew(p, V, flags, bytes), pc' \in [Proc -> Labels], Live' = Live
  PROVE  NewPages(p, V, bytes)
<1>1. Mapped(p)' = Mapped(p) \cup V
  BY MapNewOK
<1>2. \A q \in Proc \ {p} : space'[q] = space[q]
  BY MapNewOK
<1>3. \A v \in V : space'[p][v] \in free /\ data'[space'[p][v]] = bytes
  BY MapNewOK, Z3
<1>4. \A v \in Mapped(p) \ V : space'[p][v] = space[p][v]
  BY MapNewOK
<1>5. DOMAIN data' = Page /\ \A pp \in Page \ free : data'[pp] = data[pp]
  BY MapNewOK
<1> QED BY <1>1, <1>2, <1>3, <1>4, <1>5 DEF NewPages

LEMMA MemoryMoves ==
  ASSUME ImageInv, NEW p \in Proc, Memory(p)
  PROVE  Moves
<1> USE CallsOf DEF ImageInv
<1>1. ASSUME NEW fd \in FD, NEW v \in Touched, SysRead(p, fd, v)
      PROVE  Moves
  <2>1. /\ pc[p] = "user" /\ pc'[p] = "io" /\ UNCHANGED <<space, data>>
        /\ \A q \in Proc \ {p} : arg'[q] = arg[q] /\ pc'[q] = pc[q]
    BY <1>1 DEF SysRead, memVars
  <2>2. Shown(p) /\ Shown(p)'
    BY <2>1 DEF Shown
  <2> QED BY <2>1, <2>2, QuietOne DEF Moves
<1>2. ASSUME SysReadDone(p)
      PROVE  Moves
  <2>1. /\ pc[p] = "io" /\ pc'[p] = "user" /\ UNCHANGED space
        /\ data' = [data EXCEPT ![space[p][arg[p].buf]] = p]
        /\ \A q \in Proc \ {p} : arg'[q] = arg[q] /\ pc'[q] = pc[q]
    BY <1>2 DEF SysReadDone
  <2>2. Shown(p) /\ Shown(p)' /\ arg[p].buf \in Mapped(p)
    BY <2>1 DEF Shown, ArgOK
  <2> QED BY <2>1, <2>2, StoreMoves
<1>3. ASSUME NEW v \in Touched, UserStore(p, v)
      PROVE  Moves
  <2>1. /\ pc[p] = "user" /\ UNCHANGED <<space, pc, arg>> /\ v \in Mapped(p)
        /\ data' = [data EXCEPT ![space[p][v]] = p]
    BY <1>3 DEF UserStore, Valid
  <2>2. Shown(p) /\ Shown(p)'
    BY <2>1 DEF Shown
  <2> QED BY <2>1, <2>2, StoreMoves
<1>4. ASSUME NEW v \in Touched, NEW x \in Perms, PageFault(p, v, x)
      PROVE  Moves
  <2> DEFINE img == [w \in DOMAIN Image(p) \cup {v} |-> IF w = v THEN "zero" ELSE Image(p)[w]]
  <2>1. /\ p \in Live /\ pc[p] = "user" /\ {v} \in SUBSET VPage /\ v \in VPage
        /\ MapNew(p, {v}, {"R", "W"}, "zero") /\ UNCHANGED <<pc, arg>>
    BY <1>4, ProcessAssumption DEF PageFault, Live, Cleared
  <2>2. Live' = Live /\ pc' \in [Proc -> Labels] /\ Shown(p) /\ Shown(p)'
    BY <2>1 DEF Live, Shown
  <2>3. /\ Mapped(p)' = Mapped(p) \cup {v} /\ \A q \in Proc \ {p} : space'[q] = space[q]
        /\ data'[space'[p][v]] = "zero"
        /\ \A w \in Mapped(p) \ {v} : space'[p][w] = space[p][w]
        /\ DOMAIN data' = Page /\ \A pp \in Page \ free : data'[pp] = data[pp]
    <3>1. Typing /\ SpaceInv /\ NoSharing /\ DOMAIN data = Page
      BY DEF LoadInv
    <3>2. NewPages(p, {v}, "zero")
      BY <2>1, <2>2, <3>1, MapNewShows
    <3> QED BY <3>2 DEF NewPages
  <2>4. Image(p)' = img
    <3>1. Image(p)' = [w \in Mapped(p) \cup {v} |-> data'[space'[p][w]]]
      BY <2>2, <2>3, ImageNext
    <3>2. Image(p) = [w \in Mapped(p) |-> data[space[p][w]]]
      BY <2>2, Images
    <3>3. \A w \in Mapped(p) \ {v} : data'[space'[p][w]] = data[space[p][w]]
      BY <2>3, Leaf
    <3> QED BY <2>3, <3>1, <3>2, <3>3
  <2>5. LoadOK(p)'
    BY <2>1, <2>2, <2>3 DEF LoadInv, LoadOK
  <2> HIDE DEF img
  <2>6. LoadInv' /\ I!Become(p, img)
    BY <2>1, <2>3, <2>4, <2>5, OneImage
  <2>7. I!Touch(p)
    BY <2>1, <2>6 DEF I!Touch, img
  <2>8. Image(p) # I!None
    BY <2>2, Images
  <2> QED BY <2>6, <2>7, <2>8 DEF Moves, I!Next
<1>5. ASSUME Exit(p)
      PROVE  Moves
  <2>1. /\ pc[p] = "user" /\ pc' = [pc EXCEPT ![p] = "exited"] /\ UNCHANGED <<data, arg>>
        /\ space' = [space EXCEPT ![p] = Empty]
    BY <1>5 DEF Exit, Discard
  <2>2. Shown(p) /\ ~Shown(p)' /\ pc'[p] = "exited"
    BY <2>1 DEF Shown
  <2>3. LoadOK(p)' /\ Image(p)' = I!None
    BY <2>2, ImageNext DEF LoadOK
  <2>4. LoadInv' /\ I!Become(p, I!None)
    <3> DEFINE W == {}
    <3>1. /\ \A pp \in W : pp \in free \/ \E v \in Mapped(p) : pp = space[p][v]
          /\ \A pp \in Page \ W : data'[pp] = data[pp]
          /\ DOMAIN data' = Page
      BY <2>1 DEF LoadInv
    <3> HIDE DEF W
    <3>2. \A q \in Proc \ {p} : arg'[q] = arg[q] /\ space'[q] = space[q] /\ pc'[q] = pc[q]
      BY <2>1
    <3> HIDE DEF I!None, ImageInv
    <3>3. ImageInv
      BY DEF ImageInv
    <3> QED BY <2>3, <3>1, <3>2, <3>3, OneImage
  <2>5. Image(p) # I!None
    BY <2>2, Images
  <2> QED BY <2>4, <2>5 DEF Moves, I!Next, I!Vanish
<1> QED BY <1>1, <1>2, <1>3, <1>4, <1>5 DEF Memory, handle_umode_exception

LEMMA ExecMoves ==
  ASSUME ImageInv, NEW p \in Proc, pc[p] \in {"user", "boot"}, NEW u, NEW prog \in Programs,
         Exec(p, u, prog)
  PROVE  Moves
<1> USE CallsOf DEF ImageInv
<1> DEFINE stack == Nth(free, 1)
           W     == {stack}
<1>0. p \in Live /\ Typing /\ SpaceInv /\ NoSharing /\ DOMAIN data = Page
  BY DEF Live, LoadInv
<1>1. /\ stack \in Page /\ stack \in free /\ Mapped(p)' = {Stack} /\ space'[p][Stack] = stack
      /\ \A q \in Proc \ {p} : space'[q] = space[q]
  BY <1>0, ExecOK
<1>2. /\ pc' = [pc EXCEPT ![p] = "elf"] /\ data' = [data EXCEPT ![stack] = Argv]
      /\ arg' = [arg EXCEPT ![p] = [kind |-> "elf", exe |-> u, stack |-> stack, left |-> prog]]
  BY DEF Exec
<1>3. /\ pc'[p] = "elf" /\ arg'[p].left = prog /\ ~Shown(p)' /\ data'[stack] = Argv
      /\ DOMAIN data' = Page /\ \A pp \in Page \ W : data'[pp] = data[pp]
      /\ \A q \in Proc \ {p} : pc'[q] = pc[q] /\ arg'[q] = arg[q]
  BY <1>0, <1>1, <1>2 DEF Shown
<1> HIDE DEF stack
<1>4. LoadOK(p)'
  <2>1. prog \in Seq(Segment)
    BY ProcessAssumption
  <2>2. Unread(p)' = {}
    BY <1>3 DEF Unread
  <2>3. LoadOf(p, prog, 0)'
    <3>1. Len(prog) = 0 + Len(arg'[p].left) /\ \A i \in 1 .. Len(arg'[p].left) : arg'[p].left[i] = prog[0 + i]
      BY <1>3, <2>1
    <3>2. \A v \in VPage : v \in Mapped(p)' <=>
            v = Stack \/ v \in Unread(p)' \/ \E j \in 1 .. 0 : v \in prog[j].pages
      BY <1>1, <2>2, Nodes
    <3>3. \A v \in Mapped(p)' \ Unread(p)' : Origin(prog, 0, v, data'[space'[p][v]])
      BY <1>1, <1>3 DEF Origin
    <3> QED BY <3>1, <3>2, <3>3 DEF LoadOf
  <2> QED BY <1>3, <2>3 DEF LoadOK
<1>5. Image(p)' = I!None
  BY <1>3, ImageNext
<1>6. LoadInv' /\ I!Become(p, I!None)
  <2>1. \A pp \in W : pp \in free \/ \E v \in Mapped(p) : pp = space[p][v]
    BY <1>1
  <2> HIDE DEF I!None, ImageInv, W
  <2>2. ImageInv
    BY DEF ImageInv
  <2> QED BY <1>1, <1>3, <1>4, <1>5, <2>1, <2>2, OneImage
<1>7. CASE pc[p] = "user"
  <2>1. Shown(p)
    BY <1>7 DEF Shown
  <2>2. Image(p) # I!None
    BY <2>1, Images
  <2> QED BY <1>6, <2>2 DEF Moves, I!Next, I!Vanish
<1>8. CASE pc[p] = "boot"
  <2>1. ~Shown(p)
    BY <1>8 DEF Shown
  <2>2. I!Become(p, Image(p))
    BY <1>6, <2>1, Images
  <2> QED BY <1>6, <2>2, BecomeSame DEF Moves
<1> QED BY <1>7, <1>8

(* One more segment.                                                       *)
LEMMA NextSegment ==
  ASSUME NEW p \in Proc, ArgOK(p), pc[p] \in {"elf", "load"}, arg[p].left # <<>>,
         NEW prog \in Programs, NEW k \in Nat, LoadOf(p, prog, k)
  PROVE  /\ Head(arg[p].left) = prog[k + 1] /\ prog[k + 1].pages \in SUBSET VPage
         /\ Len(prog) = (k + 1) + Len(Tail(arg[p].left))
         /\ \A i \in 1 .. Len(Tail(arg[p].left)) : Tail(arg[p].left)[i] = prog[(k + 1) + i]
<1>1. arg[p].left \in Seq(Segment)
  BY DEF ArgOK, Loading
<1>2. /\ Len(arg[p].left) \in Nat /\ Len(arg[p].left) >= 1 /\ Head(arg[p].left) = arg[p].left[1]
      /\ Len(Tail(arg[p].left)) = Len(arg[p].left) - 1
      /\ \A i \in 1 .. Len(Tail(arg[p].left)) : Tail(arg[p].left)[i] = arg[p].left[i + 1]
  BY <1>1
<1>3. /\ Len(prog) = k + Len(arg[p].left)
      /\ \A i \in 1 .. Len(arg[p].left) : arg[p].left[i] = prog[k + i]
  BY DEF LoadOf
<1>4. Head(arg[p].left) = prog[k + 1]
  BY <1>2, <1>3
<1>5. \A i \in 1 .. Len(Tail(arg[p].left)) : Tail(arg[p].left)[i] = prog[(k + 1) + i]
  <2> SUFFICES ASSUME NEW i \in 1 .. Len(Tail(arg[p].left))
               PROVE  Tail(arg[p].left)[i] = prog[(k + 1) + i]
    OBVIOUS
  <2>1. i + 1 \in 1 .. Len(arg[p].left) /\ k + (i + 1) = (k + 1) + i
    BY <1>2
  <2> QED BY <1>2, <1>3, <2>1
<1>6. prog[k + 1].pages \in SUBSET VPage
  BY <1>4, HeadSegment
<1>7. Len(prog) = (k + 1) + Len(Tail(arg[p].left))
  <2>1. \A a, b, c \in Int : a = k + b /\ c = b - 1 => a = (k + 1) + c
    OBVIOUS
  <2>2. /\ Len(arg[p].left) \in Int /\ Len(prog) \in Int /\ Len(Tail(arg[p].left)) \in Int
    BY <1>2, <1>3
  <2> QED BY <1>2, <1>3, <2>1, <2>2
<1> QED BY <1>4, <1>5, <1>6, <1>7

LEMMA ElfMapMoves ==
  ASSUME ImageInv, NEW p \in Proc, ElfMap(p)
  PROVE  Moves
<1>1. pc[p] = "elf" /\ arg[p].left # <<>>
  BY DEF ElfMap
<1> PICK V \in SUBSET VPage : V = Head(arg[p].left).pages
  BY <1>1, CallsOf, HeadSegment DEF ImageInv
<1>2. /\ pc[p] = "elf" /\ arg[p].left # <<>> /\ MapNew(p, V, {"R", "W"}, "junk")
      /\ pc' = [pc EXCEPT ![p] = "load"] /\ UNCHANGED arg
  BY DEF ElfMap
<1>3. Typing /\ SpaceInv /\ NoSharing /\ DOMAIN data = Page
  BY CallsOf DEF ImageInv, LoadInv
<1>4. /\ p \in Live /\ Live' = Live /\ pc' \in [Proc -> Labels]
      /\ pc'[p] = "load" /\ (\A q \in Proc \ {p} : pc'[q] = pc[q])
  BY <1>2, CallsOf DEF ImageInv, Live, Labels
<1>5. PICK prog \in Programs, k \in Nat : LoadOf(p, prog, k)
  BY <1>2 DEF ImageInv, LoadInv, LoadOK
<1>6. Head(arg[p].left) = prog[k + 1]
  BY <1>2, <1>5, CallsOf, NextSegment DEF ImageInv
<1>7. /\ Mapped(p)' = Mapped(p) \cup V /\ \A q \in Proc \ {p} : space'[q] = space[q]
      /\ \A v \in Mapped(p) \ V : space'[p][v] = space[p][v]
      /\ DOMAIN data' = Page /\ \A pp \in Page \ free : data'[pp] = data[pp]
  <2>1. p \in Live /\ Live' = Live /\ pc' \in [Proc -> Labels] /\ MapNew(p, V, {"R", "W"}, "junk")
    BY <1>2, <1>4
  <2>2. NewPages(p, V, "junk")
    BY <1>3, <2>1, MapNewShows
  <2> QED BY <2>2 DEF NewPages
<1>8. Unread(p) = {} /\ Unread(p)' = V /\ ~Shown(p) /\ ~Shown(p)'
  BY <1>2, <1>4 DEF Unread, Shown
<1>9. LoadOf(p, prog, k)'
  <2>1. \A v \in VPage : v \in Mapped(p)' <=>
          v = Stack \/ v \in Unread(p)' \/ \E j \in 1 .. k : v \in prog[j].pages
    BY <1>5, <1>7, <1>8 DEF LoadOf
  <2>2. ASSUME NEW v \in Mapped(p)' \ Unread(p)'
        PROVE  Origin(prog, k, v, data'[space'[p][v]])
    <3>1. v \in Mapped(p) /\ space'[p][v] = space[p][v]
      BY <1>7, <1>8
    <3>2. data'[space[p][v]] = data[space[p][v]]
      BY <1>7, <3>1, Leaf DEF ImageInv
    <3> QED BY <1>5, <1>8, <3>1, <3>2 DEF LoadOf
  <2> QED BY <1>2, <1>5, <2>1, <2>2 DEF LoadOf
<1>10. LoadOK(p)'
  BY <1>4, <1>8, <1>9 DEF LoadOK
<1>11. Image(p)' = Image(p)
  BY <1>8, Images, ImageNext
<1>12. LoadInv' /\ I!Become(p, Image(p))
  <2>1. \A pp \in free : pp \in free \/ \E v \in Mapped(p) : pp = space[p][v]
    OBVIOUS
  <2> QED BY <1>2, <1>4, <1>7, <1>10, <1>11, <2>1, OneImage
<1> QED BY <1>12, BecomeSame DEF Moves

LEMMA ElfReadMoves ==
  ASSUME ImageInv, NEW p \in Proc, ElfRead(p)
  PROVE  Moves
<1> DEFINE seg == Head(arg[p].left)
           W   == {space[p][v] : v \in seg.pages}
<1>1. /\ pc[p] = "load" /\ pc' = [pc EXCEPT ![p] = "elf"] /\ UNCHANGED space
      /\ arg' = [arg EXCEPT ![p].left = Tail(@)]
      /\ data' = Over([pp \in W |-> seg.bytes], data)
  BY DEF ElfRead
<1>2. arg[p].left # <<>> /\ arg[p] \in Loading /\ ArgOK(p)
  BY <1>1, CallsOf DEF ImageInv, ArgOK
<1>3. PICK prog \in Programs, k \in Nat : LoadOf(p, prog, k)
  BY <1>1 DEF ImageInv, LoadInv, LoadOK
<1>4. /\ seg = prog[k + 1] /\ prog[k + 1].pages \in SUBSET VPage
      /\ Len(prog) = (k + 1) + Len(Tail(arg[p].left))
      /\ \A i \in 1 .. Len(Tail(arg[p].left)) : Tail(arg[p].left)[i] = prog[(k + 1) + i]
  BY <1>1, <1>2, <1>3, NextSegment
<1>5. /\ pc'[p] = "elf" /\ arg'[p].left = Tail(arg[p].left) /\ Mapped(p)' = Mapped(p)
      /\ \A q \in Proc \ {p} : pc'[q] = pc[q] /\ arg'[q] = arg[q] /\ space'[q] = space[q]
  <2>1. arg'[p] = [arg[p] EXCEPT !.left = Tail(arg[p].left)]
    BY <1>1, CallsOf DEF ImageInv
  <2> QED BY <1>1, <1>2, <2>1, CallsOf DEF ImageInv, Loading, Mapped
<1>6. Unread(p) = prog[k + 1].pages /\ Unread(p)' = {} /\ ~Shown(p) /\ ~Shown(p)'
  BY <1>1, <1>4, <1>5 DEF Unread, Shown
<1>7. \A v \in prog[k + 1].pages : v \in Mapped(p)
  BY <1>3, <1>4, <1>6 DEF LoadOf
<1>8. /\ \A pp \in W : pp \in Page /\ \E v \in Mapped(p) : pp = space[p][v]
      /\ \A v \in Mapped(p) : space[p][v] \in W <=> v \in prog[k + 1].pages
  <2>1. \A v \in Mapped(p) : /\ space[p][v] \in Page
                             /\ \A w \in Mapped(p) : space[p][v] = space[p][w] => v = w
    BY Leaf DEF ImageInv
  <2>2. \A pp : pp \in W <=> \E v \in prog[k + 1].pages : pp = space[p][v]
    BY <1>4
  <2> HIDE DEF W
  <2> QED BY <1>7, <2>1, <2>2
<1>9. /\ DOMAIN data' = Page /\ \A pp \in Page \ W : data'[pp] = data[pp]
      /\ \A pp \in W : data'[pp] = prog[k + 1].bytes
  <2>1. DOMAIN data = Page /\ W \subseteq Page
    BY <1>8 DEF ImageInv, LoadInv
  <2> HIDE DEF W
  <2> QED BY <1>1, <1>4, <2>1 DEF Over
<1> HIDE DEF W, seg
<1>10. LoadOf(p, prog, k + 1)'
  <2>1. \A v \in VPage : v \in Mapped(p)' <=>
          v = Stack \/ v \in Unread(p)' \/ \E j \in 1 .. k + 1 : v \in prog[j].pages
    <3>1. \A v \in VPage : (\E j \in 1 .. k + 1 : v \in prog[j].pages)
            <=> v \in prog[k + 1].pages \/ \E j \in 1 .. k : v \in prog[j].pages
      <4>1. \A j : j \in 1 .. k + 1 <=> j = k + 1 \/ j \in 1 .. k
        OBVIOUS
      <4> QED BY <4>1
    <3> QED BY <1>3, <1>5, <1>6, <3>1 DEF LoadOf
  <2>2. ASSUME NEW v \in Mapped(p)' \ Unread(p)'
        PROVE  Origin(prog, k + 1, v, data'[space'[p][v]])
    <3>0. v \in Mapped(p) /\ space'[p][v] = space[p][v] /\ space[p][v] \in Page
      BY <1>1, <1>5, Leaf DEF ImageInv
    <3>1. CASE v \in prog[k + 1].pages
      <4>1. data'[space'[p][v]] = prog[k + 1].bytes /\ k + 1 \in 1 .. k + 1
        BY <1>8, <1>9, <3>0, <3>1
      <4>2. \A i \in 1 .. k + 1 : i <= k + 1
        OBVIOUS
      <4> QED BY <3>1, <4>1, <4>2 DEF Origin
    <3>2. CASE v \notin prog[k + 1].pages
      <4>1. data'[space'[p][v]] = data[space[p][v]] /\ Origin(prog, k, v, data[space[p][v]])
        BY <1>3, <1>6, <1>8, <1>9, <3>0, <3>2 DEF LoadOf
      <4>2. \A j \in 1 .. k + 1 : v \in prog[j].pages => j \in 1 .. k
        <5>1. \A j \in 1 .. k + 1 : j = k + 1 \/ j \in 1 .. k
          OBVIOUS
        <5> QED BY <3>2, <5>1
      <4>3. \A j \in 1 .. k : j \in 1 .. k + 1
        OBVIOUS
      <4> QED BY <4>1, <4>2, <4>3 DEF Origin
    <3> QED BY <3>1, <3>2
  <2> QED BY <1>4, <1>5, <2>1, <2>2 DEF LoadOf
<1>11. LoadOK(p)'
  BY <1>5, <1>6, <1>10 DEF LoadOK
<1>12. Image(p)' = Image(p)
  BY <1>6, Images, ImageNext
<1>13. LoadInv' /\ I!Become(p, Image(p))
  BY <1>5, <1>8, <1>9, <1>11, <1>12, OneImage
<1> QED BY <1>13, BecomeSame DEF Moves

(* When all segments are there, the image is that of the program.          *)
LEMMA LoadedImage ==
  ASSUME NEW prog \in Programs, NEW S, NEW x,
         \A v \in VPage : v \in S <=> v = Stack \/ \E j \in 1 .. Len(prog) : v \in prog[j].pages,
         S \subseteq VPage, \A v \in S : Origin(prog, Len(prog), v, x[v])
  PROVE  [v \in S |-> x[v]] = I!Loaded(prog)
<1>1. \A j \in 1 .. Len(prog) : prog[j].pages \subseteq VPage
  <2>1. \A j \in 1 .. Len(prog) : prog[j] \in Segment
    <3>1. prog \in Seq(Segment)
      BY ProcessAssumption
    <3> QED BY <3>1
  <2> QED BY <2>1, ProcessAssumption
<1>2. \A v : v \in I!Covered(prog) <=> \E j \in 1 .. Len(prog) : v \in prog[j].pages
  BY DEF I!Covered, I!Segments
<1>3. S = I!Covered(prog) \cup {Stack}
  BY <1>1, <1>2, Nodes
<1>4. ASSUME NEW v \in S
      PROVE  x[v] = IF v \in I!Covered(prog) THEN prog[I!LastIn(prog, v)].bytes ELSE "argv"
  <2>1. CASE v \in I!Covered(prog)
    <3>1. PICK j \in 1 .. Len(prog) :
            /\ v \in prog[j].pages /\ x[v] = prog[j].bytes
            /\ \A i \in 1 .. Len(prog) : v \in prog[i].pages => i <= j
      BY <1>2, <2>1 DEF Origin
    <3>2. I!LastIn(prog, v) = CHOOSE i \in 1 .. Len(prog) :
            v \in prog[i].pages /\ \A h \in 1 .. Len(prog) : v \in prog[h].pages => h <= i
      BY DEF I!LastIn, I!Segments
    <3>3. /\ I!LastIn(prog, v) \in 1 .. Len(prog) /\ v \in prog[I!LastIn(prog, v)].pages
          /\ \A h \in 1 .. Len(prog) : v \in prog[h].pages => h <= I!LastIn(prog, v)
      BY <3>1, <3>2
    <3>4. I!LastIn(prog, v) = j
      <4>1. \A a, b \in Int : a <= b /\ b <= a => a = b
        OBVIOUS
      <4>2. Len(prog) \in Int /\ \A a \in 1 .. Len(prog) : a \in Int
        <5>1. prog \in Seq(Segment)
          BY ProcessAssumption
        <5> QED BY <5>1
      <4> QED BY <3>1, <3>3, <4>1, <4>2
    <3> QED BY <2>1, <3>1, <3>4
  <2>2. CASE v \notin I!Covered(prog)
    BY <1>2, <2>2 DEF Origin, Argv
  <2> QED BY <2>1, <2>2
<1> QED BY <1>3, <1>4 DEF I!Loaded

LEMMA ExecDoneMoves ==
  ASSUME ImageInv, NEW p \in Proc, ExecDone(p)
  PROVE  Moves
<1>1. /\ pc[p] = "elf" /\ arg[p].left = <<>> /\ pc' = [pc EXCEPT ![p] = "user"]
      /\ UNCHANGED <<space, data>> /\ arg' = [arg EXCEPT ![p] = NoArg]
  BY DEF ExecDone, memVars
<1>2. PICK prog \in Programs, k \in Nat : LoadOf(p, prog, k)
  BY <1>1 DEF ImageInv, LoadInv, LoadOK
<1>3. Len(prog) = k /\ Unread(p) = {} /\ ~Shown(p) /\ Shown(p)' /\ pc'[p] = "user"
      /\ \A q \in Proc \ {p} : pc'[q] = pc[q] /\ arg'[q] = arg[q] /\ space'[q] = space[q]
  <2>1. Len(<<>>) = 0
    OBVIOUS
  <2> QED BY <1>1, <1>2, <2>1, CallsOf DEF ImageInv, LoadOf, Unread, Shown
<1>4. Mapped(p)' = Mapped(p) /\ Mapped(p) \subseteq VPage
  BY <1>1 DEF Mapped
<1>5. Image(p)' = I!Loaded(prog)
  <2> DEFINE x == [v \in Mapped(p) |-> data[space[p][v]]]
  <2>1. Image(p)' = x
    BY <1>1, <1>3, <1>4, ImageNext
  <2>2. \A v \in VPage : v \in Mapped(p)
          <=> v = Stack \/ \E j \in 1 .. Len(prog) : v \in prog[j].pages
    BY <1>2, <1>3 DEF LoadOf
  <2>3. \A v \in Mapped(p) : Origin(prog, Len(prog), v, x[v])
    BY <1>2, <1>3 DEF LoadOf
  <2>4. [v \in Mapped(p) |-> x[v]] = x
    OBVIOUS
  <2> HIDE DEF x
  <2>5. [v \in Mapped(p) |-> x[v]] = I!Loaded(prog)
    BY <1>4, <2>2, <2>3, LoadedImage
  <2> QED BY <2>1, <2>4, <2>5
<1>6. LoadOK(p)'
  BY <1>2, <1>3, <1>4, Nodes DEF LoadOK, LoadOf
<1>7. LoadInv' /\ I!Become(p, I!Loaded(prog))
  <2> DEFINE W == {}
  <2>1. /\ \A pp \in W : pp \in free \/ \E v \in Mapped(p) : pp = space[p][v]
        /\ \A pp \in Page \ W : data'[pp] = data[pp]
        /\ DOMAIN data' = Page
    BY <1>1 DEF ImageInv, LoadInv
  <2> HIDE DEF W
  <2> QED BY <1>3, <1>5, <1>6, <2>1, OneImage
<1>8. I!Run(p)
  <2>1. Image(p) = I!None
    BY <1>3, Images
  <2> QED BY <1>7, <2>1 DEF I!Run
<1> QED BY <1>7, <1>8 DEF Moves, I!Next

LEMMA ExecutionMoves ==
  ASSUME ImageInv, NEW p \in Proc, Execution(p)
  PROVE  Moves
<1>1. ASSUME NEW fd \in FD, NEW prog \in Programs, SysExec(p, fd, prog)
      PROVE  Moves
  BY <1>1, ExecMoves DEF SysExec
<1>2. ASSUME NEW prog \in Programs, p = Main, BootExec(prog)
      PROVE  Moves
  BY <1>2, ExecMoves DEF BootExec
<1>3. ASSUME NEW fd \in FD, ExecNoConsole(p, fd)
      PROVE  Moves
  BY <1>3, Quiet DEF ExecNoConsole, Moves
<1> QED BY <1>1, <1>2, <1>3, ElfMapMoves, ElfReadMoves, ExecDoneMoves DEF Execution

(* The child's pages hold what the parent's pages hold.                    *)
LEMMA ForkMoves ==
  ASSUME ImageInv, NEW p \in Proc, NEW q \in Proc, Fork(p, q)
  PROVE  Moves
<1> DEFINE new == Clone(p)
           W   == {new[v] : v \in Mapped(p)}
           img == [v \in Mapped(p) |-> data[space[p][v]]]
           src == [pp \in W |-> data[space[p][CHOOSE v \in Mapped(p) : new[v] = pp]]]
<1>0. Typing /\ SpaceInv /\ NoSharing /\ DOMAIN data = Page
  BY CallsOf DEF ImageInv, LoadInv
<1>1. /\ pc[p] = "user" /\ pc[q] = "free" /\ p # q /\ data' = Over(src, data)
      /\ pc' = [pc EXCEPT ![p] = "fork", ![q] = "born"]
      /\ arg' = [arg EXCEPT ![q] = [kind |-> "born", parent |-> p]]
  BY DEF Fork
<1>2. /\ space' = [space EXCEPT ![q] = new] /\ new \in [DOMAIN space[p] -> free]
      /\ \A n, m \in DOMAIN space[p] : new[n] = new[m] => n = m
  BY <1>0, ForkOK
<1> HIDE DEF new
<1>3. \A v \in Mapped(p) : v \in DOMAIN space[p] /\ new[v] \in free /\ new[v] \in W
  BY <1>2 DEF Mapped
<1>4. \A v \in Mapped(p) : src[new[v]] = data[space[p][v]]
  <2> SUFFICES ASSUME NEW v \in Mapped(p) PROVE src[new[v]] = data[space[p][v]]
    OBVIOUS
  <2>1. \A w \in Mapped(p) : new[w] = new[v] => w = v
    BY <1>2, <1>3
  <2>2. (CHOOSE w \in Mapped(p) : new[w] = new[v]) = v
    BY <2>1
  <2> QED BY <1>3, <2>2
<1>5. DOMAIN src = W
  OBVIOUS
<1> HIDE DEF src
<1>6. \A pp \in W : pp \in free
  BY <1>3
<1> HIDE DEF W
<1>7. /\ DOMAIN data' = Page /\ \A pp \in Page \ W : data'[pp] = data[pp]
      /\ \A pp \in W : data'[pp] = src[pp]
  BY <1>0, <1>1, <1>5, <1>6 DEF Over, Typing
<1>8. /\ pc'[q] = "born" /\ pc'[p] = "fork" /\ space'[q] = new
      /\ \A r \in Proc \ {q} : arg'[r] = arg[r] /\ space'[r] = space[r]
      /\ \A r \in Proc \ {p, q} : pc'[r] = pc[r]
  BY <1>0, <1>1, <1>2 DEF Typing
<1>9. Shown(p) /\ Shown(p)' /\ Shown(q)' /\ ~Shown(q)
  BY <1>1, <1>8 DEF Shown
<1>10. Mapped(q)' = Mapped(p) /\ Stack \in Mapped(p)
  BY <1>2, <1>8, <1>9 DEF Mapped, ImageInv, LoadInv, LoadOK
<1>11. LoadOK(q)'
  BY <1>8, <1>10 DEF LoadOK
<1>12. Image(q)' = img
  <2>1. Image(q)' = [v \in Mapped(p) |-> data'[new[v]]]
    BY <1>8, <1>9, <1>10, ImageNext
  <2>2. \A v \in Mapped(p) : data'[new[v]] = data[space[p][v]]
    BY <1>3, <1>4, <1>7
  <2> QED BY <2>1, <2>2
<1>13. Image(p) = img /\ Image(p) # I!None /\ Image(q) = I!None
  BY <1>9, Images
<1> HIDE DEF img
<1>14. LoadInv' /\ I!Become(q, img)
  <2>1. \A r \in Proc \ {q} : pc'[r] = pc[r] \/ (Shown(r) /\ Shown(r)')
    BY <1>8, <1>9
  <2>2. \A pp \in W : pp \in free \/ \E v \in Mapped(q) : pp = space[q][v]
    BY <1>6
  <2>3. DOMAIN data' = Page /\ \A pp \in Page \ W : data'[pp] = data[pp]
    BY <1>7
  <2>4. \A r \in Proc \ {q} : /\ arg'[r] = arg[r] /\ space'[r] = space[r]
                              /\ pc'[r] = pc[r] \/ (Shown(r) /\ Shown(r)')
    BY <1>8, <2>1
  <2>5. PICK image : image = img
    OBVIOUS
  <2>6. Image(q)' = image
    BY <1>12, <2>5
  <2>7. LoadInv' /\ I!Become(q, image)
    BY <1>11, <2>2, <2>3, <2>4, <2>6, OneImage
  <2> QED BY <2>5, <2>7
<1>15. I!Fork(p)
  BY <1>13, <1>14 DEF I!Fork
<1> QED BY <1>13, <1>14, <1>15 DEF Moves, I!Next

LEMMA LivesMoves ==
  ASSUME ImageInv, NEW p \in Proc, Lives(p)
  PROVE  Moves
<1>1. ASSUME NEW q \in Proc, SysWait(p, q)
      PROVE  Moves
  <2>1. /\ pc[q] = "exited" /\ UNCHANGED <<space, data, arg>>
        /\ pc' = [pc EXCEPT ![q] = "free"]
    BY <1>1 DEF SysWait, memVars
  <2>2. pc'[q] = "free" /\ ~Shown(q) /\ ~Shown(q)' /\ \A r \in Proc \ {q} : pc'[r] = pc[r]
    BY <2>1, CallsOf DEF ImageInv, Shown
  <2>3. LoadOK(q)' /\ Image(q)' = Image(q)
    BY <2>2, Images, ImageNext DEF LoadOK
  <2>4. LoadInv' /\ I!Become(q, Image(q))
    <3> DEFINE W == {}
    <3>1. /\ \A pp \in W : pp \in free \/ \E v \in Mapped(q) : pp = space[q][v]
          /\ \A pp \in Page \ W : data'[pp] = data[pp]
          /\ DOMAIN data' = Page
      BY <2>1 DEF ImageInv, LoadInv
    <3> HIDE DEF W
    <3>2. \A r \in Proc \ {q} : arg'[r] = arg[r] /\ space'[r] = space[r] /\ pc'[r] = pc[r]
      BY <2>1, <2>2
    <3> QED BY <2>3, <3>1, <3>2, OneImage
  <2> QED BY <2>4, BecomeSame DEF Moves
<1>2. ASSUME ForkFail(p)
      PROVE  Moves
  <2>1. UNCHANGED <<space, data, pc, arg>>
    BY <1>2 DEF ForkFail
  <2> QED BY <2>1, Quiet DEF Moves
<1>3. ASSUME ForkFunc(p)
      PROVE  Moves
  <2> DEFINE parent == arg[p].parent
  <2>1. /\ pc[p] = "born" /\ pc' = [pc EXCEPT ![p] = "user", ![parent] = "user"]
        /\ arg' = [arg EXCEPT ![p] = NoArg] /\ UNCHANGED <<space, data>>
    BY <1>3 DEF ForkFunc, memVars
  <2>2. parent \in Proc /\ parent # p /\ pc[parent] = "fork"
    BY <2>1, CallsOf DEF ImageInv, BornOK
  <2>3. /\ pc'[p] = "user" /\ pc'[parent] = "user"
        /\ \A r \in Proc \ {p, parent} : pc'[r] = pc[r]
        /\ \A r \in Proc \ {p} : arg'[r] = arg[r]
    BY <2>1, <2>2, CallsOf DEF ImageInv
  <2>4. Shown(p) /\ Shown(p)'
    BY <2>1, <2>3 DEF Shown
  <2>5. \A r \in Proc \ {p} : pc'[r] = pc[r] \/ (Shown(r) /\ Shown(r)')
    BY <2>2, <2>3 DEF Shown
  <2> QED BY <2>1, <2>3, <2>4, <2>5, QuietOne DEF Moves
<1> QED BY <1>1, <1>2, <1>3, ForkMoves, MemoryMoves DEF Lives, Memory, handle_umode_exception

LEMMA DescriptorMoves ==
  ASSUME ImageInv, NEW p \in Proc, Descriptors(p)
  PROVE  Moves
<1>1. UNCHANGED <<space, data, pc, arg>>
  BY DEF Descriptors, SysOpen, SysClose, SysUiodup, memVars
<1> QED BY <1>1, Quiet DEF Moves

LEMMA ImageStep == ImageInv /\ [Next]_vars => ImageInv' /\ [I!Next]_mem
<1> SUFFICES ASSUME ImageInv, [Next]_vars PROVE ImageInv' /\ [I!Next]_mem
  OBVIOUS
<1>1. ASSUME NEW p \in Proc, Descriptors(p) \/ Memory(p) \/ Execution(p) \/ Lives(p)
      PROVE  Moves
  BY <1>1, DescriptorMoves, MemoryMoves, ExecutionMoves, LivesMoves
<1>2. ASSUME UNCHANGED vars PROVE Moves
  <2>1. UNCHANGED <<space, data, pc, arg>>
    BY <1>2 DEF vars, memVars
  <2> QED BY <2>1, Quiet DEF Moves
<1>3. Moves
  BY <1>1, <1>2 DEF Next
<1>4. ProcInv'
  BY ProcStep DEF ImageInv
<1> QED BY <1>3, <1>4 DEF Moves, ImageInv

LEMMA ImageInit == Init => ImageInv /\ I!Init
<1> SUFFICES ASSUME Init PROVE ImageInv /\ I!Init
  OBVIOUS
<1>1. \A p \in Proc : ~Shown(p) /\ pc[p] \notin {"elf", "load"}
  BY DEF Init, Shown
<1>2. LoadInv
  BY <1>1 DEF Init, LoadInv, LoadOK
<1>3. ImageInv
  BY <1>2, ProcInit DEF ImageInv
<1>4. \A p \in Proc : Image(p) = I!None
  BY <1>1, <1>3, Images
<1> QED BY <1>3, <1>4 DEF I!Init

(* Processes implement separate memories: whatever the interleaving of     *)
(* forks, execs, exits, faults, reads and stores, a process sees its       *)
(* program's segments, its own stores, zero where it touches a new page,   *)
(* its parent's memory after a fork, and never what another one stores.    *)
THEOREM ImagesRefinement == Spec => ImagesSpec
<1>1. ImageInv /\ [Next]_vars => ImageInv'
  BY ImageStep
<1>2. Spec => []ImageInv
  BY <1>1, ImageInit, PTL DEF Spec
<1>3. ImageInv /\ [Next]_vars => [I!Next]_mem
  BY ImageStep
<1> QED BY <1>2, <1>3, ImageInit, PTL DEF Spec, ImagesSpec, I!Spec, mem
=============================================================================
