------------------------------- MODULE Process ------------------------------
(***************************************************************************)
(* Processes and their address spaces: process.c, the page tables of       *)
(* memory.c, the loader elf.c, user exceptions (excp.c) and the system     *)
(* calls that change descriptors (syscall.c).                              *)
(*                                                                         *)
(* A process has one thread, and running_thread_suspend makes its space the*)
(* active one when it resumes (thread.c:646), so active_mspace() is always *)
(* the caller's. ptab_lock and page_lock are never held across a wait. What*)
(* a process does from one wait to the next is one action; exec waits for  *)
(* the disk, fork for its child, read for its data.                        *)
(*                                                                         *)
(* A space is a tree of pages: space[p][n] is the page of node n, where    *)
(* node Root is the root table, a user page v is a leaf, and Up[n] is the  *)
(* table with the entry of n. Global entries, shared by all spaces, are    *)
(* left out. A page holds one value. Kernel stacks and the heap take pages *)
(* too, which are not counted. When a request finds too few pages the      *)
(* kernel panics (PageAllocator): no action is possible then.              *)
(***************************************************************************)
EXTENDS Integers, Sequences, FiniteSets

CONSTANTS
  Proc,      \* slots of the thread table for threads with a process
  Main,      \* main_proc
  Page,      \* the pages of the free pool
  VPage,     \* the pages of user memory, UMEM_START_VMA to UMEM_END_VMA
  Stack,     \* the last of them
  Up,        \* Up[n]: the node of the table that has the entry of node n
  Programs,  \* executables: sequences of segments [pages, perm, bytes]
  Uio,       \* uio objects
  Exe,       \* those of executable files
  InitExe,   \* the executable that main opens
  Uart1,     \* what opening the device uart1 gives
  UIOMAX,    \* PROCESS_UIOMAX
  Closable,  \* descriptors that programs close (bound)
  Touched    \* user pages that programs access (bound)

Root     == 0
MainRoot == 0     \* main_pt2, a page of the kernel image
NoUio    == "no uio"
Table(n) == {Up[n], Up[Up[n]]}
Segment  == UNION {{prog[k] : k \in DOMAIN prog} : prog \in Programs}

(* There are three levels of tables, and segments lie in user memory.      *)
ASSUME ProcessAssumption ==
  /\ Main \in Proc /\ Page \subseteq Nat \ {0} /\ IsFiniteSet(Page)
  /\ Stack \in VPage /\ VPage \subseteq DOMAIN Up
  /\ IsFiniteSet(Proc) /\ IsFiniteSet(DOMAIN Up)
  /\ \A n \in DOMAIN Up : n \in Nat \ {Root} /\ Up[n] \in {Root} \cup (DOMAIN Up \ VPage)
  /\ \A v \in VPage : Table(v) \subseteq DOMAIN Up /\ Up[Up[Up[v]]] = Root
  /\ NoUio \notin Uio /\ InitExe \in Exe /\ Exe \subseteq Uio /\ Uart1 \in Uio \ Exe
  /\ UIOMAX \in Nat /\ UIOMAX >= 3
  /\ Closable \subseteq 0 .. UIOMAX - 1 /\ Touched \subseteq VPage
  /\ \A prog \in Programs : prog \in Seq(Segment)
  /\ \A seg \in Segment : seg.pages \subseteq VPage

VARIABLES
  free,    \* the free pages
  space,   \* the address space of each process
  perm,    \* perm[p][v]: the flags R, W, X of a user page of p
  data,    \* what each page holds
  pc,      \* where each process is
  arg,     \* what the call it is in works on
  uiotab,  \* uiotab[p][fd]
  refcnt   \* refcnt of each uio

memVars == <<free, space, perm, data>>
fdVars  == <<uiotab, refcnt>>
vars    == <<memVars, pc, arg, fdVars>>

FD    == 0 .. UIOMAX - 1
NoArg == [kind |-> "none"]

(* In user mode (or in the kernel between two waits), before main's exec,  *)
(* in elf_load before and after the pages of a segment are mapped, in      *)
(* process_fork, a child in front of fork_func, in uio_read; exited; a     *)
(* slot without a process.                                                 *)
Labels == {"user", "boot", "elf", "load", "fork", "born", "io", "exited", "free"}

Empty      == [n \in {} |-> 0]
Only(n, x) == [m \in {n} |-> x]
Over(f, g) == [n \in DOMAIN f \cup DOMAIN g |-> IF n \in DOMAIN f THEN f[n] ELSE g[n]]
PagesOf(s) == {s[n] : n \in DOMAIN s}
Mapped(p)  == DOMAIN space[p] \cap VPage
Perms      == {"R", "W", "X"}

(* The descriptors that name u.                                            *)
Names(u)  == {x \in Proc \X FD : uiotab[x[1]][x[2]] = u}
InTab(p, u) == {fd \in FD : uiotab[p][fd] = u}
Unused(u) ==
  /\ refcnt[u] = 0 /\ Names(u) = {} /\ u # InitExe
  /\ \A p \in Proc : pc[p] \in {"elf", "load"} => arg[p].exe # u
----------------------------------------------------------------------------
(* alloc_phys_page for each node of N: lowest pages first. Which pages they*)
(* are is the page allocator's business.                                   *)
Nth(S, k) == CHOOSE pp \in S : Cardinality({x \in S : x < pp}) = k - 1
Alloc(N, pool) == [n \in N |-> Nth(pool, Cardinality({m \in N : m <= n}))]
Enough(N, pool) == Cardinality(N) <= Cardinality(pool)

(* Fault: the tables are taken to be there.                                *)
FreshLeaves(s, V) == V

(* The nodes that get a page when new pages are mapped at V: ptab_insert   *)
(* allocates the tables that are missing and writes the leaf whatever it   *)
(* held.                                                                   *)
Fresh(s, V) == V \cup ((UNION {Table(v) : v \in V}) \ DOMAIN s)

(* alloc_phys_page(s) and map_page or map_range in the space of p.         *)
MapNew(p, V, flags, bytes) ==
  LET N   == Fresh(space[p], V)
      new == Alloc(N, free)
  IN /\ Enough(N, free)
     /\ free' = free \ PagesOf(new)
     /\ space' = [space EXCEPT ![p] = Over(new, @)]
     /\ perm' = [perm EXCEPT ![p] = Over([v \in V |-> flags], @)]
     /\ data' = Over([pp \in {new[v] : v \in V} |-> bytes], data)

(* Fault: reset keeps the tables' pages.                                   *)
ResetKeepsTables(s) == {s[n] : n \in DOMAIN s \cap VPage}

(* ptab_reset: the pages it frees, all but the root.                       *)
ResetFrees(s) == {s[n] : n \in DOMAIN s \ {Root}}

(* Fault: leaves are shared with the child until one of them writes.       *)
CloneSharesLeaves(p) ==
  LET s == space[p] IN Over([v \in DOMAIN s \cap VPage |-> s[v]], Alloc(DOMAIN s, free))

(* ptab_clone: a page for each table and each leaf.                        *)
Clone(p) == Alloc(DOMAIN space[p], free)
----------------------------------------------------------------------------
(* uio_close, n times on u: a count of 0 stays 0.                          *)
Dropped(u, n) == IF refcnt[u] < n THEN 0 ELSE refcnt[u] - n

(* validate_vptr: the page is mapped with flag x. No page is mapped for it.*)
Valid(p, v, x) == v \in Mapped(p) /\ x \in perm[p][v]

(* validate_vstr: so is every page of the string, up to its end.           *)
ValidStr(p, v) ==
  \E last \in VPage : last >= v /\ \A w \in v .. last : Valid(p, w, "R")

(* sysopen: open_file gives a new uio with one reference. (uart1 is opened *)
(* once at a time, like every device.)                                     *)
SysOpen(p, fd, u) ==
  /\ pc[p] = "user" /\ uiotab[p][fd] = NoUio /\ Unused(u)
  /\ \E v \in VPage : ValidStr(p, v)
  /\ uiotab' = [uiotab EXCEPT ![p][fd] = u]
  /\ refcnt' = [refcnt EXCEPT ![u] = 1]
  /\ UNCHANGED <<memVars, pc, arg>>

SysClose(p, fd) ==
  /\ pc[p] = "user" /\ uiotab[p][fd] # NoUio /\ fd \in Closable
  /\ uiotab' = [uiotab EXCEPT ![p][fd] = NoUio]
  /\ refcnt' = [refcnt EXCEPT ![uiotab[p][fd]] = Dropped(uiotab[p][fd], 1)]
  /\ UNCHANGED <<memVars, pc, arg>>

SysUiodup(p, old, new) ==
  /\ pc[p] = "user" /\ uiotab[p][old] # NoUio /\ uiotab[p][new] = NoUio
  /\ uiotab' = [uiotab EXCEPT ![p][new] = uiotab[p][old]]
  /\ refcnt' = [refcnt EXCEPT ![uiotab[p][old]] = @ + 1]
  /\ UNCHANGED <<memVars, pc, arg>>

(* sysread: the buffer is validated, then uio_read may wait.               *)
SysRead(p, fd, v) ==
  /\ pc[p] = "user" /\ uiotab[p][fd] # NoUio /\ Valid(p, v, "W")
  /\ pc' = [pc EXCEPT ![p] = "io"]
  /\ arg' = [arg EXCEPT ![p] = [kind |-> "io", buf |-> v]]
  /\ UNCHANGED <<memVars, fdVars>>

SysReadDone(p) ==
  /\ pc[p] = "io"
  /\ data' = [data EXCEPT ![space[p][arg[p].buf]] = p]
  /\ pc' = [pc EXCEPT ![p] = "user"]
  /\ arg' = [arg EXCEPT ![p] = NoArg]
  /\ UNCHANGED <<free, space, perm, fdVars>>

(* A store by the program itself.                                          *)
UserStore(p, v) ==
  /\ pc[p] = "user" /\ Valid(p, v, "W")
  /\ data' = [data EXCEPT ![space[p][v]] = p]
  /\ UNCHANGED <<free, space, perm, pc, arg, fdVars>>

(* Fault: the page is not cleared.                                         *)
NotCleared == "junk"

Cleared == "zero"

(* handle_umode_page_fault: a zeroed page, readable and writeable, whether *)
(* or not the page was mapped.                                             *)
PageFault(p, v, x) ==
  /\ pc[p] = "user" /\ ~Valid(p, v, x)
  /\ MapNew(p, {v}, {"R", "W"}, Cleared)
  /\ UNCHANGED <<pc, arg, fdVars>>
----------------------------------------------------------------------------
(* build_stack: what it puts on the stack page.                            *)
Argv == "argv"

(* process_exec up to its first wait in elf_load. The stack is allocated   *)
(* before the space is reset, its tables afterwards. Descriptors 0, 1 and 2*)
(* are set when 2 is free, whatever 0 and 1 were.                          *)
Console(p) ==
  IF uiotab[p][2] = NoUio
  THEN /\ Unused(Uart1)
       /\ uiotab' = [uiotab EXCEPT ![p][0] = Uart1, ![p][1] = Uart1, ![p][2] = Uart1]
       /\ refcnt' = [refcnt EXCEPT ![Uart1] = 3]
  ELSE UNCHANGED fdVars

PoolAfterReset(p, pool) == (pool \ {Nth(pool, 1)}) \cup ResetFrees(space[p])

Exec(p, u, prog) ==
  LET stack == Nth(free, 1)
      pool  == PoolAfterReset(p, free)
      new   == Alloc(Table(Stack), pool)
  IN /\ Enough({Stack}, free) /\ Enough(Table(Stack), pool)
     /\ free' = pool \ PagesOf(new)
     /\ space' = [space EXCEPT ![p] = Over(Only(Root, @[Root]), Over(Only(Stack, stack), new))]
     /\ perm' = [perm EXCEPT ![p] = Only(Stack, {"R", "W"})]
     /\ data' = [data EXCEPT ![stack] = Argv]
     /\ pc' = [pc EXCEPT ![p] = "elf"]
     /\ arg' = [arg EXCEPT ![p] =
                  [kind |-> "elf", exe |-> u, stack |-> stack, left |-> prog]]

SysExec(p, fd, prog) ==
  /\ pc[p] = "user" /\ uiotab[p][fd] \in Exe
  /\ Console(p)
  /\ Exec(p, uiotab[p][fd], prog)

(* run_init, by the main thread.                                           *)
BootExec(prog) ==
  /\ pc[Main] = "boot" /\ Console(Main) /\ Exec(Main, InitExe, prog)

(* uart1 is open already (-EBUSY): sysexec returns the error, and the stack*)
(* page is not given back.                                                 *)
ExecNoConsole(p, fd) ==
  /\ pc[p] = "user" /\ uiotab[p][fd] # NoUio
  /\ uiotab[p][2] = NoUio /\ refcnt[Uart1] # 0 /\ Enough({Stack}, free)
  /\ free' = free \ {Nth(free, 1)}
  /\ UNCHANGED <<space, perm, data, pc, arg, fdVars>>

(* set_range_flags: pages that are not mapped are skipped.                 *)
SetFlags(p, V, flags) ==
  perm' = [perm EXCEPT ![p] = Over([v \in V \cap Mapped(p) |-> flags], @)]

(* elf_load, one segment: header read and checked, pages mapped ...        *)
ElfMap(p) ==
  /\ pc[p] = "elf" /\ arg[p].left # <<>>
  /\ LET seg == Head(arg[p].left) IN
       MapNew(p, seg.pages, {"R", "W"}, "junk")
  /\ pc' = [pc EXCEPT ![p] = "load"]
  /\ UNCHANGED <<arg, fdVars>>

(* ... its bytes read, the rest cleared and the flags set.                 *)
ElfRead(p) ==
  /\ pc[p] = "load"
  /\ LET seg == Head(arg[p].left) IN
       /\ data' = Over([pp \in {space[p][v] : v \in seg.pages} |-> seg.bytes], data)
       /\ SetFlags(p, seg.pages, seg.perm)
  /\ pc' = [pc EXCEPT ![p] = "elf"]
  /\ arg' = [arg EXCEPT ![p].left = Tail(@)]
  /\ UNCHANGED <<free, space, fdVars>>

(* The executable is closed, its descriptor stays; the program starts.     *)
ExecDone(p) ==
  /\ pc[p] = "elf" /\ arg[p].left = <<>>
  /\ refcnt' = [refcnt EXCEPT ![arg[p].exe] = Dropped(arg[p].exe, 1)]
  /\ pc' = [pc EXCEPT ![p] = "user"]
  /\ arg' = [arg EXCEPT ![p] = NoArg]
  /\ UNCHANGED <<memVars, uiotab>>

(* build_stack or elf_load fails: the stack is freed and stays mapped.     *)
ExecFail(p) ==
  /\ pc[p] \in {"elf", "load"} /\ arg[p].exe # InitExe
  /\ free' = free \cup {arg[p].stack}
  /\ pc' = [pc EXCEPT ![p] = "user"]
  /\ arg' = [arg EXCEPT ![p] = NoArg]
  /\ UNCHANGED <<space, perm, data, fdVars>>
----------------------------------------------------------------------------
(* Fault: one reference for each uio.                                      *)
OneEach(p) == [u \in Uio |-> IF InTab(p, u) = {} THEN refcnt[u] ELSE refcnt[u] + 1]

(* uio_addref for each descriptor of p.                                    *)
Shared(p) == [u \in Uio |-> refcnt[u] + Cardinality(InTab(p, u))]

(* process_fork: clone the space, take over the descriptors, spawn a thread*)
(* for the child and wait for it.                                          *)
Fork(p, q) ==
  LET new == Clone(p) IN
  /\ pc[p] = "user" /\ pc[q] = "free" /\ Enough(DOMAIN space[p], free)
  /\ free' = free \ PagesOf(new)
  /\ space' = [space EXCEPT ![q] = new]
  /\ perm' = [perm EXCEPT ![q] = perm[p]]
  /\ data' = Over([pp \in {new[v] : v \in Mapped(p)} |->
                     data[space[p][CHOOSE v \in Mapped(p) : new[v] = pp]]], data)
  /\ uiotab' = [uiotab EXCEPT ![q] = uiotab[p]]
  /\ refcnt' = Shared(p)
  /\ pc' = [pc EXCEPT ![p] = "fork", ![q] = "born"]
  /\ arg' = [arg EXCEPT ![q] = [kind |-> "born", parent |-> p]]

(* Fault: the child's references are kept when there is no thread for it.  *)
ForkKeepsRefs(p) == Shared(p)

RefsAfterFailedFork(p) == refcnt

(* spawn_thread fails: the references are dropped, the clone is not freed. *)
ForkFail(p) ==
  /\ pc[p] = "user" /\ \A q \in Proc : pc[q] # "free"
  /\ Enough(DOMAIN space[p], free)
  /\ free' = free \ PagesOf(Clone(p))
  /\ refcnt' = RefsAfterFailedFork(p)
  /\ UNCHANGED <<space, perm, data, pc, arg, uiotab>>

(* fork_func: the parent goes on, the child starts.                        *)
ForkFunc(q) ==
  /\ pc[q] = "born"
  /\ pc' = [pc EXCEPT ![q] = "user", ![arg[q].parent] = "user"]
  /\ arg' = [arg EXCEPT ![q] = NoArg]
  /\ UNCHANGED <<memVars, fdVars>>

(* discard_active_mspace, of a space that is not main's.                   *)
Discard(p) ==
  /\ free' = free \cup ResetFrees(space[p]) \cup {space[p][Root]}
  /\ space' = [space EXCEPT ![p] = Empty]
  /\ perm' = [perm EXCEPT ![p] = Empty]

(* process_exit. The main process stops the machine instead.               *)
Exit(p) ==
  /\ pc[p] = "user" /\ p # Main
  /\ refcnt' = [u \in Uio |-> Dropped(u, Cardinality(InTab(p, u)))]
  /\ uiotab' = [uiotab EXCEPT ![p] = [fd \in FD |-> NoUio]]
  /\ Discard(p)
  /\ pc' = [pc EXCEPT ![p] = "exited"]
  /\ UNCHANGED <<data, arg>>

(* handle_umode_exception: a page fault outside user memory, and every     *)
(* other exception that is not a system call, ends the process.            *)
handle_umode_exception(p) == Exit(p) \/ \E v \in Touched, x \in Perms : PageFault(p, v, x)

(* syswait: thread_join frees the slot. Who may join is a matter of Threads.*)
SysWait(p, q) ==
  /\ pc[p] = "user" /\ pc[q] = "exited"
  /\ pc' = [pc EXCEPT ![q] = "free"]
  /\ UNCHANGED <<memVars, arg, fdVars>>
----------------------------------------------------------------------------
(* The main process runs in the space that memory_init builds, with global *)
(* entries only.                                                           *)
main_pt2 == Only(Root, MainRoot)

Init ==
  /\ free = Page
  /\ space = [p \in Proc |-> IF p = Main THEN main_pt2 ELSE Empty]
  /\ perm = [p \in Proc |-> Empty]
  /\ data = [pp \in Page |-> "junk"]
  /\ pc = [p \in Proc |-> IF p = Main THEN "boot" ELSE "free"]
  /\ arg = [p \in Proc |-> NoArg]
  /\ uiotab = [p \in Proc |-> [fd \in FD |-> NoUio]]
  /\ refcnt = [u \in Uio |-> IF u = InitExe THEN 1 ELSE 0]

Descriptors(p) ==
  \/ \E fd \in FD, u \in Uio : SysOpen(p, fd, u)
  \/ \E fd \in FD : SysClose(p, fd)
  \/ \E old, new \in FD : SysUiodup(p, old, new)

Memory(p) ==
  \/ \E fd \in FD, v \in Touched : SysRead(p, fd, v)
  \/ SysReadDone(p)
  \/ \E v \in Touched : UserStore(p, v)
  \/ handle_umode_exception(p)

Execution(p) ==
  \/ \E fd \in FD : ExecNoConsole(p, fd) \/ \E prog \in Programs : SysExec(p, fd, prog)
  \/ \E prog \in Programs : p = Main /\ BootExec(prog)
  \/ ElfMap(p) \/ ElfRead(p) \/ ExecDone(p)

Lives(p) ==
  \/ \E q \in Proc : Fork(p, q) \/ SysWait(p, q)
  \/ ForkFail(p) \/ ForkFunc(p) \/ Exit(p)

Next == \E p \in Proc : Descriptors(p) \/ Memory(p) \/ Execution(p) \/ Lives(p)

Spec == Init /\ [][Next]_vars

(* With executions that fail after they have begun.                        *)
FailingSpec == Init /\ [][Next \/ \E p \in Proc : ExecFail(p)]_vars
----------------------------------------------------------------------------
Live == {p \in Proc : pc[p] \notin {"free", "exited"}}

(* Each process that lives has a root table, each entry of a space lies in *)
(* a table of that space, flags belong to mapped pages. A read that was    *)
(* validated before it waited still finds its page mapped and writeable.   *)
TypeOK ==
  /\ free \subseteq Page
  /\ pc \in [Proc -> Labels]
  /\ \A p \in Proc :
       /\ Root \in DOMAIN space[p] <=> p \in Live
       /\ \A n \in DOMAIN space[p] \ {Root} : Up[n] \in DOMAIN space[p]
       /\ PagesOf(space[p]) \subseteq Page \cup {MainRoot}
       /\ DOMAIN perm[p] = Mapped(p)
       /\ pc[p] = "io" => arg[p].buf \in Mapped(p) /\ "W" \in perm[p][arg[p].buf]
  /\ \A u \in Uio : refcnt[u] \in Nat
  /\ uiotab \in [Proc -> [FD -> Uio \cup {NoUio}]]

(* A page is used once: it is a table or a user page of one process, at one*)
(* place, and it is not free. Fork, exec, exit and faults in any order give*)
(* back what they took, and nothing else.                                  *)
NoSharing ==
  \A p \in Live : \A n \in DOMAIN space[p] :
    /\ space[p][n] \notin free
    /\ \A q \in Live : \A m \in DOMAIN space[q] :
         space[p][n] = space[q][m] => p = q /\ n = m

(* Pages that are not free and belong to nobody.                           *)
Lost == Page \ (free \cup UNION {PagesOf(space[p]) : p \in Proc})

(* Pages get lost in three places only: where a page is mapped over a page *)
(* (a fault on a mapped page, segments that overlap), in a fork that finds *)
(* no thread, and, one page at a time, in an exec that cannot open the     *)
(* console. Loading a program, exit and successful forks lose none.        *)
LostOnlyThere ==
  [][ \/ Lost' \subseteq Lost
      \/ \E p \in Live : \E v \in Mapped(p) :
           space'[p] # Empty /\ pc'[p] # "elf" /\ space'[p][v] # space[p][v]
      \/ (\A q \in Proc : pc[q] # "free") /\ UNCHANGED <<space, pc>>
      \/ \E p \in Live, stack \in free :
           /\ uiotab[p][2] = NoUio /\ refcnt[Uart1] # 0
           /\ Lost' \subseteq Lost \cup {stack} /\ UNCHANGED <<space, pc>> ]_vars

(* A file or device that some descriptor of some process names has a       *)
(* reference for each of them, so that no close by one process closes it   *)
(* under another. (Executables are left out: exec closes the one it loads  *)
(* and leaves its descriptor.)                                             *)
NamedAreOpen ==
  \A u \in Uio \ Exe : Cardinality(Names(u)) <= refcnt[u]

(* References are forgotten in one place only, where exec opens the console*)
(* over descriptors 0 and 1: every other step leaves a uio no more         *)
(* references without a descriptor than it had, so it is closed with its   *)
(* last descriptor. Fork, its failure, dup, close and exit forget none.    *)
ForgottenOnlyThere ==
  [][ \A u \in Uio :
        \/ refcnt'[u] <= Cardinality(Names(u)')
        \/ refcnt'[u] - Cardinality(Names(u)') <= refcnt[u] - Cardinality(Names(u))
        \/ \E p \in Proc :
             /\ uiotab[p][2] = NoUio /\ uiotab'[p][2] = Uart1 /\ pc'[p] = "elf"
             /\ u \in {uiotab[p][0], uiotab[p][1]} ]_vars

(* What a process sees of its memory.                                      *)
Image(p) ==
  IF pc[p] \in {"user", "io", "fork", "born"}
  THEN [v \in Mapped(p) |-> data[space[p][v]]] ELSE Empty

(* Each process has a memory of its own.                                   *)
I == INSTANCE Images WITH mem <- [p \in Proc |-> Image(p)]
ImagesSpec == I!Spec
=============================================================================
