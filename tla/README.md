# A verification project for the kernel

TLA+ models of the kernel under `src/src/modified/sys` (with the provided parts
under `src/src/provided/sys`), TLC configurations that check them on small
instances, and TLAPS proofs for every value of the constants. Paths below are
relative to `src/src/modified/sys` unless they say otherwise.

The kernel drives one RISC-V hart. One fact shapes every model: **kernel code is
never preempted**. The interrupt handlers (`timer.c:140`, `intr.c:113`) return to
the thread they interrupted, so a thread gives up the hart only where it calls
`condition_wait`, `running_thread_yield` or exits. Code between two such points is
one atomic action; only an interrupt handler comes in between, and only while
`sstatus.SIE` is set.

## 1. Inventory

| Component | State | Operations | Works with | What is hard | What makes it correct | Status |
|---|---|---|---|---|---|---|
| Threads, conditions, locks (`thread.c`, `thrasm.s`) | thread table, ready list, wait lists, owners and counts of recursive locks, lock lists, stacks, SIE | spawn, exit, join, reclaim, yield, condition wait and broadcast, lock acquire and release, idle loop, context switch | everything; interrupt handlers broadcast conditions | interrupts between the steps of a wait; lost wake-ups; who frees an exited thread's stack | each thread on the one list its state says; owners, counts and lists agree; no release, exit or event is missed; ready threads run in turn | modelled |
| Pipes and uio references (`uio.c`) | ring buffer, byte count, open ends, reference counts | read, write, close, addref | descriptors of processes, conditions | both ends closing under a waiting process; wrap-around; shared references | bounded FIFO; ends closed exactly when the last reference goes; freed once; no call sleeps for ever | modelled |
| Block cache (`cache.c`) | LRU list of blocks, positions, contents, dirty bits, pin counts, a lock | get, release, flush | KTFS above, a storage device below | the device is waited for while clients change pinned blocks; failing stores and fetches | implements a memory of blocks; a flush leaves every block stored | modelled |
| KTFS (`ktfs.c`) | superblock, two bitmaps, inodes, directory, open files, listings | create, delete, open, close, fetch, store, cntl, flush, listing | cache, uio | block ownership through delete and reuse, boundaries of direct, indirect and doubly indirect blocks, a disk that fills up half-way | no block in two files; directory and bitmaps agree; a file reads as it was written | partly: calls are atomic |
| Physical pages (`memory.c:94-130, 744-847`) | list of free chunks | alloc, free, count | page tables, process stacks, heap, ELF loading | cutting and growing chunks in any order, exact fits | every page in one chunk or held by one caller | modelled |
| Kernel heap (`provided/sys/heap0.c`) | the pool, blocks with headers | kmalloc, kcalloc, kfree | page allocator | which rest becomes the pool; headers | blocks, headers and pool disjoint, inside pages the heap holds | modelled |
| Address spaces (`memory.c:374-728, 850-979`) | three-level page tables | clone, reset, discard, map, flags, validation, user page fault | processes, pages | ownership of pages over fork, exec, faults and their failures | a mapped page is in one place of one space and not free | modelled |
| Processes (`process.c`) | process table, descriptors, address space of each | exec, fork, exit, wait | threads, address spaces, uio, ELF loader | partial failure of exec and fork; descriptors that outlive their reference | each process has a memory of its own; references are dropped with descriptors; pages get lost nowhere unexpected | modelled |
| System calls (`syscall.c`) | none of its own; the descriptor table | one per call | all of the above | validation before, use after a wait | what was validated is still mapped after the wait | partly |
| ELF loader (`elf.c`) | none | map, fill, protect segments | address spaces, a file | failures between the steps; overlaps | the image is the program's | partly: header checks are one choice |
| Timer and alarms (`timer.c`) | sorted list of sleepers, compare register, enable bit | alarm_sleep, alarm_reset, timer interrupt | conditions | the enable bit against the list | the register is set for the earliest sleeper; whoever is due wakes | modelled |
| Block driver (`dev/vioblk.c`, `provided/sys/dev/virtio.*`) | queue indices, one request buffer, two locks | open, close, fetch, store, interrupt | cache, conditions, PLIC | a completion between publishing and waiting; one buffer for all callers | a call returns its own answer; every request is answered | modelled |
| UART (`dev/uart.c`) | two free-running ring buffers, interrupt enable bits | open, close, recv, send, interrupt | conditions, PLIC | enable bits shared by handler and callers, wrap-around | order kept both ways; nobody waits with the interrupt off | modelled |
| Device manager (`provided/sys/device.c`) | device list, handles with position and bounce buffer | register, open, list, read, write, set position, close | drivers, mount table | calls cut into partial and whole blocks, failing parts | a storage handle is a file of bytes; a device is open through one handle | modelled |
| Mount table (`filesys.c`) | mount points | attach, open, list | file systems, device manager | names taken twice, lists that grow while read | a mount point means one file system | partly: paths are not parsed |
| Interrupts and traps (`trap.s`, `intr.c`, `plic.c`, `excp.c`) | handler table, priorities, claims | dispatch, enable, disable | all | order of switching a source off and removing its handler | no interrupt is claimed without a handler | partly, see section 2 |
| Entropy driver, RAM disk, RTC, console, strings, boot, user programs, tests | see section 7 | | | | | not modelled |

`PROJECT.json` lists the same components with their files, and the hazards found
while reading the code, at their lines.

## 2. Modules and how they compose

| Module | What it is |
|---|---|
| `Threads` | the thread manager with interrupts; one action per operation, or per stretch between two points where interrupts are enabled |
| `ThreadsProofs` | its proofs |
| `ListLemmas` | lemmas about sequences without duplicates, used by three proof modules |
| `Channel` / `Pipe` | abstract: a bounded FIFO channel of bytes; detailed: ring buffer, waits, descriptors, reference counts (`ChannelSpec`) |
| `Blocks` / `Cache` | abstract: a memory of blocks with pins; detailed: LRU list, write-back, failing device (`BlocksSpec`) |
| `Files` / `Ktfs` | abstract: a directory of files that are sequences; detailed: the disk image and its calls, above a memory of blocks (`FilesSpec`) |
| `PagePool` / `PageAllocator` | abstract: a set of free pages; detailed: the chunk list (`PoolSpec`, also proved) |
| `Heap` | the kernel heap as one caller of `PageAllocator` among others; extends it |
| `CacheProofs`, `KtfsProofs`, `UartProofs` | the proofs of the module in their name |
| `MemoryProofs` | the proofs of `PageAllocator`, `Heap` and `Process` |
| `FileProofs` | the proofs of `Pipe` and `Devices`, the two kinds of byte stream a descriptor may lead to besides files |
| `DriverProofs` | the proofs of `Vioblk` and `Alarms` |
| `Images` / `Process` | abstract: every process has a memory of its own; detailed: page tables, descriptors, fork, exec, exit, faults (`ImagesSpec`) |
| `Plic` | handler table, priorities and claims of external interrupts; extended by the two drivers |
| `Disk` / `Vioblk` | abstract: calls on a memory of sectors; detailed: driver, interrupt handler and device (`DiskSpec`) |
| `Line` / `Uart` | abstract: a line that keeps order and loses characters only by overrun; detailed: driver, handler and device (`LineSpec`) |
| `ByteFile` / `Devices` | abstract: a file of bytes with a position; detailed: mount table, device list and handles with their bounce buffer (`ByteFileSpec`) |
| `Alarms` | sleepers, the compare register and its interrupt |
| `MC...` | instances for TLC: symmetry sets, views, bounds |

The layers meet at the abstract specifications: `Ktfs` relies on a memory of blocks,
which is what `Cache` is shown to implement; `Cache` relies on a device that moves
blocks or fails, which is what `Vioblk` promises (`Disk`); `Devices` on the same,
with errors part-way. `Pipe`, `Cache`, `Vioblk` and `Uart` rely on waits that return
after a broadcast, which is what `Threads` shows; `Process` counts on a pool of
pages, which is `PagePool`.

Where one module of proofs is about two components it extends both, so one of them names
its own specification `PageSpec`, `DevSpec` or `AlarmsSpec`.

### State and actions against the code

* **Threads.** `state`, `parent`, `owner`, `cnt`, `lock_list`, `ready_list` and
  `wait_list` are the fields of the same name; `tp` is the register; a thread's C
  stack is one control point per thread: `pc` (where it is inside
  `condition_wait`, `running_thread_suspend`, the idle loop or the exit path),
  `cont` (the loop that called it: lock, event, join) and the locals `next`,
  `spie`, `opie`. An `Isr` action runs a handler: it fires only while `sie` holds
  and broadcasts the event's condition. Above the thread manager nothing is
  assumed: a thread at `"run"` may call any operation.
* **Pipe.** One process runs a call from `lock_acquire` to its next wait or
  return as one action (the lock is released before every wait). Descriptor
  tables, fork, dup, close and exit are included because they decide when an
  end is closed.
* **Cache.** `lru`, `pos`, `dirty`, `pin` and the buffers, one lock, and at most
  one call in progress that waits for the device; other clients go on changing
  pinned blocks. The device may fail a store, and a fetch into a block that was
  never used (see section 8 for the other fetch).
* **Ktfs.** `disk` is the image: inode bitmap, block bitmap, inodes, data
  blocks. Blocks are cut into cells. Freed blocks keep their contents, and what
  is written carries the file's name, so a cell that turns up in the wrong file
  shows. Each call of the driver is one action, with its failing variants as
  actions of their own (`CreateNoBlock`, `StoreNoBlock`, `SetEndNoBlock`, ...).
* **PageAllocator, Heap.** `chunks` is the linked list in order, each chunk an
  interval of page numbers. The heap counts memory in units of `HEAP_ALIGN`;
  `heap_low` and `heap_end` are the code's, `blocks` the headers in memory, and
  `heapPages` what the heap asked for. Its requests are the allocator's action
  `alloc_phys_pages(1)`; `Others` is everybody else.
* **Process.** `space[p]` is the page table of `p` as a map from nodes of the tree
  (root, tables, leaves) to pages, `perm` the flags, `data` what a page holds,
  `uiotab` and `refcnt` descriptors and counts. A process is one thread; an
  action runs to the next wait: exec waits for the disk between segments, fork
  for its child, read for its data. `handle_umode_exception` maps a zeroed page
  or ends the process.
* **Vioblk, Plic.** `avail` and `used` are the ring indices (taken modulo `IDX`),
  `prev` is the caller's copy of the used index, `seen` the device's own index;
  `header`, `buf`, `status` the single request. Steps of a caller are the code between
  two points where the device's progress shows; the device takes and answers
  requests, and the handler runs, between any two of them. Opening and closing set
  handler and priority in the code's order.
* **Uart.** `rxbuf` and `txbuf` with `hpos`, `tpos` modulo `POS`, `ier` the enable
  bits, `rbr` and `thr` the receiver's and transmitter's one character each.
* **Alarms.** `sleep_list`, `stcmp` and `STIE` are the code's; `time` is the `rdtime`
  counter; inserting and the first wait are one step.
* **Devices.** `devlist`, `mplist` are the two lists; `uio[h]` a handle with kind,
  position and bounce buffer. A call on a storage handle is a pipeline of its
  three parts (`FetchHead`, `FetchBody`, `FetchTail` and the same for stores), with a fault
  in one of them.

## 3. What the runs check

| Run | Properties | What it shows |
|---|---|---|
| `threads_locks` | `LocksConsistent`, `NoLostRelease`, `ExitAndJoin` | spawn, exit, join and a contended recursive lock in every order: owners, parents and stacks agree and no waiter of a lock or a child is forgotten |
| `threads_live` | `WellFormed`, `NoLostEvent`, `RoundRobin`, `EventWakes` | interrupts between any two instructions with SIE set; every thread is on the list its state says, every ready thread runs again and every waiter of an event wakes |
| `pipe` | `TypeOK`, `RefcntExact`, `ChannelSpec`, `CallsReturn` | bytes keep their order through wrap-around, partial reads and writes, end of file and EPIPE; reference counts over fork, dup, close and exit; nobody sleeps for ever |
| `cache` | `TypeOK`, `BlocksSpec`, `FlushStores` | no update is lost between clients, eviction, flush and a failing device |
| `ktfs` | `TypeOK`, `NoSharing`, `DirectoryConsistent`, `FilesSpec` | what is written is what is read, and a block has one owner, through deletion, reuse, truncation and a full disk |
| `page_allocator` | `PageTypeOK`, `Partition`, `HeapBlocks`, `PoolSpec` | no page is handed out twice or lost; one page is refused only when none is free; blocks of the heap never overlap each other, the pool or somebody else's page |
| `process` | `TypeOK`, `NoSharing`, `NamedAreOpen`, `LostOnlyThere`, `ForgottenOnlyThere`, `ImagesSpec` | fork, exec, fault, open, dup, close, read and exit: no page in two places or free while mapped, pages get lost at three known places only; what a descriptor names is not closed under it (executables apart), references are forgotten only where exec opens the console over descriptors 0 and 1; each process sees a memory of its own |
| `vioblk` | `TypeOK`, `RequestIsTheDevices`, `DiskSpec`, `Answers` | nobody touches the request while the device has it, a call returns its own sectors or an error, every request is answered, no interrupt comes without its handler |
| `uart` | `TypeOK`, `WaiterIsHeard`, `LineSpec` | both directions keep their order through wrap-around of buffers and positions, and whoever waits has its interrupt on |
| `alarms` | `AlarmsTypeOK`, `Armed`, `WokenWhileEnabled` | while the interrupt is enabled the register is set for the earliest sleeper and wakes every one that is due |
| `alarms_wake` | `SleepEnds` (violated) | a sleeper that is still on the list when the timer interrupt comes never wakes, see section 8 |
| `devices` | `DevTypeOK`, `ByteFileSpec` | names and mount points are unique, a device is open through exactly one handle, reads and writes at any position, with errors in any part, are those of a file of bytes |

Every property of a passing run is paired with a plausible fault in a
definition of the model (`mutants` in `PROJECT.json`; the faulty variants stand
beside the definitions, marked *Fault*) that makes that run fail.

## 4. Bounds, and why they are enough

* `threads_locks`: four slots of the thread table (main, idle and two dynamic
  threads), one lock with recursion depth two. Two contenders and a holder exist
  at once, a parent exits before its child, a slot is reused. Deadlock is not
  checked: threads may deadlock themselves by joining a thread that waits for
  their lock, which the thread manager allows.
  No interrupt comes (`Events = {}`): those are the subject of `threads_live`.
* `threads_live`: three slots and one event; the interesting cases are an
  interrupt against a wait (also between marking and inserting the waiter), a switch and the idle loop, which need one waiter
  and one source.
* `pipe`: a buffer of two bytes and two byte values: every alignment of head
  and tail, requests shorter than, equal to and longer than what is there. Two
  processes with three descriptors each, so a third descriptor duplicates either
  end. The view leaves out bytes outside head and tail and results already returned.
* `cache`: three blocks on the device, a cache of two, two clients with up to two
  pins: hits, growth, clean and dirty eviction, a cache full of pinned blocks.
* `ktfs`: two names, two free inodes, nine data blocks of two cells, two direct
  pointers, one pointer per pointer block, one doubly indirect pointer; writes of
  four cells, ends of three and of nine (one more than the largest file). A file
  reaches its doubly indirect block, lengths fall on and off block boundaries, two
  files compete for blocks, the disk fills half-way through a write, an extension
  and a creation. A client has each file open once, and one thing open at a time;
  it does not delete open files. `FewLost` cuts off states with more than one lost
  block besides block 0, which is never free (a file that was cut loses its blocks
  when it is deleted). The directory stays within its direct blocks (section 8 says
  why). The view drops the last call and result, which no action reads, and
  inodes that are free, which creation clears.
* `page_allocator`: six pages of four units, requests of up to three pages or three
  units, two heap pages: chunks of every size below, exact fits at each place of
  the list; both choices of the pool, from the boot heap and from a page.
  `MaxHeapPages` bounds what is never given back. It may stop: after a panic.
* `process`: main and one more process; a program of two segments, a page of heap that
  it touches first, a stack, three levels of tables; seventeen pages of memory, which
  fork and exec of both at once fit into; the console, and a file that is an
  executable. Programs close any of the three descriptors exec uses (`Closable`), so exec
  opens the console again, over other files too, or finds it open. At most one page
  is lost (`FewLost`), one reference of a uio forgotten (`FewForgotten`), and two
  descriptors name the file (`FewNames`). The view
  forgets page numbers and keeps which places hold the same page or a free one.
  It stops when memory runs out: the kernel panics.
* `vioblk`: two sectors and two values, calls of up to two sectors that may run past
  the end, indices modulo two: each request wraps the index. A second caller waits
  for the lock while the first waits for the device.
* `uart`: buffers of two characters, positions modulo four, requests of up to two
  characters; two callers, which may both receive or one send meanwhile.
* `alarms`: three sleepers, sleeps of one to three units and the largest, a clock of
  six: insertions at each place, two alarms at one time, all orders of expiry. The
  clock stops at `MaxTime`, so the run stops; `Due` takes in only alarms before it.
* `devices`: three blocks of two bytes, calls of up to four bytes at each position:
  every mix of head, body and tail, with an error in each part; three devices of
  which two share a name. Calls end within the device (section 8).

## 5. Fairness

* `Threads`: weak fairness of the running thread's next step (`Progress`): the hart
  does not stop. Strong fairness of a handler (`Isr`): an asserted interrupt stays
  asserted and is taken, though SIE is off from time to time. `RoundRobin` and
  `EventWakes` assume *in their statement* that running threads keep giving up the
  hart; nothing forces them to.
* `Pipe`: weak fairness of each process in a call, which is what `RoundRobin` gives
  a thread that is ready: it runs again. Processes outside a call may do
  nothing for ever.
* `Vioblk`: weak fairness of each caller's next step, of the handler, and of the
  device: it takes what it was notified of and answers. Starting a call is not fair.
* `Alarms`: time passes, a timer interrupt that is pending and enabled is taken, and
  who was woken runs.
* Locks promise no fairness. A thread that releases a lock may take it again
  before the waiter it woke runs, so no run claims that `lock_acquire` returns:
  `Answers` starts where the caller has published its request.

## 6. What is proved

Every theorem is for every value of the constants, under the named assumptions of
its module (sizes are positive, at least three threads, sets of callers and pages are
finite where they are counted, page tables have three levels, markers such as `NoOne`
are no callers) and under the hypothesis given below, if any. No fairness is needed.
The runs check the same properties on small instances.

| Module | Theorem | What it states | Hypothesis |
|---|---|---|---|
| `ThreadsProofs` | `WellFormedHolds`, `LocksConsistentHolds`, `NoLostReleaseHolds` | types, each thread on its list, locks with their owners, no waiter forgotten | |
| | `NoLostEventHolds` | no wait for an event that has occurred, no sleep while a thread is ready | |
| | `ExitAndJoinHolds` | who joins has a live child; no orphans; stacks are freed by the right thread | |
| `FileProofs` | `PipeTyping`, `RefcntExactHolds` | references are counted exactly, an end is open while it has one, the pipe is freed once | |
| | `ChannelRefinement` | `Pipe` implements `Channel` | |
| | `DevTyping` | names, instances and mount points are unique, a device is open through exactly one handle, instances are numbered without gaps; positions stay within the device while calls do | |
| | `ByteFileRefinement` | `Devices` implements `ByteFile` | calls end within the device |
| `CacheProofs` | `CacheTyping` | types; each block linked once, pins counted | |
| | `FlushStoresHolds` | a flush that succeeds leaves no dirty block | no failing fetch |
| | `BlocksRefinement` | `Cache` implements `Blocks` | no failing fetch |
| `MemoryProofs` | `PageTyping`, `PagePartition`, `PageRefinement` | each page in one chunk or held once; `PageAllocator` implements `PagePool` | |
| | `HeapBlocksHolds` | blocks, headers and pool of the heap are disjoint and its own | |
| | `ProcessTyping`, `NoSharingHolds`, `LostOnlyThereHolds` | no page in two places or free while mapped; the three places where pages get lost | executions do not fail once begun |
| | `NamedAreOpenHolds`, `ForgottenOnlyThereHolds` | what a descriptor names has its references; the one place where references are forgotten | the same |
| | `ImagesRefinement` | `Process` implements `Images` | the same |
| `KtfsProofs` | `KtfsTyping` | types of directory entries, inodes, blocks, handles and results | the directory fits into direct blocks |
| | `BlocksNotShared` | no two pointers of files in use lead to the same block | the same |
| | `DirectoryStays` | the directory names each file and each inode in use once | the same |
| | `FilesRefinement` | `Ktfs` implements `Files` | the same, and one handle per file (`Exclusive`) |
| `DriverProofs` | `VioblkTyping`, `RequestIsTheDevicesHolds` | the request is not touched while the device has it | |
| | `DiskRefinement` | `Vioblk` implements `Disk` | the device waits to be notified |
| | `AlarmTyping`, `ArmedHolds` | the list is sorted, the register is not later than its head while the interrupt is on | |
| `UartProofs` | `UartTyping`, `WriterIsHeardHolds` | the rings; a writer waits with its interrupt on | |
| | `WaiterIsHeardHolds` | so does a reader | no read longer than the buffer |
| | `LineRefinement` | `Uart` implements `Line` | |

The hypotheses are not conveniences: without each of them the code breaks the
property, as section 8 says (`provided/sys/device.c:779`, `cache.c:233`, `ktfs.c:536`, `ktfs.c:1663`,
`process.c:122`, `dev/vioblk.c:371`, `dev/uart.c:372`), and TLC shows the counterexample. For `Process`
the hypothesis is in `Spec` itself: `ExecFail` (`process.c:112-124`) is an action of `FailingSpec` only.

### Along which argument

None of the invariants is inductive alone. What each proof adds:

* **Threads.** `IInv` joins typing, *control* (at which labels a running and a suspended
  thread may be, and that `arg` fits the loop in `cont`), placement, the locks, and *a
  thread waits for a lock only while it is owned*. `WakeInv` adds what the
  interrupts need (the idle loop, and a waiter between its test of the event and the
  switch, have SIE off; a suspended waiter of an event comes back with it off), that
  whoever joins has found no child to reap and has one alive, and whom the
  stack of an exited thread waits for. One lemma per action and conjunct.
* **Pipe.** `PipeInv`: the tail is the head advanced by the count; a process in a call still
  holds the descriptor it was called with (a close runs in the process itself); the
  counts are the numbers of descriptors, over finitely many processes. Refinement:
  the bytes between head and tail, through at most one wrap-around, are the channel.
* **Devices.** `DevInv`: the instances of a name are numbered from 0 without gaps, so the
  number of devices of that name is a new one; a device is open exactly while one handle is on
  it; a handle's buffer is a block. A call is a chain of parts, and each part is a
  `FetchPart` or `StorePart`: it moves the next bytes in order and counts them, or moves some of
  them uncounted and ends the call. Such parts compose (`SlicesJoin`, `OverlaidJoin`).
  `BlockOverlaid`: storing the patched block is overlaying the caller's bytes, which is
  where fetching it first is needed.
* **Cache.** `CacheInv`: each block linked once, no position cached twice, pins are the
  sum of the clients' pins, and what a waiting call knows of its block: it is still
  unpinned, clean, or not yet linked. `DataInv`: a block that is neither dirty nor being
  changed is what the device has; `FlushInv`: the part of the list behind a flush is
  clean. A failing fetch breaks `DataInv`, nothing else.
* **Ktfs.** `KtfsInv`: the pointers of the inodes in use are a forest. Where a pointer leads
  is marked in the bitmap (`Marked`), no two lead to one place (`Apart`), a file has all
  blocks its size needs (`Sized`), the directory (`DirOK`) and the open files (`HandleOK`) name
  inodes in use. One lemma shows that `Ensure`, which follows a pointer or makes it lead to a
  free block, keeps the forest, cleared blocks included; everything that allocates, and whatever
  it leaves half-way when the disk fills up, is a repetition of it. Deleting gives back
  exactly the places one tree reaches. Repetitions are recursive functions (`Repeat`,
  `PutAll`, `GetOrAllocAll`); that a step preserves a formula is carried through them by
  the least number at which it fails.
  `FilesInv`, for `Files`, adds what a handle knows: it is the only one of its file, its size is
  the inode's, its position is not beyond it. Each call is then shown to be one of `Files`:
  `Overwritten` says which cells of the file a write has reached when it stops, `WriteShows`
  what that leaves to be read (one file longer, or the same length and some cells new),
  `Blocked` that a call stops only when every block is marked, `Created` and `Removed`
  what becomes of the list of names, `Prolongs` that SETEND keeps the cells there were.
* **PageAllocator, Heap.** The chunks are pairwise disjoint intervals; cutting, extending
  and linking each change their union by exactly the pages moved. `HeapInv` puts
  the pages of the heap among those held, so a new page is none of its own.
* **Process.** `ProcInv`: each space of a live process is a tree of at most three tables
  above its pages, no page is in two places, and what a waiting call relies on: the
  buffer of a read stays mapped and writable, a child's parent waits for it and
  for no other. `RefInv`: slots without a program name no uio, so a fork
  overwrites no reference, and `NamedAreOpen`, which with it is inductive.
  `LoadInv`, for `Images`: while a program is loaded, its pages hold what the segments read so far have left.
* **Vioblk.** `DriverInv`: one caller is past the lock; the header and buffer are that
  caller's; the request is answered before the used index moves; a source that is on
  has its handler. `PatientInv`, for `Disk`: nothing is answered between publishing a
  request and reading the used index.
* **Alarms.** `AlarmInv`: who was woken is past its time, so a second look at the clock never
  sends it back to wait off the list. The lemmas `FirstOf` and `InsertAtProperties` give the
  place that alarm_sleep and the handler find, and the order after an insertion there.
* **Uart.** `UartInv`: the rings, the lock, *the transmitter's interrupt is on while there is
  something to send*. `RxInv`: in a call the receiver's interrupt is off only while the
  buffer is full; a full buffer then ends the read. The lemmas `Place` and `ModApart` show
  that free-running positions name each slot once, because the buffer's size divides
  their range; `PutOK` and `GotOK` give what a ring holds after each operation.

### Only model-checked

Liveness: `RoundRobin`, `EventWakes`, `CallsReturn`, `Answers`, `WokenWhileEnabled`. The prover
has no rules for fairness or ENABLED. Every other property of a passing run is stated by
a theorem of the table.

## 7. Not modelled, and why

* Entropy driver (`dev/viorng.c`): the request pattern of `Vioblk` with its own index of
  completions; nothing the block driver does not already show.
* RAM disk, RTC, console, strings, formatting: pure, or pure I/O.
* Boot code: straight line, before there is a second thread.
* User programs and tests: clients of the kernel.
* `Ktfs`: two calls interleaved at their waits for the device, with the locks
  `g_open_head_lock` and `file_lock`; device errors and the error paths of
  `ktfs_store` that keep the lock; several handles on a file, deletion of open
  files. The hazards at `ktfs.c:1879` and `:1922` stay open.
* `Devices`: processes that share a handle after a fork (its position and its bounce
  buffer); path strings; the record of UART0, which has no device behind it and
  cannot be opened. Handles on serial devices pass calls on to `Uart`.
* `Process`: the register image, shared global mappings, kernel stacks.
* System calls: fcntl, fscreate, fsdelete and print, which check their
  arguments and call what `Ktfs` and `Devices` model.
* `Vioblk`: calls on a closed device, which return `-EINVAL` and change nothing
  (`dev/vioblk.c:321`, `:407`).
* `trap.s`: contents of registers. Supervisor exceptions panic.
* Short fetches in `Cache`; `thread_detach`, which has no caller; sleeps that end
  before they begin in `Alarms`.

## 8. Where the code departs from what it says

Found while modelling; only the first has a run of its own. The others are kept out
of the passing runs by the bound or constant named here, and show when it is
changed.

* `timer.c:178`: the handler clears STIE on every run, and `alarm_sleep` sets it again
  only when the list was empty (`timer.c:97-98`): whoever is left on the list sleeps for
  ever (`alarms_wake`). `timer.h:32` promises "some number of ticks".
* `timer.c:100`: `alarm_sleep` returns without unlinking its alarm when the time has
  come before the first wait; the list then holds a pointer into a dead frame
  (`Sleep` requires `t > time`).
* `timer.c:140`, `intr.c:113`: no handler yields, so a thread that never suspends keeps the
  hart, although `docs/architecture.md:5` speaks of preemption.
* `thread.c:652`: an exiting thread's stack is freed by the thread that *resumes* after
  it; one that has never run starts in `_thread_startup` and frees nothing: the page
  is lost (`StackHeld` in `ExitAndJoin` says whom the stack waits for).
* `cache.c:233`: a fetch into a reused block that fails leaves the old contents under the
  new position, and the next lookup hits the wrong block (`"fetch"` in
  `Faults` violates `BlocksSpec`).
* `ktfs.c:1663`: one handle cuts a file, another writes past its end: the gap shows old
  data, while the comments at `ktfs.c:1623` and `:1674` say it is zero filled
  (two handles with
  `Exclusive = FALSE`, `MaxOpen = 2` in run `ktfs` violate `FilesSpec`).
* `ktfs.c:536`: the directory's first indirect block is not cleared; numbers left in it by a
  deleted file are used as the directory's blocks (three names and
  `NDIRECT = 1` in run `ktfs` violate `NoSharing`).
* `process.c:122`: when loading fails exec frees the stack page, which is mapped, and
  returns to the program that called it (`FailingSpec` violates `NoSharing`).
* `process.c:126`: exec closes its executable and leaves it in the descriptor table
  (`NamedAreOpen` therefore leaves executables out).
* `process.c:93`: exec puts the console at descriptors 0, 1 and 2 whenever 2 is closed, over
  what 0 and 1 name, whose references nobody drops: those uios are never
  closed. This is the one exception in `ForgottenOnlyThere`.
* `process.c:95`: exec takes the stack page first; when `uart1` is open already the
  console cannot be opened, and exec returns without giving the page back
  (`ExecNoConsole`, the third place in `LostOnlyThere`).
* `dev/uart.c:372`: a read of more characters than the buffer holds can wait with the receiver's
  interrupt off (`MaxReq > RBUFSZ` violates `WaiterIsHeard`).
* `provided/sys/device.c:779`: the partial block at the end of a call is not checked against
  what the device moved (`PastEnd = TRUE` violates `ByteFileSpec`).
* `provided/sys/device.c:741`: a call from a block boundary that asks for less than a block reaches the
  driver with a length of 0, which it refuses (`dev/vioblk.c:321`); the partial block is
  never tried. `ByteFile` permits this: a read may move nothing although nothing failed.
* `ktfs.c:2320`: a listing walks by index while a deletion moves the last entry forward: it may skip
  names. `Files` permits that, so `FilesSpec` describes it and does not forbid it.
* `dev/vioblk.c:371`: the used index is read after the request is made available; a device
  that looks at the ring before it is notified may complete in between, and the
  caller waits for ever (`Eager = TRUE` violates `DiskSpec`, and without that property ends in a deadlock).

## 9. Plan

1. Two calls on one KTFS image, interleaved where `cache_get_block` waits.
