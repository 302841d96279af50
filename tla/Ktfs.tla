-------------------------------- MODULE Ktfs --------------------------------
(***************************************************************************)
(* The file system of src/src/modified/sys/ktfs.c: inodes with direct,     *)
(* indirect and doubly indirect blocks, the two bitmaps, the root directory*)
(* and the calls open, close, read, write, cntl, create, delete and        *)
(* listing.  Below it is a memory of blocks (Blocks, which Cache           *)
(* implements).                                                            *)
(*                                                                         *)
(* The calls are atomic: one client at a time. A block is BLKSZ cells; a   *)
(* byte takes a cell, a block pointer one of the first PTRS cells, a       *)
(* directory entry DENSZ cells, of which the first holds it. Cells keep    *)
(* what was last written to them, whatever the block is used for next.     *)
(* What is written to a file is marked with the file's name: a cell shows  *)
(* the file it was written for.                                            *)
(*                                                                         *)
(* A call that fails half-way keeps its block pins and the file's lock;    *)
(* lock_acquire is recursive, so that stops another process only, and is   *)
(* left out. The device does not fail.                                     *)
(***************************************************************************)
EXTENDS Integers, Sequences, SequencesExt, FiniteSets

CONSTANTS
  Name,       \* the names of files
  Handle,     \* the open files a client may have
  NINO,       \* inodes
  NBLK,       \* data blocks
  BLKSZ,      \* KTFS_BLKSZ, in cells
  DENSZ,      \* KTFS_DENSZ, in cells
  PTRS,       \* the pointers in a block, KTFS_BLKSZ / sizeof(uint32_t)
  NDIRECT,    \* KTFS_NUM_DIRECT_DATA_BLOCKS
  NDINDIRECT, \* KTFS_NUM_DINDIRECT_BLOCKS
  Exclusive,  \* does the client open a file only when it is not open?
  MaxOpen,    \* files and listings the client has open (bound)
  Reqs,       \* the sizes of reads and writes (bound)
  Ends        \* the arguments of SETPOS and SETEND (bound)

Inode == 0 .. NINO - 1
Block == 0 .. NBLK - 1
ROOT  == 0   \* superblock->root_directory_inode
ERR   == -1  \* -ENOTSUP or -ENOENT

(* inode->block, ->indirect, ->dindirect, in this order.                   *)
Top == 0 .. NDIRECT + NDINDIRECT

Zero         == <<"zero">>
Pointer(b)   == IF b = 0 THEN Zero ELSE <<"block", b>>
Dentry(i, n) == <<"dentry", i, n>>
Data(n)      == <<"data", n>>
Cell == {Zero} \cup {Data(n) : n \in Name} \cup {Pointer(b) : b \in Block}
          \cup {Dentry(i, n) : i \in Inode, n \in Name}

MaxBlocks == NDIRECT + PTRS + NDINDIRECT * PTRS * PTRS
KTFS_MAX_FILE_SIZE == MaxBlocks * BLKSZ

(* The root directory has room for all files.                              *)
ASSUME KtfsAssumption ==
  /\ NINO \in 2 .. KTFS_MAX_FILE_SIZE \div DENSZ + 1 /\ NBLK \in Nat \ {0, 1}
  /\ BLKSZ \in Nat \ {0} /\ PTRS \in 1 .. BLKSZ
  /\ DENSZ \in 1 .. BLKSZ /\ BLKSZ % DENSZ = 0
  /\ NDIRECT \in Nat \ {0} /\ NDINDIRECT \in Nat
  /\ Exclusive \in BOOLEAN /\ MaxOpen \in Nat
  /\ Reqs \subseteq Nat /\ Ends \subseteq Nat
  /\ "none" \notin Name

VARIABLES
  disk,     \* the image: imap and bmap, the inodes and blocks in use;
            \* inode[i].size and .ptr; blk[b], the cells of data block b
  file,     \* file[h]: struct ktfs_file, or Closed
  listing,  \* the listing's index, or NoListing
  call,     \* the last call and its arguments
  ret       \* its result: a number and the data returned

vars == <<disk, file, listing, call, ret>>

Closed    == [name |-> "none", inode |-> ROOT, fileSize |-> 0, pos |-> 0]
NoListing == -1

Result(rc, out) == ret' = [rc |-> rc, out |-> out]
Blocks(size)    == (size + BLKSZ - 1) \div BLKSZ
Lesser(m, n)    == IF m <= n THEN m ELSE n
----------------------------------------------------------------------------
(* Where a file's blocks are.                                              *)

(* The way to block k of a file: a pointer of the inode, then pointers in  *)
(* the indirect blocks.                                                    *)
Path ==
  [k \in 0 .. MaxBlocks - 1 |->
     LET i == k - NDIRECT
         d == i - PTRS
     IN CASE k < NDIRECT -> <<k>>
          [] i \in 0 .. PTRS - 1 -> <<NDIRECT, i>>
          [] OTHER -> <<NDIRECT + 1 + d \div (PTRS * PTRS),
                        (d \div PTRS) % PTRS, d % PTRS>>]

(* A pointer is in inode n or in block n.                                  *)
InInode(n) == [in |-> "inode", at |-> n]
InBlock(n) == [in |-> "blk", at |-> n]

(* What is not a pointer is, read as one, null.                            *)
Target(cell) == IF cell[1] = "block" THEN cell[2] ELSE 0

PointerAt(d, node, j) ==
  IF node.in = "inode" THEN d.inode[node.at].ptr[j] ELSE Target(d.blk[node.at][j])

SetPointer(d, node, j, b) ==
  IF node.in = "inode" THEN [d EXCEPT !.inode[node.at].ptr[j] = b]
                       ELSE [d EXCEPT !.blk[node.at][j] = Pointer(b)]

(* The blocks on the way to block k of inode i: the last is the block      *)
(* itself, before it come the indirect blocks.                             *)
First(d, i, p)  == d.inode[i].ptr[p[1]]
Second(d, i, p) == Target(d.blk[First(d, i, p)][p[2]])
Third(d, i, p)  == Target(d.blk[Second(d, i, p)][p[3]])

Trail(d, i, k) ==
  LET p == Path[k]
  IN CASE Len(p) = 1 -> <<First(d, i, p)>>
       [] Len(p) = 2 -> <<First(d, i, p), Second(d, i, p)>>
       [] OTHER      -> <<First(d, i, p), Second(d, i, p), Third(d, i, p)>>

BlockOf(d, i, k) ==
  LET p == Path[k]
  IN CASE Len(p) = 1 -> First(d, i, p)
       [] Len(p) = 2 -> Second(d, i, p)
       [] OTHER      -> Third(d, i, p)

CellOf(d, i, pos) == d.blk[BlockOf(d, i, pos \div BLKSZ)][pos % BLKSZ]
SetCell(d, i, pos, v) ==
  [d EXCEPT !.blk[BlockOf(d, i, pos \div BLKSZ)][pos % BLKSZ] = v]

----------------------------------------------------------------------------
(* Allocation.                                                             *)

ZeroBlock == [j \in 0 .. BLKSZ - 1 |-> Zero]

(* A bit of the bitmap of inodes, and the bits of some blocks.             *)
SetInodeStatus(d, i, used) ==
  [d EXCEPT !.imap = IF used THEN @ \cup {i} ELSE @ \ {i}]
SetDataBlockStatus(d, blocks, used) ==
  [d EXCEPT !.bmap = IF used THEN @ \cup blocks ELSE @ \ blocks]

(* find_free_data_block.                                                   *)
FreeBlock(d) == CHOOSE b \in Block \ d.bmap : \A c \in Block \ d.bmap : b <= c

(* Make pointer j of s.node lead to a block, a new one if it is null; a new*)
(* indirect block is zeroed when zero says so.  s.node is then that block. *)
Ensure(s, j, zero) ==
  LET b == PointerAt(s.d, s.node, j)
      new == FreeBlock(s.d)
      marked == SetDataBlockStatus(s.d, {new}, TRUE)
  IN CASE ~s.ok  -> s
       [] s.ok /\ b # 0 -> [s EXCEPT !.node = InBlock(b)]
       [] s.ok /\ b = 0 /\ s.d.bmap = Block -> [s EXCEPT !.ok = FALSE]
       [] OTHER  ->
            [ok |-> TRUE, node |-> InBlock(new),
             d |-> SetPointer(IF zero THEN [marked EXCEPT !.blk[new] = ZeroBlock]
                                      ELSE marked, s.node, j, new)]

(* f[n] of f[0] = base, f[k] = step(f[k - 1], k).                            *)
Repeat(step(_, _), base, n) ==
  LET f[k \in 0 .. n] == IF k = 0 THEN base ELSE LET s == f[k - 1] IN step(s, k)
  IN f[n]

(* The indirect blocks are made on the way to the last pointer of path.    *)
EnsureTrail(s, i, path, zero) ==
  Repeat(LAMBDA t, k : Ensure(t, path[k], zero), [s EXCEPT !.node = InInode(i)], Len(path) - 1)

(* Fault: the new indirect blocks keep what was in them.                   *)
GetOrAllocNotZeroed(s, i, k) ==
  IF k >= MaxBlocks THEN [s EXCEPT !.ok = FALSE]
  ELSE Ensure(EnsureTrail(s, i, Path[k], FALSE), Last(Path[k]), FALSE)

(* get_or_alloc_data_block fails when the file has no block k or the disk  *)
(* no free block.  What was allocated before that stays.                   *)
GetOrAlloc(s, i, k) ==
  IF k >= MaxBlocks THEN [s EXCEPT !.ok = FALSE]
  ELSE Ensure(EnsureTrail(s, i, Path[k], TRUE), Last(Path[k]), FALSE)

Begin(d) == [ok |-> TRUE, d |-> d, node |-> InInode(ROOT)]

(* find_free_inode.                                                        *)
FreeInode(d) == CHOOSE i \in Inode \ d.imap : \A j \in Inode \ d.imap : i <= j

EmptyInode == [size |-> 0, ptr |-> [j \in Top |-> 0]]

(* Blocks m to n of inode i.                                               *)
GetOrAllocAll(s, i, m, n) ==
  LET f[k \in m - 1 .. n] ==
        IF k = m - 1 THEN s
        ELSE LET t == f[k - 1] IN IF t.ok THEN GetOrAlloc(t, i, k) ELSE t
  IN IF m <= n THEN f[n] ELSE s

(* v is written at position pos of inode i.                                *)
Put(s, i, pos, v) ==
  LET t == GetOrAlloc(s, i, pos \div BLKSZ)
  IN CASE ~s.ok -> s
       [] s.ok /\ ~t.ok -> t
       [] OTHER -> [t EXCEPT !.d = SetCell(t.d, i, pos, v)]

(* ... and at positions m to n.                                            *)
PutAll(s, i, m, n, v) ==
  LET f[p \in m - 1 .. n] ==
        IF p = m - 1 THEN s ELSE LET t == f[p - 1] IN Put(t, i, p, v)
  IN IF m <= n THEN f[n] ELSE s

----------------------------------------------------------------------------
(* The root directory.                                                     *)

Entries(d)    == 0 .. d.inode[ROOT].size \div DENSZ - 1
EntryAt(d, j) == CellOf(d, ROOT, j * DENSZ)
Found(d, n)   == {j \in Entries(d) : EntryAt(d, j)[3] = n}

(* add_dentry: nothing is zeroed, and a block is only made for an entry    *)
(* that starts one.                                                        *)
AddDentry(d, i, n) ==
  LET size == d.inode[ROOT].size
      path == Path[size \div BLKSZ]
      s    == EnsureTrail(Begin(d), ROOT, path, FALSE)
      t    == IF size % BLKSZ = 0 THEN Ensure(s, Last(path), FALSE) ELSE s
  IN IF t.ok
       THEN LET longer == [t.d EXCEPT !.inode[ROOT].size = size + DENSZ]
            IN [t EXCEPT !.d = SetCell(longer, ROOT, size, Dentry(i, n))]
       ELSE t

(* Faults: the last entry is dropped, not moved; the size is reduced       *)
(* twice.                                                                  *)
DeleteDentryDropsLast(d, j) == [d EXCEPT !.inode[ROOT].size = @ - DENSZ]
DeleteDentryTwice(d, j) ==
  LET size == d.inode[ROOT].size
      last == EntryAt(d, size \div DENSZ - 1)
  IN [SetCell(d, ROOT, j * DENSZ, last) EXCEPT
        !.inode[ROOT].size = size - 2 * DENSZ]

(* delete_dentry: the last entry takes the place of entry j.               *)
DeleteDentry(d, j) ==
  LET size == d.inode[ROOT].size
      last == EntryAt(d, size \div DENSZ - 1)
  IN [SetCell(d, ROOT, j * DENSZ, last) EXCEPT !.inode[ROOT].size = size - DENSZ]

(* free_data_blocks: the blocks a file of this size needs.                 *)
NeededBlocks(d, i) ==
  UNION {Range(Trail(d, i, k)) : k \in 0 .. Blocks(d.inode[i].size) - 1}

----------------------------------------------------------------------------
(* An image with an empty directory.  Block 0 is in use: a null pointer is *)
(* the number 0.                                                           *)
Init ==
  /\ disk = [imap  |-> {ROOT},
             bmap  |-> {0},
             inode |-> [i \in Inode |-> EmptyInode],
             blk   |-> [b \in Block |-> ZeroBlock]]
  /\ file = [h \in Handle |-> Closed]
  /\ listing = NoListing /\ call = <<>>
  /\ ret = [rc |-> 0, out |-> <<>>]

IsOpen(n) == \E h \in Handle : file[h].name = n
MayOpen   == Cardinality({h \in Handle : file[h] # Closed})
               + (IF listing = NoListing THEN 0 ELSE 1) < MaxOpen

(* ktfs_create.                                                            *)
Create(n) ==
  /\ call' = <<"create", n>>
  /\ Found(disk, n) = {} /\ disk.imap # Inode
  /\ LET i == FreeInode(disk)
         s == AddDentry(SetInodeStatus(disk, i, TRUE), i, n)
     IN /\ s.ok
        /\ disk' = [s.d EXCEPT !.inode[i] = EmptyInode]
  /\ Result(0, <<>>)
  /\ UNCHANGED <<file, listing>>

(* add_dentry has no result: without a block for the entry the call goes on*)
(* and succeeds.  The pointer blocks and the root inode are released as    *)
(* clean: the pointers set before the failure may be lost.                 *)
CreateNoBlock(n) ==
  /\ call' = <<"create", n>>
  /\ Found(disk, n) = {} /\ disk.imap # Inode
  /\ LET i == FreeInode(disk)
         s == AddDentry(SetInodeStatus(disk, i, TRUE), i, n)
     IN /\ ~s.ok
        /\ \E kept \in {disk, s.d} :
             disk' = [s.d EXCEPT !.inode = [kept.inode EXCEPT ![i] = EmptyInode],
                                 !.blk = kept.blk]
  /\ Result(0, <<>>)
  /\ UNCHANGED <<file, listing>>

CreateRefused(n) ==
  /\ call' = <<"create", n>>
  /\ Found(disk, n) # {} \/ disk.imap = Inode
  /\ Result(ERR, <<>>)
  /\ UNCHANGED <<disk, file, listing>>

(* ktfs_delete.  The client does not delete an open file.                  *)
Delete(n) ==
  /\ call' = <<"delete", n>>
  /\ ~IsOpen(n)
  /\ \E j \in Found(disk, n) :
       /\ \A l \in Found(disk, n) : j <= l
       /\ LET i == EntryAt(disk, j)[2]
              d == DeleteDentry(disk, j)
          IN disk' = SetDataBlockStatus(SetInodeStatus(d, i, FALSE), NeededBlocks(d, i), FALSE)
  /\ Result(0, <<>>)
  /\ UNCHANGED <<file, listing>>

(* ktfs_delete and ktfs_open of a name that is not in the directory.       *)
NoEntry(n) ==
  /\ \/ call' = <<"delete", n>>
     \/ \E h \in Handle : file[h] = Closed /\ call' = <<"open", h, n>>
  /\ Found(disk, n) = {}
  /\ Result(ERR, <<>>)
  /\ UNCHANGED <<disk, file, listing>>

(* ktfs_open.                                                              *)
Open(h, n) ==
  /\ call' = <<"open", h, n>>
  /\ file[h] = Closed /\ MayOpen /\ (Exclusive => ~IsOpen(n))
  /\ \E j \in Found(disk, n) :
       /\ \A l \in Found(disk, n) : j <= l
       /\ LET i == EntryAt(disk, j)[2] IN
            file' = [file EXCEPT ![h] = [name |-> n, inode |-> i, pos |-> 0,
                                         fileSize |-> disk.inode[i].size]]
  /\ Result(0, <<>>)
  /\ UNCHANGED <<disk, listing>>

(* ktfs_close.                                                             *)
Close(h) ==
  /\ call' = <<"close", h>>
  /\ file[h] # Closed
  /\ file' = [file EXCEPT ![h] = Closed]
  /\ Result(0, <<>>)
  /\ UNCHANGED <<disk, listing>>

(* ktfs_fetch goes by the size the file had when this handle last saw it.  *)
Fetch(h, len) ==
  /\ call' = <<"fetch", h, len>>
  /\ file[h] # Closed
  /\ LET f == file[h]
         n == IF f.pos >= f.fileSize THEN 0 ELSE Lesser(len, f.fileSize - f.pos)
     IN /\ file' = [file EXCEPT ![h].pos = @ + n]
        /\ Result(n, [k \in 1 .. n |-> CellOf(disk, f.inode, f.pos + k - 1)])
  /\ UNCHANGED <<disk, listing>>

(* ktfs_store past the end of the file: the rest of the last block is      *)
(* zeroed, the blocks up to pos are allocated.                             *)
FillGap(s, i, pos) ==
  LET old  == s.d.inode[i].size
      next == Blocks(old) * BLKSZ
      rest == PutAll(s, i, old, Lesser(pos, next) - 1, Zero)
      t    == GetOrAllocAll(rest, i, Blocks(old), (pos - 1) \div BLKSZ)
  IN IF pos > old /\ t.ok THEN [t EXCEPT !.d.inode[i].size = pos]
     ELSE IF pos > old THEN t ELSE s

(* ... and then len bytes are written at pos.                              *)
Written(f, len) ==
  LET s == PutAll(FillGap(Begin(disk), f.inode, f.pos),
                  f.inode, f.pos, f.pos + len - 1, Data(f.name))
  IN IF s.ok /\ f.pos + len > s.d.inode[f.inode].size
     THEN [s EXCEPT !.d.inode[f.inode].size = f.pos + len] ELSE s

Store(h, len) ==
  /\ call' = <<"store", h, len>>
  /\ file[h] # Closed /\ len > 0
  /\ LET f == file[h]
         s == Written(f, len)
     IN /\ s.ok
        /\ disk' = s.d
        /\ file' = [file EXCEPT ![h].pos = f.pos + len,
                                ![h].fileSize = s.d.inode[f.inode].size]
  /\ Result(len, <<>>)
  /\ UNCHANGED listing

StoreNothing(h) ==
  /\ call' = <<"store", h, 0>>
  /\ file[h] # Closed
  /\ Result(0, <<>>)
  /\ UNCHANGED <<disk, file, listing>>

(* A write that get_or_alloc_data_block refuses a block stops where it is. *)
StoreNoBlock(h, len) ==
  /\ call' = <<"store", h, len>>
  /\ file[h] # Closed /\ len > 0
  /\ LET s == Written(file[h], len) IN ~s.ok /\ disk' = s.d
  /\ Result(ERR, <<>>)
  /\ UNCHANGED <<file, listing>>

(* ktfs_cntl.                                                              *)
GetEnd(h) ==
  /\ call' = <<"getend", h>>
  /\ file[h] # Closed
  /\ Result(file[h].fileSize, <<>>)
  /\ UNCHANGED <<disk, file, listing>>

GetPos(h) ==
  /\ call' = <<"getpos", h>>
  /\ file[h] # Closed
  /\ Result(file[h].pos, <<>>)
  /\ UNCHANGED <<disk, file, listing>>

SetPos(h, pos) ==
  /\ call' = <<"setpos", h, pos>>
  /\ file[h] # Closed
  /\ IF pos <= file[h].fileSize
       THEN file' = [file EXCEPT ![h].pos = pos] /\ Result(0, <<>>)
       ELSE Result(ERR, <<>>) /\ UNCHANGED file
  /\ UNCHANGED <<disk, listing>>

(* FCNTL_SETEND allocates the blocks of a longer file in a copy of the     *)
(* inode; a shorter file keeps its blocks.                                 *)
Resized(h, size) ==
  GetOrAllocAll(Begin(disk), file[h].inode,
                Blocks(disk.inode[file[h].inode].size), Blocks(size) - 1)

(* Fault: the position stays behind the new end.                           *)
SetEndKeepsPos(h, size) ==
  /\ call' = <<"setend", h, size>>
  /\ file[h] # Closed /\ size <= KTFS_MAX_FILE_SIZE
  /\ LET s == Resized(h, size) IN
       s.ok /\ disk' = [s.d EXCEPT !.inode[file[h].inode].size = size]
  /\ file' = [file EXCEPT ![h].fileSize = size]
  /\ Result(0, <<>>)
  /\ UNCHANGED listing

SetEndTooLong(h, size) ==
  /\ call' = <<"setend", h, size>>
  /\ file[h] # Closed /\ size > KTFS_MAX_FILE_SIZE
  /\ Result(ERR, <<>>)
  /\ UNCHANGED <<disk, file, listing>>

SetEnd(h, size) ==
  /\ call' = <<"setend", h, size>>
  /\ file[h] # Closed /\ size <= KTFS_MAX_FILE_SIZE
  /\ LET s == Resized(h, size) IN
       s.ok /\ disk' = [s.d EXCEPT !.inode[file[h].inode].size = size]
  /\ file' = [file EXCEPT ![h].fileSize = size, ![h].pos = Lesser(@, size)]
  /\ Result(0, <<>>)
  /\ UNCHANGED listing

SetEndNoBlock(h, size) ==
  /\ call' = <<"setend", h, size>>
  /\ file[h] # Closed /\ size <= KTFS_MAX_FILE_SIZE
  /\ LET s == Resized(h, size) IN
       ~s.ok /\ disk' = [s.d EXCEPT !.inode = disk.inode]
  /\ Result(ERR, <<>>)
  /\ UNCHANGED <<file, listing>>

(* The directory listing that ktfs_open returns without a name, and        *)
(* ktfs_listing_read.                                                      *)
OpenListing ==
  /\ call' = <<"openlisting">>
  /\ listing = NoListing /\ MayOpen
  /\ listing' = 0
  /\ Result(0, <<>>)
  /\ UNCHANGED <<disk, file>>

ReadListing ==
  /\ call' = <<"readlisting">>
  /\ listing # NoListing
  /\ IF listing \in Entries(disk)
       THEN Result(1, <<EntryAt(disk, listing)[3]>>) /\ listing' = listing + 1
       ELSE Result(0, <<>>) /\ UNCHANGED listing
  /\ UNCHANGED <<disk, file>>

CloseListing ==
  /\ call' = <<"closelisting">>
  /\ listing # NoListing
  /\ listing' = NoListing
  /\ Result(0, <<>>)
  /\ UNCHANGED <<disk, file>>

Next ==
  \/ \E n \in Name : \/ Create(n) \/ CreateNoBlock(n) \/ CreateRefused(n)
                     \/ Delete(n) \/ NoEntry(n)
  \/ \E h \in Handle :
       \/ \E n \in Name : Open(h, n)
       \/ \E len \in Reqs : Fetch(h, len) \/ Store(h, len) \/ StoreNoBlock(h, len)
       \/ \E p \in Ends : \/ SetPos(h, p) \/ SetEnd(h, p)
                         \/ SetEndNoBlock(h, p) \/ SetEndTooLong(h, p)
       \/ StoreNothing(h) \/ Close(h) \/ GetEnd(h) \/ GetPos(h)
  \/ OpenListing \/ ReadListing \/ CloseListing

Spec == Init /\ [][Next]_vars
----------------------------------------------------------------------------
(* Properties.                                                             *)

TypeOK ==
  /\ disk.imap \subseteq Inode /\ disk.bmap \subseteq Block
  /\ disk.inode \in [Inode -> [size : Nat, ptr : [Top -> Block]]]
  /\ disk.blk \in [Block -> [0 .. BLKSZ - 1 -> Cell]]
  /\ file \in [Handle -> [name : Name \cup {"none"}, inode : Inode,
                          fileSize : Nat, pos : Nat]]
  /\ listing \in Nat \cup {NoListing}
  /\ ret.rc \in Int /\ ret.out \in Seq(Cell \cup Name)

(* The pointers of the inodes in use: those in the inode, those in the     *)
(* indirect block, those in the doubly indirect blocks and behind them.    *)
Targets(locs) == {PointerAt(disk, l[1], l[2]) : l \in locs} \ {0}
InBlocks(bs)  == {InBlock(b) : b \in bs} \X (0 .. PTRS - 1)
Pointers(i) ==
  LET top    == {InInode(i)} \X Top
      single == InBlocks(Targets({InInode(i)} \X {NDIRECT}))
      double == InBlocks(Targets({InInode(i)}
                                 \X (NDIRECT + 1 .. NDIRECT + NDINDIRECT)))
  IN top \cup single \cup double \cup InBlocks(Targets(double))

(* No block is used twice: two pointers of files in use never lead to the  *)
(* same block, and the block they lead to is not free and not block 0.     *)
NoSharing ==
  LET live == {l \in UNION {Pointers(i) : i \in disk.imap} :
                 PointerAt(disk, l[1], l[2]) # 0}
  IN /\ Targets(live) \subseteq disk.bmap \ {0}
     /\ Cardinality(Targets(live)) = Cardinality(live)

(* The directory names each file once; its inodes are in use, and none is  *)
(* named twice or is the directory's own.                                  *)
DirectoryConsistent ==
  \A j \in Entries(disk) :
    /\ EntryAt(disk, j)[2] \in disk.imap \ {ROOT}
    /\ \A l \in Entries(disk) :
         (\E part \in {2, 3} : EntryAt(disk, l)[part] = EntryAt(disk, j)[part])
           => l = j

(* The cells of file n, <<>> if there is none.                             *)
ContentOf(n) ==
  IF Found(disk, n) = {} THEN <<>>
  ELSE LET i == EntryAt(disk, CHOOSE j \in Found(disk, n) : TRUE)[2]
       IN [k \in 1 .. disk.inode[i].size |-> CellOf(disk, i, k - 1)]

(* What the client sees of the state.                                      *)
Listed    == [k \in 1 .. Cardinality(Entries(disk)) |-> EntryAt(disk, k - 1)[3]]
Contents  == [n \in Name |-> ContentOf(n)]
OpenFiles == [h \in Handle |-> [name |-> file[h].name, pos |-> file[h].pos]]
Full      == disk.bmap = Block \/ disk.imap = Inode

Abstract == INSTANCE Files WITH
  dir <- Listed, content <- Contents, file <- OpenFiles, full <- Full,
  Reqs <- Reqs \cup {0}, MaxSize <- KTFS_MAX_FILE_SIZE

(* A client that has each file open once and does not delete open files    *)
(* sees a directory of files: what it writes is what it reads, in the file *)
(* it wrote to, whatever blocks are freed, reused, shared with the         *)
(* directory or left behind by a shrunk file; a call fails only on a full  *)
(* disk and then leaves every other file alone.                            *)
FilesSpec == Abstract!Spec
=============================================================================
