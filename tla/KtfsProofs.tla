----------------------------- MODULE KtfsProofs -----------------------------
(***************************************************************************)
(* Proofs about Ktfs: on a disk of any size whose directory fits into      *)
(* direct blocks, the directory names each file and inode once, and no two *)
(* pointers of files in use lead to the same block; a client that has each *)
(* file open once sees a directory of files (FilesSpec).                   *)
(*                                                                         *)
(* The invariant looks at the image of the disk as a forest, one tree of   *)
(* pointers for each inode in use: every pointer leads to a marked block,  *)
(* no two to the same one, and a file has all blocks its size needs.  A    *)
(* call changes the disk in small steps (Ensure a pointer, Put a cell, set *)
(* the size), and each keeps the forest, also those of a call that stops   *)
(* half-way because the disk is full.  The directory is the file of the    *)
(* root inode, so what it says depends on the same forest: its cells stay  *)
(* what they are when another file is written because no block is shared.  *)
(*                                                                         *)
(* What the client sees follows from it: the cells of a file change only   *)
(* where a call writes them, a call that stops half-way found every block  *)
(* marked, and a handle that is the only one of its file knows its size.   *)
(***************************************************************************)
EXTENDS Ktfs, FiniteSetTheorems, TLAPS

(* The directory fits into the direct blocks of its inode.  Beyond them    *)
(* add_dentry takes an indirect block that it does not clear (ktfs.c:536). *)
DirFits == (NINO - 1) * DENSZ <= NDIRECT * BLKSZ

(* A place is where the inode's tree has a pointer: an entry of the inode, *)
(* of a block below it, or of a block below that; -1 stands for no further *)
(* step.  A leaf is the place of a block of data.                          *)
Slot  == -1 .. PTRS - 1
Place == {q \in Top \X Slot \X Slot :
            /\ q[2] # -1 => q[1] >= NDIRECT
            /\ q[3] # -1 => q[2] # -1 /\ q[1] > NDIRECT}
Leaf(q) == \/ q[1] < NDIRECT
           \/ q[1] = NDIRECT /\ q[2] # -1
           \/ q[3] # -1
PlaceOf(k) ==
  LET p == Path[k]
  IN <<p[1], IF Len(p) > 1 THEN p[2] ELSE -1, IF Len(p) > 2 THEN p[3] ELSE -1>>

Up(q)    == IF q[3] # -1 THEN <<q[1], q[2], -1>> ELSE <<q[1], -1, -1>>
Index(q) == IF q[3] # -1 THEN q[3] ELSE IF q[2] # -1 THEN q[2] ELSE q[1]

(* The pointer at place q of inode i, 0 if it or one before it is null.    *)
At(d, i, q) ==
  LET first  == d.inode[i].ptr[q[1]]
      second == Target(d.blk[first][q[2]])
  IN CASE q[2] = -1             -> first
       [] q[2] # -1 /\ q[3] = -1 -> second
       [] OTHER                 -> Target(d.blk[second][q[3]])

Node  == [size : Nat, ptr : [Top -> Block]]
Cells == 0 .. BLKSZ - 1
Disk  == [imap : SUBSET Inode, bmap : SUBSET Block, inode : [Inode -> Node],
          blk : [Block -> [Cells -> Cell]]]

(* The trees of the inodes of I: their pointers lead to marked blocks, no  *)
(* two of them to the same one, and a file has the blocks its size needs.  *)
Marked(d, I) == \A i \in I : \A q \in Place : At(d, i, q) \in d.bmap
Apart(d, I) ==
  \A i, k \in I : \A q, r \in Place :
    At(d, i, q) = At(d, k, r) /\ At(d, i, q) # 0 => i = k /\ q = r
HasBlocks(d, i, size) ==
  /\ size <= KTFS_MAX_FILE_SIZE
  /\ \A k \in 0 .. Blocks(size) - 1 : At(d, i, PlaceOf(k)) # 0
Sized(d, I) == \A i \in I : HasBlocks(d, i, d.inode[i].size)
Forest(d, I) ==
  /\ d \in Disk /\ I \subseteq Inode
  /\ 0 \in d.bmap /\ d.blk[0] = ZeroBlock
  /\ Marked(d, I) /\ Apart(d, I)

DirOK(d) ==
  LET size == d.inode[ROOT].size
  IN /\ ROOT \in d.imap
     /\ size % DENSZ = 0 /\ size <= (NINO - 1) * DENSZ
     /\ \A j \in Entries(d) : \E i \in d.imap \ {ROOT}, n \in Name : EntryAt(d, j) = Dentry(i, n)
     /\ \A j, l \in Entries(d) :
          EntryAt(d, j)[2] = EntryAt(d, l)[2] \/ EntryAt(d, j)[3] = EntryAt(d, l)[3] => j = l

HandleOK(f, d) ==
  f # Closed =>
    /\ f.fileSize <= KTFS_MAX_FILE_SIZE
    /\ \E j \in Entries(d) : EntryAt(d, j) = Dentry(f.inode, f.name)

ImageOK(d) == Forest(d, d.imap) /\ Sized(d, d.imap) /\ DirOK(d)

KtfsInv ==
  /\ ImageOK(disk)
  /\ file \in [Handle -> [name : Name \cup {"none"}, inode : Inode,
                          fileSize : Nat, pos : Nat]]
  /\ listing \in Nat \cup {NoListing}
  /\ ret.rc \in Int /\ ret.out \in Seq(Cell \cup Name)
  /\ \A h \in Handle : HandleOK(file[h], disk)
----------------------------------------------------------------------------
(* Arithmetic.                                                             *)

LEMMA LeastOf ==
  ASSUME NEW T \in SUBSET Nat, T # {}
  PROVE  \E m \in T : \A k \in T : m <= k
<1> DEFINE R == OpToRel(<, Nat)
<1>1. \A x, y \in Nat : x < y => <<x, y>> \in R
  BY DEF OpToRel
<1>2. IsWellFoundedOn(R, Nat)
  BY NatLessThanWellFounded, Zenon
<1> HIDE DEF R
<1>3. PICK m \in T : \A y \in T : ~ (<<y, m>> \in R)
  BY <1>2, WFMin, Zenon
<1>4. \A y \in T : ~ (y < m)
  BY <1>1, <1>3, Zenon
<1> QED BY <1>3, <1>4

(* A set of numbers that holds m and with each number below n the next one *)
(* holds all of m to n.                                                    *)
LEMMA Counting ==
  ASSUME NEW m \in Int, NEW n \in Int, NEW S, m \in S,
         \A k \in m .. n - 1 : k \in S => k + 1 \in S
  PROVE  m .. n \subseteq S
<1> DEFINE T == {k \in Nat : m + k <= n /\ m + k \notin S}
<1>1. SUFFICES ASSUME T # {}
               PROVE  FALSE
  <2>1. SUFFICES ASSUME NEW k \in m .. n
                 PROVE  k \in S
    OBVIOUS
  <2>2. k - m \in Nat /\ m + (k - m) = k /\ m + (k - m) <= n
    OBVIOUS
  <2>3. k - m \notin T
    BY <1>1, Zenon
  <2> QED BY <2>2, <2>3
<1>2. PICK k \in T : \A l \in T : k <= l
  <2>1. T \subseteq Nat
    OBVIOUS
  <2> QED BY <1>1, <2>1, LeastOf, Zenon
<1>3. k \in Nat \ {0} /\ m + k <= n /\ m + k \notin S
  BY <1>2
<1>4. k - 1 \in Nat /\ m + (k - 1) \in m .. n - 1 /\ (m + (k - 1)) + 1 = m + k
  BY <1>3
<1>5. k - 1 \notin T
  BY <1>2, <1>4
<1>6. m + (k - 1) \in S
  BY <1>4, <1>5
<1> QED BY <1>3, <1>4, <1>6

LEMMA Division ==
  ASSUME NEW a \in Nat, NEW b \in Nat \ {0}
  PROVE  /\ a \div b \in Nat /\ a % b \in 0 .. b - 1
         /\ a = b * (a \div b) + (a % b)
<1>1. a \div b \in Nat /\ a % b \in 0 .. b - 1
  OBVIOUS
<1>2. a % b = a - b * (a \div b)
  BY Z3
<1> QED BY <1>1, <1>2

LEMMA DivisionUnique ==
  ASSUME NEW b \in Nat \ {0}, NEW k \in Nat, NEW r \in 0 .. b - 1
  PROVE  /\ (b * k + r) \div b = k
         /\ (b * k + r) % b = r
  OBVIOUS

LEMMA Monotone ==
  ASSUME NEW b \in Nat, NEW k \in Nat, NEW l \in Nat, k <= l
  PROVE  /\ b * k <= b * l /\ b * k \in Nat
         /\ k < l => b * k + b <= b * l
  OBVIOUS
----------------------------------------------------------------------------
(* Cells and places.                                                       *)

LEMMA Sizes ==
  /\ NINO \in Nat \ {0, 1} /\ NBLK \in Nat \ {0, 1} /\ BLKSZ \in Nat \ {0}
  /\ PTRS \in Nat \ {0} /\ PTRS <= BLKSZ /\ DENSZ \in Nat \ {0} /\ DENSZ <= BLKSZ
  /\ NDIRECT \in Nat \ {0} /\ NDINDIRECT \in Nat
  /\ MaxBlocks \in Nat \ {0} /\ KTFS_MAX_FILE_SIZE \in Nat
  /\ ROOT \in Inode /\ 0 \in Block
<1>1. /\ NBLK \in Nat \ {0, 1} /\ BLKSZ \in Nat \ {0}
      /\ PTRS \in Nat \ {0} /\ PTRS <= BLKSZ /\ DENSZ \in Nat \ {0} /\ DENSZ <= BLKSZ
      /\ NDIRECT \in Nat \ {0} /\ NDINDIRECT \in Nat
  BY KtfsAssumption
<1>2. PTRS * PTRS \in Nat
  BY <1>1
<1>3. NDINDIRECT * PTRS * PTRS \in Nat
  BY <1>1
<1>4. MaxBlocks \in Nat \ {0}
  BY <1>1, <1>3 DEF MaxBlocks
<1>5. KTFS_MAX_FILE_SIZE \in Nat
  BY <1>1, <1>4 DEF KTFS_MAX_FILE_SIZE
<1>6. KTFS_MAX_FILE_SIZE \div DENSZ \in Nat
  BY <1>1, <1>5
<1>7. NINO \in Nat \ {0, 1}
  BY <1>6, KtfsAssumption
<1> QED BY <1>1, <1>4, <1>5, <1>7 DEF ROOT, Inode, Block

LEMMA CellTypes ==
  /\ Zero \in Cell /\ \A n \in Name : Data(n) \in Cell
  /\ \A b \in Block : Pointer(b) \in Cell
  /\ \A i \in Inode, n \in Name : Dentry(i, n) \in Cell
  /\ ZeroBlock \in [Cells -> Cell]
<1>1. Zero \in Cell
  BY DEF Cell
<1> QED BY <1>1 DEF Cell, ZeroBlock, Cells

LEMMA Targets1 ==
  /\ \A c \in Cell : Target(c) \in Block
  /\ \A b \in Block : Target(Pointer(b)) = b
  /\ Target(Zero) = 0
<1>1. Target(Zero) = 0
  BY DEF Target, Zero
<1>2. ASSUME NEW b \in Block PROVE Target(Pointer(b)) = b
  BY DEF Target, Pointer, Zero
<1>3. ASSUME NEW n \in Name PROVE Target(Data(n)) = 0
  BY DEF Target, Data
<1>4. ASSUME NEW i \in Inode, NEW n \in Name PROVE Target(Dentry(i, n)) = 0
  BY DEF Target, Dentry
<1>5. 0 \in Block
  BY Sizes
<1> HIDE DEF Target
<1>6. \A c \in Cell : Target(c) \in Block
  BY <1>1, <1>2, <1>3, <1>4, <1>5 DEF Cell
<1> QED BY <1>1, <1>2, <1>6

LEMMA DentryFields ==
  \A i \in Inode, n \in Name : Dentry(i, n)[2] = i /\ Dentry(i, n)[3] = n
BY DEF Dentry

LEMMA TopSlots ==
  /\ Top \subseteq Nat /\ 0 .. PTRS - 1 \subseteq Cells
  /\ NDIRECT \in Top
  /\ \A k \in 0 .. NDIRECT - 1 : k \in Top
BY Sizes DEF Top, Cells

LEMMA PlaceShape ==
  ASSUME NEW q \in Place
  PROVE  /\ q = <<q[1], q[2], q[3]>> /\ q[1] \in Top /\ q[2] \in Slot /\ q[3] \in Slot
         /\ Index(q) \in Nat
         /\ q[2] = -1 => q[3] = -1 /\ Index(q) = q[1]
         /\ q[2] # -1 => /\ Index(q) \in 0 .. PTRS - 1
                         /\ Up(q) \in Place /\ ~Leaf(Up(q)) /\ Up(q) # q
                         /\ Up(q)[2] # -1 => Up(Up(q))[2] = -1
<1>1. /\ q = <<q[1], q[2], q[3]>> /\ q[1] \in Top /\ q[2] \in Slot /\ q[3] \in Slot
      /\ q[2] # -1 => q[1] >= NDIRECT
      /\ q[3] # -1 => q[2] # -1 /\ q[1] > NDIRECT
  BY DEF Place
<1>2. q[2] = -1 => q[3] = -1 /\ Index(q) = q[1]
  BY <1>1 DEF Index
<1>3. ASSUME q[2] # -1, q[3] = -1
      PROVE  /\ Index(q) \in 0 .. PTRS - 1
             /\ Up(q) \in Place /\ ~Leaf(Up(q)) /\ Up(q) # q
             /\ Up(q)[2] # -1 => Up(Up(q))[2] = -1
  <2>1. Up(q) = <<q[1], -1, -1>> /\ Index(q) = q[2]
    BY <1>3 DEF Up, Index
  <2>2. q[2] \in 0 .. PTRS - 1 /\ q[1] \in Nat /\ -1 \in Slot
    BY <1>1, <1>3, Sizes, TopSlots DEF Slot
  <2>3. Up(q) \in Place
    BY <1>1, <1>3, <2>1, <2>2, Sizes DEF Place
  <2>4. ~Leaf(Up(q)) /\ Up(q) # q
    BY <1>1, <1>3, <2>1, <2>2, Sizes DEF Leaf
  <2> QED BY <2>1, <2>2, <2>3, <2>4
<1>4. ASSUME q[2] # -1, q[3] # -1
      PROVE  /\ Index(q) \in 0 .. PTRS - 1
             /\ Up(q) \in Place /\ ~Leaf(Up(q)) /\ Up(q) # q
             /\ Up(q)[2] # -1 => Up(Up(q))[2] = -1
  <2>1. Up(q) = <<q[1], q[2], -1>> /\ Index(q) = q[3]
    BY <1>4 DEF Up, Index
  <2>2. /\ q[2] \in 0 .. PTRS - 1 /\ q[3] \in 0 .. PTRS - 1
        /\ q[1] \in Nat /\ -1 \in Slot
    BY <1>1, <1>4, Sizes, TopSlots DEF Slot
  <2>3. Up(q) \in Place
    BY <1>1, <1>4, <2>1, <2>2, Sizes DEF Place
  <2>4. ~Leaf(Up(q)) /\ Up(q) # q
    BY <1>1, <1>4, <2>1, <2>2, Sizes DEF Leaf
  <2>5. Up(Up(q)) = <<q[1], -1, -1>>
    BY <2>1 DEF Up
  <2> QED BY <2>1, <2>2, <2>3, <2>4, <2>5
<1> QED BY <1>1, <1>2, <1>3, <1>4, TopSlots

(* A place is known by the place above it and its index.                   *)
LEMMA PlaceEqual ==
  ASSUME NEW q \in Place, NEW r \in Place, Index(q) = Index(r)
  PROVE  /\ q[2] = -1 /\ r[2] = -1 => q = r
         /\ q[2] # -1 /\ r[2] # -1 /\ Up(q) = Up(r) => q = r
<1>1. /\ q = <<q[1], q[2], q[3]>> /\ q[2] \in Int /\ q[3] \in Int
      /\ r = <<r[1], r[2], r[3]>> /\ r[2] \in Int /\ r[3] \in Int
  BY PlaceShape, Sizes DEF Slot
<1>2. q[2] = -1 /\ r[2] = -1 => q = r
  BY <1>1, PlaceShape
<1>3. ASSUME q[2] # -1, r[2] # -1, Up(q) = Up(r)
      PROVE  q = r
  BY <1>1, <1>3 DEF Up, Index
<1> QED BY <1>2, <1>3

LEMMA AtTop ==
  ASSUME NEW d, NEW i, NEW q \in Place, q[2] = -1
  PROVE  At(d, i, q) = d.inode[i].ptr[Index(q)]
BY PlaceShape DEF At

LEMMA AtBelow ==
  ASSUME NEW d, NEW i, NEW q \in Place, q[2] # -1
  PROVE  At(d, i, q) = Target(d.blk[At(d, i, Up(q))][Index(q)])
<1>1. CASE q[3] = -1
  <2>1. Up(q) = <<q[1], -1, -1>> /\ Index(q) = q[2]
    BY <1>1 DEF Up, Index
  <2>2. At(d, i, Up(q)) = d.inode[i].ptr[q[1]]
    BY <2>1 DEF At
  <2> QED BY <1>1, <2>1, <2>2 DEF At
<1>2. CASE q[3] # -1
  <2>1. Up(q) = <<q[1], q[2], -1>> /\ Index(q) = q[3]
    BY <1>2 DEF Up, Index
  <2>2. At(d, i, Up(q)) = Target(d.blk[d.inode[i].ptr[q[1]]][q[2]])
    BY <2>1 DEF At
  <2> QED BY <1>2, <2>1, <2>2 DEF At
<1> QED BY <1>1, <1>2
----------------------------------------------------------------------------
(* The trees of the inodes.                                                *)

(* What holds of the pointers in the inodes, and of a pointer when it does *)
(* of the one above it, holds of all.                                      *)
LEMMA Descent ==
  ASSUME NEW S,
         \A q \in Place : q[2] = -1 => q \in S,
         \A q \in Place : q[2] # -1 /\ Up(q) \in S => q \in S
  PROVE  Place \subseteq S
<1>1. SUFFICES ASSUME NEW q \in Place
               PROVE  q \in S
  OBVIOUS
<1>2. CASE q[2] = -1
  BY <1>2
<1>3. CASE q[2] # -1 /\ Up(q)[2] = -1
  BY <1>3, PlaceShape
<1>4. CASE q[2] # -1 /\ Up(q)[2] # -1
  <2>1. Up(q) \in Place /\ Up(Up(q)) \in Place /\ Up(Up(q))[2] = -1
    BY <1>4, PlaceShape
  <2>2. Up(q) \in S
    BY <1>4, <2>1
  <2> QED BY <1>4, <2>2
<1> QED BY <1>2, <1>3, <1>4

LEMMA AtType ==
  ASSUME NEW d \in Disk, NEW i \in Inode
  PROVE  \A q \in Place : At(d, i, q) \in Block
<1> DEFINE S == {q \in Place : At(d, i, q) \in Block}
<1>1. ASSUME NEW q \in Place, q[2] = -1
      PROVE  q \in S
  <2>1. d.inode[i].ptr \in [Top -> Block] /\ Index(q) \in Top
    BY <1>1, PlaceShape DEF Disk, Node
  <2> QED BY <1>1, <2>1, AtTop
<1>2. ASSUME NEW q \in Place, q[2] # -1, Up(q) \in S
      PROVE  q \in S
  <2>1. d.blk[At(d, i, Up(q))] \in [Cells -> Cell] /\ Index(q) \in Cells
    BY <1>2, PlaceShape, TopSlots DEF Disk
  <2>2. d.blk[At(d, i, Up(q))][Index(q)] \in Cell
    BY <2>1
  <2> QED BY <1>2, <2>2, AtBelow, Targets1
<1> HIDE DEF S
<1>3. Place \subseteq S
  BY <1>1, <1>2, Descent
<1> QED BY <1>3 DEF S

(* The inode or block that has the pointer at place q.                     *)
NodeOf(d, i, q) == IF q[2] = -1 THEN InInode(i) ELSE InBlock(At(d, i, Up(q)))

LEMMA PointerIs ==
  ASSUME NEW d, NEW i, NEW q \in Place
  PROVE  PointerAt(d, NodeOf(d, i, q), Index(q)) = At(d, i, q)
<1>1. CASE q[2] = -1
  BY <1>1, AtTop DEF PointerAt, NodeOf, InInode
<1>2. CASE q[2] # -1
  BY <1>2, AtBelow DEF PointerAt, NodeOf, InBlock
<1> QED BY <1>1, <1>2

(* The image with block b for the null pointer at place q of inode i.      *)
Allocated(d, i, q, b, zero) ==
  LET marked == SetDataBlockStatus(d, {b}, TRUE)
  IN SetPointer(IF zero THEN [marked EXCEPT !.blk[b] = ZeroBlock] ELSE marked,
                NodeOf(d, i, q), Index(q), b)

LEMMA AllocatedIs ==
  ASSUME NEW d \in Disk, NEW i \in Inode, NEW q \in Place, NEW b \in Block,
         NEW zero \in BOOLEAN, q[2] # -1 => At(d, i, Up(q)) # b
  PROVE  LET e == Allocated(d, i, q, b, zero)
             h == At(d, i, Up(q))
         IN /\ e \in Disk /\ e.imap = d.imap /\ e.bmap = d.bmap \cup {b}
            /\ \A k \in Inode : /\ e.inode[k].size = d.inode[k].size
                                /\ k # i => e.inode[k] = d.inode[k]
            /\ q[2] # -1 => e.inode = d.inode
            /\ \A j \in Top : q[2] = -1 =>
                 e.inode[i].ptr[j] = IF j = Index(q) THEN b ELSE d.inode[i].ptr[j]
            /\ \A c \in Block : c # b /\ (q[2] # -1 => c # h) => e.blk[c] = d.blk[c]
            /\ \A j \in Cells : q[2] # -1 =>
                 e.blk[h][j] = IF j = Index(q) THEN Pointer(b) ELSE d.blk[h][j]
            /\ zero => e.blk[b] = ZeroBlock
<1> DEFINE e == Allocated(d, i, q, b, zero)
           h == At(d, i, Up(q))
           m == [imap |-> d.imap, bmap |-> d.bmap \cup {b}, inode |-> d.inode, blk |-> d.blk]
           z == IF zero THEN [d.blk EXCEPT ![b] = ZeroBlock] ELSE d.blk
           w == [imap |-> d.imap, bmap |-> d.bmap \cup {b}, inode |-> d.inode, blk |-> z]
<1>1. SetDataBlockStatus(d, {b}, TRUE) = m
  <2>1. SetDataBlockStatus(d, {b}, TRUE) = [d EXCEPT !.bmap = d.bmap \cup {b}]
    BY DEF SetDataBlockStatus
  <2> QED BY <2>1, Zenon DEF Disk
<1>2. (IF zero THEN [m EXCEPT !.blk[b] = ZeroBlock] ELSE m) = w
  OBVIOUS
<1>3. /\ z \in [Block -> [Cells -> Cell]]
      /\ \A c \in Block : c # b => z[c] = d.blk[c]
      /\ zero => z[b] = ZeroBlock
  BY CellTypes DEF Disk
<1>4. e = SetPointer(w, NodeOf(d, i, q), Index(q), b)
  BY <1>1, <1>2, Zenon DEF Allocated
<1> HIDE DEF z, m
<1>5. CASE q[2] = -1
  <2> DEFINE n == [d.inode EXCEPT ![i].ptr[Index(q)] = b]
  <2>1. e = [imap |-> d.imap, bmap |-> d.bmap \cup {b}, inode |-> n, blk |-> z]
    BY <1>4, <1>5, Zenon DEF SetPointer, NodeOf, InInode
  <2>2. Index(q) \in Top
    BY <1>5, PlaceShape
  <2>3. /\ n \in [Inode -> Node]
        /\ \A k \in Inode : n[k].size = d.inode[k].size /\ (k # i => n[k] = d.inode[k])
        /\ \A j \in Top : n[i].ptr[j] = IF j = Index(q) THEN b ELSE d.inode[i].ptr[j]
    BY <2>2, Zenon DEF Disk, Node
  <2>4. e \in Disk
    BY <1>3, <2>1, <2>3 DEF Disk
  <2> HIDE DEF n
  <2> QED BY <1>3, <1>5, <2>1, <2>3, <2>4
<1>6. CASE q[2] # -1
  <2> DEFINE y == [z EXCEPT ![h][Index(q)] = Pointer(b)]
  <2>1. e = [imap |-> d.imap, bmap |-> d.bmap \cup {b}, inode |-> d.inode, blk |-> y]
    BY <1>4, <1>6, Zenon DEF SetPointer, NodeOf, InBlock
  <2>2. Index(q) \in Cells /\ h \in Block
    BY <1>6, PlaceShape, TopSlots, AtType
  <2>3. /\ y \in [Block -> [Cells -> Cell]]
        /\ \A c \in Block : c # h => y[c] = z[c]
        /\ \A j \in Cells : y[h][j] = IF j = Index(q) THEN Pointer(b) ELSE z[h][j]
    BY <1>3, <2>2, CellTypes
  <2>4. e \in Disk
    BY <1>3, <2>1, <2>3 DEF Disk
  <2> HIDE DEF y
  <2> QED BY <1>3, <1>6, <2>1, <2>2, <2>3, <2>4
<1> QED BY <1>5, <1>6
----------------------------------------------------------------------------
(* Allocation.                                                             *)

(* A new block at one place changes no other place: what is below it is    *)
(* null, since an indirect block is zeroed.                                *)
LEMMA AllocatedAt ==
  ASSUME NEW d, NEW I, Forest(d, I), NEW i \in I, NEW q \in Place, At(d, i, q) = 0,
         q[2] # -1 => At(d, i, Up(q)) # 0,
         NEW b \in Block \ d.bmap, NEW zero \in BOOLEAN, zero \/ Leaf(q)
  PROVE  \A k \in I : \A r \in Place :
           At(Allocated(d, i, q, b, zero), k, r) =
             IF k = i /\ r = q THEN b ELSE At(d, k, r)
<1> DEFINE e == Allocated(d, i, q, b, zero)
           h == At(d, i, Up(q))
           S(k) == {r \in Place : At(e, k, r) = IF k = i /\ r = q THEN b ELSE At(d, k, r)}
<1>1. /\ d \in Disk /\ I \subseteq Inode /\ i \in Inode /\ 0 \in d.bmap /\ b # 0
      /\ d.blk[0] = ZeroBlock
      /\ \A k \in I : \A r \in Place : At(d, k, r) \in d.bmap /\ At(d, k, r) \in Block
  BY AtType DEF Forest, Marked
<1>2. q[2] # -1 => Up(q) \in Place /\ h \in d.bmap /\ h \in Block /\ h # b
  BY <1>1, PlaceShape
<1>3. /\ \A k \in Inode : k # i => e.inode[k] = d.inode[k]
      /\ q[2] # -1 => e.inode = d.inode
      /\ \A j \in Top : q[2] = -1 =>
           e.inode[i].ptr[j] = IF j = Index(q) THEN b ELSE d.inode[i].ptr[j]
      /\ \A c \in Block : c # b /\ (q[2] # -1 => c # h) => e.blk[c] = d.blk[c]
      /\ \A j \in Cells : q[2] # -1 =>
           e.blk[h][j] = IF j = Index(q) THEN Pointer(b) ELSE d.blk[h][j]
      /\ zero => e.blk[b] = ZeroBlock
  BY <1>1, <1>2, AllocatedIs
<1> HIDE DEF e
<1>4. SUFFICES ASSUME NEW k \in I
               PROVE  Place \subseteq S(k)
  BY DEF e
<1>5. ASSUME NEW r \in Place, r[2] = -1
      PROVE  r \in S(k)
  <2>1. /\ At(e, k, r) = e.inode[k].ptr[Index(r)]
        /\ At(d, k, r) = d.inode[k].ptr[Index(r)]
        /\ Index(r) \in Top
    BY <1>5, AtTop, PlaceShape
  <2>2. CASE k # i
    BY <1>1, <1>3, <2>1, <2>2
  <2>3. CASE k = i /\ q[2] # -1
    BY <1>3, <1>5, <2>1, <2>3
  <2>4. CASE k = i /\ q[2] = -1
    <3>1. At(e, k, r) = IF Index(r) = Index(q) THEN b ELSE At(d, k, r)
      BY <1>3, <2>1, <2>4
    <3>2. Index(r) = Index(q) <=> r = q
      BY <1>5, <2>4, PlaceEqual
    <3> QED BY <2>4, <3>1, <3>2
  <2> QED BY <2>2, <2>3, <2>4
<1>6. ASSUME NEW r \in Place, r[2] # -1, Up(r) \in S(k)
      PROVE  r \in S(k)
  <2>1. /\ At(e, k, r) = Target(e.blk[At(e, k, Up(r))][Index(r)])
        /\ At(d, k, r) = Target(d.blk[At(d, k, Up(r))][Index(r)])
        /\ Index(r) \in 0 .. PTRS - 1 /\ Index(r) \in Cells
        /\ Up(r) \in Place /\ ~Leaf(Up(r)) /\ Up(r) # r
    BY <1>6, AtBelow, PlaceShape, TopSlots
  <2>2. CASE k = i /\ Up(r) = q
    <3>1. At(e, k, Up(r)) = b /\ zero
      BY <1>6, <2>1, <2>2
    <3>2. At(e, k, r) = 0
      BY <1>3, <2>1, <3>1, Targets1, Zenon DEF ZeroBlock, Cells
    <3>3. At(d, k, r) = 0
      BY <1>1, <2>1, <2>2, Targets1, Zenon DEF ZeroBlock, Cells
    <3> QED BY <2>1, <2>2, <3>2, <3>3
  <2>3. CASE ~(k = i /\ Up(r) = q)
    <3>1. /\ At(e, k, Up(r)) = At(d, k, Up(r))
          /\ At(d, k, Up(r)) \in d.bmap /\ At(d, k, Up(r)) \in Block
          /\ At(d, k, Up(r)) # b
      BY <1>1, <1>6, <2>1, <2>3
    <3>2. CASE q[2] # -1 /\ At(d, k, Up(r)) = h
      <4>1. k = i /\ Up(r) = Up(q)
        BY <1>2, <2>1, <3>2 DEF Forest, Apart
      <4>2. Index(r) = Index(q) <=> r = q
        BY <1>6, <3>2, <4>1, PlaceEqual
      <4>3. e.blk[h][Index(r)] =
              IF Index(r) = Index(q) THEN Pointer(b) ELSE d.blk[h][Index(r)]
        BY <1>3, <2>1, <3>2
      <4> QED BY <2>1, <3>1, <3>2, <4>1, <4>2, <4>3, Targets1
    <3>3. CASE ~(q[2] # -1 /\ At(d, k, Up(r)) = h)
      <4>1. e.blk[At(d, k, Up(r))] = d.blk[At(d, k, Up(r))]
        BY <1>3, <3>1, <3>3
      <4>2. ~(k = i /\ r = q)
        BY <1>6, <3>3
      <4> QED BY <2>1, <3>1, <4>1, <4>2
    <3> QED BY <3>2, <3>3
  <2> QED BY <2>2, <2>3
<1> QED BY <1>5, <1>6, Descent, Zenon

(* What a call that takes blocks for inode i leaves as it was: the other   *)
(* inodes, every block that was there and the data of the files of J.      *)
Keeps(d, e, I, i, J) ==
  /\ e.imap = d.imap /\ d.bmap \subseteq e.bmap
  /\ \A k \in Inode : k # i => e.inode[k] = d.inode[k]
  /\ \A k \in I : \A r \in Place : At(d, k, r) # 0 => At(e, k, r) = At(d, k, r)
  /\ \A k \in J : \A r \in Place :
       Leaf(r) /\ At(d, k, r) # 0 => e.blk[At(d, k, r)] = d.blk[At(d, k, r)]

(* ... and the size of the file.                                           *)
Grows(d, e, I, i, J) ==
  Keeps(d, e, I, i, J) /\ \A k \in Inode : e.inode[k].size = d.inode[k].size

LEMMA KeepsNot ==
  ASSUME NEW d, NEW I, NEW i, NEW J
  PROVE  Keeps(d, d, I, i, J)
BY DEF Keeps

LEMMA KeepsTwice ==
  ASSUME NEW d, NEW e, NEW f, NEW I, NEW i, NEW J \in SUBSET I,
         Keeps(d, e, I, i, J), Keeps(e, f, I, i, J)
  PROVE  Keeps(d, f, I, i, J)
<1>1. /\ f.imap = d.imap /\ d.bmap \subseteq f.bmap
      /\ \A k \in Inode : k # i => f.inode[k] = d.inode[k]
  BY DEF Keeps
<1>2. \A k \in I : \A r \in Place : At(d, k, r) # 0 => At(f, k, r) = At(d, k, r)
  BY DEF Keeps
<1>3. ASSUME NEW k \in J, NEW r \in Place, Leaf(r), At(d, k, r) # 0
      PROVE  f.blk[At(d, k, r)] = d.blk[At(d, k, r)]
  <2>1. At(e, k, r) = At(d, k, r)
    BY <1>3 DEF Keeps
  <2> QED BY <1>3, <2>1 DEF Keeps
<1> QED BY <1>1, <1>2, <1>3 DEF Keeps

LEMMA GrowsNot ==
  ASSUME NEW d, NEW I, NEW i, NEW J
  PROVE  Grows(d, d, I, i, J)
BY KeepsNot DEF Grows

LEMMA GrowsTwice ==
  ASSUME NEW d, NEW e, NEW f, NEW I, NEW i, NEW J \in SUBSET I,
         Grows(d, e, I, i, J), Grows(e, f, I, i, J)
  PROVE  Grows(d, f, I, i, J)
<1>1. Keeps(d, f, I, i, J)
  BY KeepsTwice DEF Grows
<1>2. \A k \in Inode : f.inode[k].size = d.inode[k].size
  BY DEF Grows
<1> QED BY <1>1, <1>2 DEF Grows

LEMMA GrowsLess ==
  ASSUME NEW d, NEW e, NEW I, NEW i, NEW J, NEW K \in SUBSET J, Grows(d, e, I, i, J)
  PROVE  Grows(d, e, I, i, K)
BY DEF Grows, Keeps

LEMMA AllocatedForest ==
  ASSUME NEW d, NEW I, Forest(d, I), NEW i \in I, NEW q \in Place, At(d, i, q) = 0,
         q[2] # -1 => At(d, i, Up(q)) # 0,
         NEW b \in Block \ d.bmap, NEW zero \in BOOLEAN, zero \/ Leaf(q)
  PROVE  LET e == Allocated(d, i, q, b, zero)
         IN Forest(e, I) /\ Grows(d, e, I, i, I) /\ At(e, i, q) = b /\ b # 0
<1> DEFINE e == Allocated(d, i, q, b, zero)
           h == At(d, i, Up(q))
<1>1. /\ d \in Disk /\ I \subseteq Inode /\ i \in Inode /\ 0 \in d.bmap /\ b # 0
      /\ d.blk[0] = ZeroBlock
      /\ \A k \in I : \A r \in Place : At(d, k, r) \in d.bmap /\ At(d, k, r) \in Block
  BY AtType DEF Forest, Marked
<1>2. q[2] # -1 => Up(q) \in Place /\ ~Leaf(Up(q)) /\ h \in d.bmap /\ h \in Block /\ h # b
  BY <1>1, PlaceShape
<1>3. /\ e \in Disk /\ e.imap = d.imap /\ e.bmap = d.bmap \cup {b}
      /\ \A k \in Inode : /\ e.inode[k].size = d.inode[k].size
                          /\ k # i => e.inode[k] = d.inode[k]
      /\ \A c \in Block : c # b /\ (q[2] # -1 => c # h) => e.blk[c] = d.blk[c]
  BY <1>1, <1>2, AllocatedIs
<1>4. \A k \in I : \A r \in Place :
        At(e, k, r) = IF k = i /\ r = q THEN b ELSE At(d, k, r)
  BY AllocatedAt
<1> HIDE DEF e
<1>5. e.blk[0] = ZeroBlock
  BY <1>1, <1>2, <1>3, Sizes
<1>6. Marked(e, I)
  BY <1>1, <1>3, <1>4 DEF Marked
<1>7. Apart(e, I)
  <2> SUFFICES ASSUME NEW j \in I, NEW k \in I, NEW r \in Place, NEW t \in Place,
                      At(e, j, r) = At(e, k, t), At(e, j, r) # 0
               PROVE  j = k /\ r = t
    BY DEF Apart
  <2>1. CASE j = i /\ r = q
    BY <1>1, <1>4, <2>1
  <2>2. CASE k = i /\ t = q
    BY <1>1, <1>4, <2>2
  <2>3. CASE ~(j = i /\ r = q) /\ ~(k = i /\ t = q)
    <3>1. At(d, j, r) = At(d, k, t) /\ At(d, j, r) # 0
      BY <1>4, <2>3
    <3> QED BY <3>1 DEF Forest, Apart
  <2> QED BY <2>1, <2>2, <2>3
<1>8. ASSUME NEW k \in I, NEW r \in Place, Leaf(r), At(d, k, r) # 0
      PROVE  e.blk[At(d, k, r)] = d.blk[At(d, k, r)]
  <2>1. At(d, k, r) # b /\ At(d, k, r) \in Block
    BY <1>1
  <2>2. q[2] # -1 => At(d, k, r) # h
    BY <1>2, <1>8 DEF Forest, Apart
  <2> QED BY <1>3, <2>1, <2>2
<1>9. Grows(d, e, I, i, I)
  BY <1>1, <1>3, <1>4, <1>8 DEF Grows, Keeps
<1>10. At(e, i, q) = b
  BY <1>4
<1> QED BY <1>1, <1>3, <1>5, <1>6, <1>7, <1>9, <1>10 DEF Forest, e

Nodes == [in : {"inode", "blk"}, at : Nat]
State == [ok : BOOLEAN, d : Disk, node : Nodes]

LEMMA NodeTypes ==
  /\ \A i \in Inode : InInode(i) \in Nodes
  /\ \A b \in Block : InBlock(b) \in Nodes
  /\ \A d \in Disk : Begin(d) \in State /\ Begin(d).ok /\ Begin(d).d = d
BY Sizes DEF InInode, InBlock, Nodes, State, Begin, Inode, Block

LEMMA FreeBlockIs ==
  ASSUME NEW d \in Disk, d.bmap # Block
  PROVE  FreeBlock(d) \in Block \ d.bmap
<1>1. Block \ d.bmap \in SUBSET Nat /\ Block \ d.bmap # {}
  <2>1. d.bmap \in SUBSET Block
    BY DEF Disk
  <2>2. Block \subseteq Nat
    BY Sizes DEF Block
  <2> QED BY <2>1, <2>2, Zenon
<1>2. \E b \in Block \ d.bmap : \A c \in Block \ d.bmap : b <= c
  BY <1>1, LeastOf, Zenon
<1> QED BY <1>2 DEF FreeBlock

LEMMA EnsureGrows ==
  ASSUME NEW s \in State, s.ok, NEW I, Forest(s.d, I), NEW i \in I, NEW q \in Place,
         s.node = NodeOf(s.d, i, q), q[2] # -1 => At(s.d, i, Up(q)) # 0,
         NEW zero \in BOOLEAN, zero \/ Leaf(q)
  PROVE  LET t == Ensure(s, Index(q), zero)
         IN /\ t \in State /\ Forest(t.d, I) /\ Grows(s.d, t.d, I, i, I)
            /\ IF t.ok THEN At(t.d, i, q) # 0 /\ t.node = InBlock(At(t.d, i, q))
                       ELSE t.d = s.d
<1> DEFINE t == Ensure(s, Index(q), zero)
           b == At(s.d, i, q)
           new == FreeBlock(s.d)
           e == Allocated(s.d, i, q, new, zero)
<1>1. s = [ok |-> TRUE, d |-> s.d, node |-> s.node] /\ s.node \in Nodes /\ s.d \in Disk
  BY DEF State
<1>2. PointerAt(s.d, s.node, Index(q)) = b
  BY PointerIs
<1>3. i \in Inode /\ b \in Block
  BY <1>1, AtType DEF Forest
<1>4. CASE b # 0
  <2>1. t = [ok |-> TRUE, d |-> s.d, node |-> InBlock(b)]
    BY <1>1, <1>2, <1>4, Zenon DEF Ensure
  <2>2. t \in State
    BY <1>1, <1>3, <2>1, NodeTypes DEF State
  <2> QED BY <1>4, <2>1, <2>2, GrowsNot
<1>5. CASE b = 0 /\ s.d.bmap = Block
  <2>1. t = [ok |-> FALSE, d |-> s.d, node |-> s.node]
    BY <1>1, <1>2, <1>5, Zenon DEF Ensure
  <2>2. t \in State
    BY <1>1, <2>1 DEF State
  <2> QED BY <2>1, <2>2, GrowsNot
<1>6. CASE b = 0 /\ s.d.bmap # Block
  <2>1. new \in Block \ s.d.bmap
    BY <1>1, <1>6, FreeBlockIs
  <2>2. t = [ok |-> TRUE, node |-> InBlock(new), d |-> e]
    BY <1>1, <1>2, <1>6 DEF Ensure, Allocated
  <2>3. Forest(e, I) /\ Grows(s.d, e, I, i, I) /\ At(e, i, q) = new /\ new # 0
    BY <1>6, <2>1, AllocatedForest
  <2> HIDE DEF e, new
  <2>4. t \in State
    BY <2>1, <2>2, <2>3, NodeTypes DEF State, Forest
  <2> QED BY <2>2, <2>3, <2>4
<1> QED BY <1>4, <1>5, <1>6

LEMMA EnsureAbove ==
  ASSUME NEW s \in State, s.ok, NEW I, Forest(s.d, I), NEW i \in I, NEW q \in Place,
         s.node = NodeOf(s.d, i, q), q[2] # -1 => At(s.d, i, Up(q)) # 0
  PROVE  LET t == Ensure(s, Index(q), TRUE)
         IN /\ t \in State /\ Forest(t.d, I) /\ Grows(s.d, t.d, I, i, I)
            /\ t.ok => At(t.d, i, q) # 0 /\ t.node = InBlock(At(t.d, i, q))
<1> DEFINE yes == TRUE
<1>1. yes \in BOOLEAN /\ (yes \/ Leaf(q))
  OBVIOUS
<1> QED BY <1>1, EnsureGrows, Zenon
----------------------------------------------------------------------------
(* The blocks of a file.                                                   *)

LEMMA PathCases ==
  ASSUME NEW k \in 0 .. MaxBlocks - 1
  PROVE  \/ /\ k < NDIRECT /\ Path[k] = <<k>> /\ PlaceOf(k) = <<k, -1, -1>>
         \/ \E b \in 0 .. PTRS - 1 :
              /\ k >= NDIRECT
              /\ Path[k] = <<NDIRECT, b>> /\ PlaceOf(k) = <<NDIRECT, b, -1>>
         \/ \E a \in NDIRECT + 1 .. NDIRECT + NDINDIRECT, b, c \in 0 .. PTRS - 1 :
              /\ k >= NDIRECT
              /\ Path[k] = <<a, b, c>> /\ PlaceOf(k) = <<a, b, c>>
<1> DEFINE i == k - NDIRECT
           d == i - PTRS
<1>1. /\ k < NDIRECT => Path[k] = <<k>>
      /\ k >= NDIRECT /\ i \in 0 .. PTRS - 1 => Path[k] = <<NDIRECT, i>>
      /\ k >= NDIRECT /\ i \notin 0 .. PTRS - 1 =>
           Path[k] = <<NDIRECT + 1 + (d \div (PTRS * PTRS)), (d \div PTRS) % PTRS, d % PTRS>>
  BY Sizes DEF Path
<1>2. CASE k < NDIRECT
  BY <1>1, <1>2 DEF PlaceOf
<1>3. CASE k >= NDIRECT /\ i \in 0 .. PTRS - 1
  <2>1. Path[k] = <<NDIRECT, i>>
    BY <1>1, <1>3
  <2>2. PlaceOf(k) = <<NDIRECT, i, -1>>
    BY <2>1 DEF PlaceOf
  <2> QED BY <1>3, <2>1, <2>2
<1>4. CASE k >= NDIRECT /\ i \notin 0 .. PTRS - 1
  <2> DEFINE Q == PTRS * PTRS
             a == NDIRECT + 1 + (d \div Q)
             b == (d \div PTRS) % PTRS
             c == d % PTRS
  <2>1. Path[k] = <<a, b, c>>
    BY <1>1, <1>4
  <2>2. Q \in Nat \ {0}
    BY Sizes
  <2>3. NDINDIRECT * PTRS * PTRS = Q * NDINDIRECT
    BY Sizes
  <2>4. d \in Nat /\ d < Q * NDINDIRECT
    BY <1>4, <2>3, Sizes DEF MaxBlocks
  <2> HIDE DEF Q, d
  <2>5. d \div Q \in Nat /\ d \div Q < NDINDIRECT
    <3>1. /\ d \div Q \in Nat /\ d % Q \in 0 .. Q - 1
          /\ d = Q * (d \div Q) + (d % Q)
      BY <2>2, <2>4, Division, Zenon
    <3>2. Q * (d \div Q) <= d
      <4>1. Q * (d \div Q) \in Int /\ d % Q \in Nat
        BY <2>2, <3>1
      <4> QED BY <2>4, <3>1, <4>1
    <3>3. d \div Q >= NDINDIRECT => Q * NDINDIRECT <= Q * (d \div Q)
      BY <2>2, <3>1, Monotone, Sizes
    <3>4. Q * NDINDIRECT \in Int /\ Q * (d \div Q) \in Int
      BY <2>2, <3>1, Sizes
    <3> QED BY <2>4, <3>1, <3>2, <3>3, <3>4, Sizes
  <2>6. a \in NDIRECT + 1 .. NDIRECT + NDINDIRECT
    BY <2>5, Sizes
  <2>7. b \in 0 .. PTRS - 1 /\ c \in 0 .. PTRS - 1
    BY <2>4, Division, Sizes
  <2> HIDE DEF a, b, c
  <2>8. PlaceOf(k) = <<a, b, c>>
    <3>1. b # -1
      BY <2>7, Sizes
    <3> QED BY <2>1, <3>1 DEF PlaceOf
  <2> QED BY <1>4, <2>1, <2>6, <2>7, <2>8
<1> QED BY <1>2, <1>3, <1>4, Sizes

LEMMA PlaceOfBlock ==
  ASSUME NEW k \in 0 .. MaxBlocks - 1
  PROVE  /\ PlaceOf(k) \in Place /\ Leaf(PlaceOf(k))
         /\ k < NDIRECT => PlaceOf(k) = <<k, -1, -1>>
         /\ Last(Path[k]) = Index(PlaceOf(k))
         /\ \A d, i : BlockOf(d, i, k) = At(d, i, PlaceOf(k))
<1>0. k \in Nat /\ -1 \in Slot /\ 0 .. PTRS - 1 \subseteq Slot
  BY Sizes DEF Slot
<1>1. CASE k < NDIRECT /\ Path[k] = <<k>> /\ PlaceOf(k) = <<k, -1, -1>>
  <2>1. k \in Top
    BY <1>1, TopSlots
  <2>2. PlaceOf(k) \in Place /\ Leaf(PlaceOf(k))
    BY <1>0, <1>1, <2>1 DEF Place, Leaf
  <2>3. Last(Path[k]) = Index(PlaceOf(k))
    BY <1>1 DEF Last, Index
  <2>4. ASSUME NEW d, NEW i PROVE BlockOf(d, i, k) = At(d, i, PlaceOf(k))
    BY <1>1 DEF BlockOf, First, At
  <2> QED BY <1>1, <2>2, <2>3, <2>4
<1>2. ASSUME NEW b \in 0 .. PTRS - 1, k >= NDIRECT,
             Path[k] = <<NDIRECT, b>>, PlaceOf(k) = <<NDIRECT, b, -1>>
      PROVE  /\ PlaceOf(k) \in Place /\ Leaf(PlaceOf(k))
             /\ k < NDIRECT => PlaceOf(k) = <<k, -1, -1>>
             /\ Last(Path[k]) = Index(PlaceOf(k))
             /\ \A d, i : BlockOf(d, i, k) = At(d, i, PlaceOf(k))
  <2>1. NDIRECT \in Top /\ b # -1 /\ NDIRECT \in Nat /\ ~(k < NDIRECT)
    BY <1>0, <1>2, TopSlots, Sizes
  <2>2. PlaceOf(k) \in Place /\ Leaf(PlaceOf(k))
    BY <1>0, <1>2, <2>1 DEF Place, Leaf
  <2>3. Last(Path[k]) = Index(PlaceOf(k))
    BY <1>2, <2>1 DEF Last, Index
  <2>4. ASSUME NEW d, NEW i PROVE BlockOf(d, i, k) = At(d, i, PlaceOf(k))
    BY <1>2, <2>1 DEF BlockOf, First, Second, At
  <2> QED BY <2>1, <2>2, <2>3, <2>4
<1>3. ASSUME NEW a \in NDIRECT + 1 .. NDIRECT + NDINDIRECT,
             NEW b \in 0 .. PTRS - 1, NEW c \in 0 .. PTRS - 1, k >= NDIRECT,
             Path[k] = <<a, b, c>>, PlaceOf(k) = <<a, b, c>>
      PROVE  /\ PlaceOf(k) \in Place /\ Leaf(PlaceOf(k))
             /\ k < NDIRECT => PlaceOf(k) = <<k, -1, -1>>
             /\ Last(Path[k]) = Index(PlaceOf(k))
             /\ \A d, i : BlockOf(d, i, k) = At(d, i, PlaceOf(k))
  <2>1. a \in Top /\ a > NDIRECT /\ b # -1 /\ c # -1 /\ ~(k < NDIRECT)
    BY <1>0, <1>3, Sizes DEF Top
  <2>2. PlaceOf(k) \in Place /\ Leaf(PlaceOf(k))
    BY <1>0, <1>3, <2>1, Sizes DEF Place, Leaf
  <2>3. Last(Path[k]) = Index(PlaceOf(k))
    BY <1>3, <2>1 DEF Last, Index
  <2>4. ASSUME NEW d, NEW i PROVE BlockOf(d, i, k) = At(d, i, PlaceOf(k))
    BY <1>3, <2>1 DEF BlockOf, First, Second, Third, At
  <2> QED BY <2>1, <2>2, <2>3, <2>4
<1> QED BY PathCases, <1>1, <1>2, <1>3

(* A walk begins in the inode.                                             *)
Start(s, i) == [s EXCEPT !.node = InInode(i)]

(* The indirect blocks on the way, one by one.                             *)
LEMMA TrailSteps ==
  ASSUME NEW s, NEW i, NEW path, NEW zero, Len(path) \in 1 .. 3
  PROVE  LET t == Start(s, i)
             e == EnsureTrail(s, i, path, zero)
         IN /\ Len(path) = 1 => e = t
            /\ Len(path) = 2 => e = Ensure(t, path[1], zero)
            /\ Len(path) = 3 => e = Ensure(Ensure(t, path[1], zero), path[2], zero)
<1> DEFINE t == Start(s, i)
           n == Len(path) - 1
           u == Ensure(t, path[1], zero)
           v == Ensure(u, path[2], zero)
           Is(f) == f = [k \in 0 .. n |-> IF k = 0 THEN t ELSE Ensure(f[k - 1], path[k], zero)]
           g == [k \in 0 .. n |-> IF k = 0 THEN t ELSE IF k = 1 THEN u ELSE v]
           h == [k \in 0 .. n |-> IF k = 0 THEN t ELSE Ensure(g[k - 1], path[k], zero)]
           f == CHOOSE f : Is(f)
<1>1. n \in 0 .. 2
  OBVIOUS
<1>2. EnsureTrail(s, i, path, zero) = f[n]
  BY DEF EnsureTrail, Repeat, Start
<1> HIDE DEF n, t
<1>3. ASSUME NEW k \in 0 .. n
      PROVE  g[k] = h[k]
  <2>1. k \in {0, 1, 2}
    BY <1>1
  <2>2. CASE k = 0
    BY <2>2
  <2>3. CASE k = 1
    <3>1. k - 1 = 0 /\ 0 \in 0 .. n
      BY <1>1, <2>3
    <3>2. g[k] = u /\ g[0] = t /\ h[k] = Ensure(g[k - 1], path[k], zero)
      BY <2>3, <3>1
    <3> QED BY <2>3, <3>1, <3>2
  <2>4. CASE k = 2
    <3>1. k - 1 = 1 /\ 1 \in 0 .. n
      BY <1>1, <2>4
    <3>2. g[k] = v /\ g[1] = u /\ h[k] = Ensure(g[k - 1], path[k], zero)
      BY <2>4, <3>1
    <3> QED BY <2>4, <3>1, <3>2
  <2> QED BY <2>1, <2>2, <2>3, <2>4
<1>4. g = h
  BY <1>3
<1>5. Is(g)
  BY <1>4
<1>6. Is(f)
  <2> HIDE DEF Is, g
  <2> QED BY <1>5
<1>7. /\ f[0] = t
      /\ \A k \in 1 .. n : f[k] = Ensure(f[k - 1], path[k], zero)
  <2>1. f = [k \in 0 .. n |-> IF k = 0 THEN t ELSE Ensure(f[k - 1], path[k], zero)]
    BY <1>6
  <2> HIDE DEF f
  <2> QED BY <1>1, <2>1
<1> HIDE DEF f
<1>8. CASE n = 0
  <2>1. Len(path) = 1
    BY <1>8 DEF n
  <2>2. EnsureTrail(s, i, path, zero) = t
    BY <1>2, <1>7, <1>8
  <2> QED BY <2>1, <2>2 DEF n, t
<1>9. CASE n = 1
  <2>1. f[1] = Ensure(f[1 - 1], path[1], zero)
    BY <1>7, <1>9
  <2>2. f[n] = u
    BY <1>7, <1>9, <2>1
  <2>3. EnsureTrail(s, i, path, zero) = u /\ Len(path) = 2
    BY <1>2, <1>9, <2>2 DEF n
  <2> QED BY <2>3 DEF t
<1>10. CASE n = 2
  <2>1. f[1] = Ensure(f[1 - 1], path[1], zero) /\ f[2] = Ensure(f[2 - 1], path[2], zero)
    BY <1>7, <1>10
  <2>2. f[n] = v
    BY <1>7, <1>10, <2>1
  <2>3. EnsureTrail(s, i, path, zero) = v /\ Len(path) = 3
    BY <1>2, <1>10, <2>2 DEF n
  <2> QED BY <2>3 DEF t
<1> QED BY <1>1, <1>8, <1>9, <1>10 DEF n

LEMMA TrailNone ==
  ASSUME NEW s, NEW i, NEW path, Len(path) = 1
  PROVE  \A zero : EnsureTrail(s, i, path, zero) = Start(s, i)
<1>1. Len(path) \in 1 .. 3
  OBVIOUS
<1>2. \A zero : Len(path) = 1 => EnsureTrail(s, i, path, zero) = Start(s, i)
  BY ONLY <1>1, TrailSteps
<1> QED BY <1>2

LEMMA TrailOne ==
  ASSUME NEW s, NEW i, NEW path, Len(path) = 2
  PROVE  \A zero : EnsureTrail(s, i, path, zero) = Ensure(Start(s, i), path[1], zero)
<1>1. Len(path) \in 1 .. 3
  OBVIOUS
<1>2. \A zero : Len(path) = 2 => EnsureTrail(s, i, path, zero) = Ensure(Start(s, i), path[1], zero)
  BY ONLY <1>1, TrailSteps
<1> QED BY <1>2

LEMMA TrailTwo ==
  ASSUME NEW s, NEW i, NEW path, Len(path) = 3
  PROVE  \A zero : EnsureTrail(s, i, path, zero)
                     = Ensure(Ensure(Start(s, i), path[1], zero), path[2], zero)
<1>1. Len(path) \in 1 .. 3
  OBVIOUS
<1>2. \A zero : Len(path) = 3 =>
        EnsureTrail(s, i, path, zero) = Ensure(Ensure(Start(s, i), path[1], zero), path[2], zero)
  BY ONLY <1>1, TrailSteps
<1> QED BY <1>2

(* get_or_alloc_data_block makes the blocks on the way and the block.      *)
LEMMA GetOrAllocGrows ==
  ASSUME NEW s \in State, s.ok, NEW I, Forest(s.d, I), NEW i \in I, NEW k \in Nat
  PROVE  LET t == GetOrAlloc(s, i, k)
         IN /\ t \in State /\ Forest(t.d, I) /\ Grows(s.d, t.d, I, i, I)
            /\ t.ok => k \in 0 .. MaxBlocks - 1 /\ At(t.d, i, PlaceOf(k)) # 0
<1> DEFINE t == GetOrAlloc(s, i, k)
           q == PlaceOf(k)
           s0 == [s EXCEPT !.node = InInode(i)]
<1>1. CASE k >= MaxBlocks
  <2>1. t = [s EXCEPT !.ok = FALSE]
    BY <1>1 DEF GetOrAlloc
  <2>2. t \in State /\ t.d = s.d /\ ~t.ok
    BY <2>1, Zenon DEF State
  <2> QED BY <2>2, GrowsNot
<1>2. CASE ~(k >= MaxBlocks)
  <2>1. k \in 0 .. MaxBlocks - 1
    BY <1>2, Sizes
  <2>2. q \in Place /\ Leaf(q) /\ Last(Path[k]) = Index(q)
    BY <2>1, PlaceOfBlock
  <2>3. i \in Inode
    BY DEF Forest
  <2>4. /\ s0 \in State /\ s0.ok /\ s0.d = s.d /\ s0.node = InInode(i)
        /\ Forest(s0.d, I) /\ Grows(s.d, s0.d, I, i, I)
    <3>1. /\ s0 \in State /\ s0.ok /\ s0.d = s.d /\ s0.node = InInode(i)
      BY <2>3, NodeTypes DEF State
    <3> HIDE DEF s0
    <3> QED BY <3>1, GrowsNot
  <2>5. t = Ensure(EnsureTrail(s, i, Path[k], TRUE), Index(q), FALSE)
    BY <1>2, <2>2 DEF GetOrAlloc
  <2> HIDE DEF t, s0
  <2>6. ASSUME NEW u \in State, u.ok => Forest(u.d, I), Forest(u.d, I), Grows(s.d, u.d, I, i, I),
               EnsureTrail(s, i, Path[k], TRUE) = u,
               u.ok => u.node = NodeOf(u.d, i, q) /\ (q[2] # -1 => At(u.d, i, Up(q)) # 0)
        PROVE  /\ t \in State /\ Forest(t.d, I) /\ Grows(s.d, t.d, I, i, I)
               /\ t.ok => At(t.d, i, q) # 0
    <3>1. CASE u.ok
      <4>1. /\ t \in State /\ Forest(t.d, I) /\ Grows(u.d, t.d, I, i, I)
            /\ t.ok => At(t.d, i, q) # 0
        <5>1. /\ u.node = NodeOf(u.d, i, q) /\ (q[2] # -1 => At(u.d, i, Up(q)) # 0)
              /\ Forest(u.d, I) /\ q \in Place /\ Leaf(q)
              /\ t = Ensure(u, Index(q), FALSE) /\ FALSE \in BOOLEAN
          BY <2>2, <2>5, <2>6, <3>1, Zenon
        <5> QED BY <5>1, <3>1, EnsureGrows, ZenonT(30)
      <4> QED BY <2>6, <4>1, GrowsTwice
    <3>2. CASE ~u.ok
      <4>1. t = u
        BY <2>5, <2>6, <3>2, Zenon DEF Ensure
      <4> QED BY <2>6, <3>2, <4>1
    <3> QED BY <3>1, <3>2
  <2>7. CASE k < NDIRECT /\ Path[k] = <<k>> /\ q = <<k, -1, -1>>
    <3>1. EnsureTrail(s, i, Path[k], TRUE) = s0
      <4>1. Len(Path[k]) = 1
        BY <2>7
      <4>2. \A zero : EnsureTrail(s, i, Path[k], zero) = Start(s, i)
        BY ONLY <4>1, TrailNone
      <4>3. Start(s, i) = s0
        BY DEF Start, s0
      <4>4. \A zero : EnsureTrail(s, i, Path[k], zero) = s0
        BY ONLY <4>2, <4>3
      <4> QED BY <4>4
    <3>2. s0.node = NodeOf(s0.d, i, q) /\ q[2] = -1
      BY <2>4, <2>7 DEF NodeOf
    <3> QED BY <2>1, <2>4, <2>6, <3>1, <3>2, Zenon DEF t
  <2>8. ASSUME NEW b \in 0 .. PTRS - 1, Path[k] = <<NDIRECT, b>>, q = <<NDIRECT, b, -1>>
        PROVE  /\ t \in State /\ Forest(t.d, I) /\ Grows(s.d, t.d, I, i, I)
               /\ t.ok => At(t.d, i, q) # 0
    <3> DEFINE p == <<NDIRECT, -1, -1>>
               u == Ensure(s0, Index(p), TRUE)
    <3>1. b # -1 /\ Up(q) = p /\ p \in Place /\ Index(p) = NDIRECT /\ p[2] = -1 /\ q[2] # -1
      <4>1. b # -1
        BY Sizes
      <4>2. Up(q) = p /\ Index(p) = NDIRECT /\ q[2] # -1
        BY <2>8, <4>1 DEF Up, Index
      <4> QED BY <2>2, <4>1, <4>2, PlaceShape
    <3>2. EnsureTrail(s, i, Path[k], TRUE) = u
      <4>1. Len(Path[k]) = 2
        BY <2>8
      <4>2. \A zero : EnsureTrail(s, i, Path[k], zero) = Ensure(Start(s, i), Path[k][1], zero)
        BY ONLY <4>1, TrailOne
      <4>3. Path[k][1] = Index(p)
        BY <2>8, <3>1
      <4>4. Start(s, i) = s0
        BY DEF Start, s0
      <4>5. \A zero : EnsureTrail(s, i, Path[k], zero) = Ensure(s0, Index(p), zero)
        BY ONLY <4>2, <4>3, <4>4
      <4> QED BY <4>5
    <3>3. s0.node = NodeOf(s0.d, i, p) /\ p \in Place /\ p[2] = -1
      BY <2>4, <3>1 DEF NodeOf
    <3> HIDE DEF p, q
    <3>4. /\ u \in State /\ Forest(u.d, I) /\ Grows(s0.d, u.d, I, i, I)
          /\ u.ok => At(u.d, i, p) # 0 /\ u.node = InBlock(At(u.d, i, p))
      BY <2>4, <3>3, EnsureAbove, Zenon
    <3> HIDE DEF u
    <3>5. u.ok => u.node = NodeOf(u.d, i, q) /\ At(u.d, i, Up(q)) # 0
      BY <3>1, <3>4 DEF NodeOf
    <3> QED BY <2>4, <2>6, <3>2, <3>4, <3>5, Zenon
  <2>9. ASSUME NEW a \in NDIRECT + 1 .. NDIRECT + NDINDIRECT,
               NEW b \in 0 .. PTRS - 1, NEW c \in 0 .. PTRS - 1,
               Path[k] = <<a, b, c>>, q = <<a, b, c>>
        PROVE  /\ t \in State /\ Forest(t.d, I) /\ Grows(s.d, t.d, I, i, I)
               /\ t.ok => At(t.d, i, q) # 0
    <3> DEFINE p == <<a, -1, -1>>
               m == <<a, b, -1>>
               u == Ensure(s0, Index(p), TRUE)
               v == Ensure(u, Index(m), TRUE)
    <3>1. /\ Up(q) = m /\ Up(m) = p /\ p \in Place /\ m \in Place
          /\ Index(p) = a /\ Index(m) = b /\ p[2] = -1 /\ m[2] # -1 /\ q[2] # -1
      <4>1. b # -1 /\ c # -1
        BY Sizes
      <4>2. /\ Up(q) = m /\ Up(m) = p /\ Index(p) = a /\ Index(m) = b
            /\ m[2] # -1 /\ q[2] # -1
        BY <2>9, <4>1 DEF Up, Index
      <4>3. m \in Place
        BY <2>2, <4>2, PlaceShape
      <4> QED BY <4>2, <4>3, PlaceShape
    <3>2. EnsureTrail(s, i, Path[k], TRUE) = v
      <4>1. Len(Path[k]) = 3
        BY <2>9
      <4>2. \A zero : EnsureTrail(s, i, Path[k], zero)
                         = Ensure(Ensure(Start(s, i), Path[k][1], zero), Path[k][2], zero)
        BY ONLY <4>1, TrailTwo
      <4>3. Path[k][1] = Index(p) /\ Path[k][2] = Index(m)
        BY <2>9, <3>1
      <4>4. Start(s, i) = s0
        BY DEF Start, s0
      <4>5. \A zero : EnsureTrail(s, i, Path[k], zero) = Ensure(Ensure(s0, Index(p), zero), Index(m), zero)
        BY ONLY <4>2, <4>3, <4>4
      <4> QED BY <4>5
    <3>3. s0.node = NodeOf(s0.d, i, p) /\ p \in Place /\ p[2] = -1
      BY <2>4, <3>1 DEF NodeOf
    <3> HIDE DEF p, m, q
    <3>4. /\ u \in State /\ Forest(u.d, I) /\ Grows(s0.d, u.d, I, i, I)
          /\ u.ok => At(u.d, i, p) # 0 /\ u.node = InBlock(At(u.d, i, p))
      BY <2>4, <3>3, EnsureAbove, Zenon
    <3> HIDE DEF u
    <3>5. CASE u.ok
      <4>1. u.node = NodeOf(u.d, i, m) /\ At(u.d, i, Up(m)) # 0 /\ m \in Place
        BY <3>1, <3>4, <3>5 DEF NodeOf
      <4>2. /\ v \in State /\ Forest(v.d, I) /\ Grows(u.d, v.d, I, i, I)
            /\ v.ok => At(v.d, i, m) # 0 /\ v.node = InBlock(At(v.d, i, m))
        BY <3>4, <3>5, <4>1, EnsureAbove, Zenon
      <4> HIDE DEF v
      <4>3. Grows(s.d, v.d, I, i, I)
        BY <2>4, <3>4, <4>2, GrowsTwice
      <4>4. v.ok => v.node = NodeOf(v.d, i, q) /\ At(v.d, i, Up(q)) # 0
        BY <3>1, <4>2 DEF NodeOf
      <4> QED BY <2>6, <3>2, <4>2, <4>3, <4>4, Zenon
    <3>6. CASE ~u.ok
      <4>1. v = u
        BY <3>6 DEF Ensure
      <4> QED BY <2>4, <2>6, <3>2, <3>4, <3>6, <4>1, Zenon
    <3> QED BY <3>5, <3>6
  <2> QED BY <2>1, <2>7, <2>8, <2>9, PathCases DEF t
<1> QED BY <1>1, <1>2
----------------------------------------------------------------------------
(* Writing.                                                                *)

(* The block of position pos of file i, and where it is in the block.      *)
Home(d, i, pos) == At(d, i, PlaceOf(pos \div BLKSZ))
Offset(pos)     == pos % BLKSZ

(* The block of position pos is there.                                     *)
Covered(d, i, pos) ==
  pos \div BLKSZ \in 0 .. MaxBlocks - 1 /\ Home(d, i, pos) # 0

(* e is d with cell v written at position pos of file i.                   *)
Wrote(d, e, I, i, pos, v) ==
  LET b == Home(d, i, pos)
  IN /\ e.imap = d.imap /\ e.bmap = d.bmap /\ e.inode = d.inode
     /\ \A k \in I : \A r \in Place : At(e, k, r) = At(d, k, r)
     /\ \A c \in Block : c # b => e.blk[c] = d.blk[c]
     /\ \A j \in Cells : e.blk[b][j] = IF j = Offset(pos) THEN v ELSE d.blk[b][j]

(* Data goes into a leaf: no pointer and no other file's data change.      *)
LEMMA SetCellKeeps ==
  ASSUME NEW d, NEW I, Forest(d, I), NEW i \in I, NEW pos \in Nat, NEW v \in Cell,
         Covered(d, i, pos), NEW e, e = SetCell(d, i, pos, v)
  PROVE  Forest(e, I) /\ Grows(d, e, I, i, I \ {i}) /\ Wrote(d, e, I, i, pos, v)
<1> DEFINE q == PlaceOf(pos \div BLKSZ)
           b == Home(d, i, pos)
           o == Offset(pos)
<1>1. /\ d \in Disk /\ I \subseteq Inode /\ i \in Inode /\ 0 \in d.bmap
      /\ d.blk[0] = ZeroBlock
      /\ \A k \in I : \A r \in Place : At(d, k, r) \in d.bmap /\ At(d, k, r) \in Block
  BY AtType DEF Forest, Marked
<1>2. /\ q \in Place /\ Leaf(q) /\ BlockOf(d, i, pos \div BLKSZ) = b /\ o \in Cells
      /\ b = At(d, i, q) /\ b # 0
  BY PlaceOfBlock, Division, Sizes, Zenon DEF Cells, Covered, Home, Offset
<1> HIDE DEF q, b, o
<1>3. e = [d EXCEPT !.blk[b][o] = v]
  BY <1>2 DEF SetCell, o, Offset
<1>4. /\ e \in Disk /\ e.imap = d.imap /\ e.bmap = d.bmap /\ e.inode = d.inode
      /\ \A c \in Block : c # b => e.blk[c] = d.blk[c]
      /\ \A j \in Cells : e.blk[b][j] = IF j = o THEN v ELSE d.blk[b][j]
  <2> DEFINE y == [d.blk EXCEPT ![b][o] = v]
  <2>1. d.blk \in [Block -> [Cells -> Cell]] /\ b \in Block
    BY <1>1, <1>2 DEF Disk
  <2>2. /\ y \in [Block -> [Cells -> Cell]]
        /\ \A c \in Block : c # b => y[c] = d.blk[c]
        /\ \A j \in Cells : y[b][j] = IF j = o THEN v ELSE d.blk[b][j]
    BY <1>2, <2>1
  <2>3. e = [imap |-> d.imap, bmap |-> d.bmap, inode |-> d.inode, blk |-> y]
    BY <1>1, <1>3, Zenon DEF Disk
  <2> HIDE DEF y
  <2> QED BY <1>1, <2>2, <2>3 DEF Disk
<1>5. ASSUME NEW k \in I
      PROVE  \A r \in Place : At(e, k, r) = At(d, k, r)
  <2> DEFINE S == {r \in Place : At(e, k, r) = At(d, k, r)}
  <2>1. ASSUME NEW r \in Place, r[2] = -1
        PROVE  r \in S
    BY <1>4, <2>1, AtTop
  <2>2. ASSUME NEW r \in Place, r[2] # -1, Up(r) \in S
        PROVE  r \in S
    <3>1. /\ At(e, k, r) = Target(e.blk[At(e, k, Up(r))][Index(r)])
          /\ At(d, k, r) = Target(d.blk[At(d, k, Up(r))][Index(r)])
          /\ Up(r) \in Place /\ ~Leaf(Up(r))
          /\ At(e, k, Up(r)) = At(d, k, Up(r))
      BY <2>2, AtBelow, PlaceShape
    <3>2. At(d, k, Up(r)) # b
      BY <1>2, <3>1 DEF Forest, Apart
    <3>3. e.blk[At(d, k, Up(r))] = d.blk[At(d, k, Up(r))]
      BY <1>1, <1>4, <3>1, <3>2
    <3> QED BY <2>2, <3>1, <3>3
  <2> HIDE DEF S
  <2>3. Place \subseteq S
    BY <2>1, <2>2, Descent
  <2> QED BY <2>3 DEF S
<1>6. b # 0 /\ b \in Block
  BY <1>1, <1>2
<1>7. Forest(e, I)
  <2>1. Marked(e, I)
    BY <1>1, <1>4, <1>5 DEF Marked
  <2>2. Apart(e, I)
    BY <1>5 DEF Forest, Apart
  <2>3. e.blk[0] = ZeroBlock
    BY <1>1, <1>4, <1>6, Sizes
  <2> QED BY <1>1, <1>4, <2>1, <2>2, <2>3 DEF Forest
<1>8. ASSUME NEW k \in I \ {i}, NEW r \in Place, Leaf(r), At(d, k, r) # 0
      PROVE  e.blk[At(d, k, r)] = d.blk[At(d, k, r)]
  <2>1. At(d, k, r) # b
    BY <1>2, <1>8 DEF Forest, Apart
  <2> QED BY <1>1, <1>4, <2>1
<1>9. Grows(d, e, I, i, I \ {i})
  BY <1>4, <1>5, <1>8 DEF Grows, Keeps
<1> QED BY <1>4, <1>5, <1>7, <1>9 DEF b, o, Wrote

LEMMA CoveredStays ==
  ASSUME NEW d, NEW e, NEW I, NEW J, NEW i \in I, Grows(d, e, I, i, J), NEW pos,
         Covered(d, i, pos)
  PROVE  Covered(e, i, pos)
BY PlaceOfBlock DEF Covered, Home, Grows, Keeps

(* What calls that write to file i make of the image.                      *)
Step(s, t, I, i) == /\ t \in State /\ Forest(t.d, I)
                    /\ Grows(s.d, t.d, I, i, I \ {i})
                    /\ t.ok => s.ok

LEMMA PutGrows ==
  ASSUME NEW s \in State, s.ok, NEW I, Forest(s.d, I), NEW i \in I,
         NEW pos \in Nat, NEW v \in Cell
  PROVE  LET t == Put(s, i, pos, v)
         IN Step(s, t, I, i) /\ (t.ok => Covered(t.d, i, pos))
<1> DEFINE k == pos \div BLKSZ
           u == GetOrAlloc(s, i, k)
           t == Put(s, i, pos, v)
<1>1. k \in Nat
  BY Division, Sizes
<1> HIDE DEF k
<1>2. /\ u \in State /\ Forest(u.d, I) /\ Grows(s.d, u.d, I, i, I)
      /\ u.ok => k \in 0 .. MaxBlocks - 1 /\ At(u.d, i, PlaceOf(k)) # 0
  BY <1>1, GetOrAllocGrows
<1>3. Grows(s.d, u.d, I, i, I \ {i})
  BY <1>2, GrowsLess
<1>4. CASE ~u.ok
  <2>1. t = u
    BY <1>4 DEF Put, k
  <2> QED BY <1>2, <1>3, <1>4, <2>1 DEF Step
<1>5. CASE u.ok
  <2>1. t = [u EXCEPT !.d = SetCell(u.d, i, pos, v)]
    BY <1>5 DEF Put, k
  <2> HIDE DEF t, u
  <2> DEFINE e == SetCell(u.d, i, pos, v)
  <2>2. /\ Forest(e, I) /\ Grows(u.d, e, I, i, I \ {i})
        /\ \A j \in I : \A r \in Place : At(e, j, r) = At(u.d, j, r)
    <3>1. Covered(u.d, i, pos) /\ Forest(u.d, I)
      BY <1>2, <1>5 DEF k, Covered, Home
    <3>2. e = SetCell(u.d, i, pos, v)
      OBVIOUS
    <3> HIDE DEF e
    <3>3. Forest(e, I) /\ Grows(u.d, e, I, i, I \ {i}) /\ Wrote(u.d, e, I, i, pos, v)
      BY <3>1, <3>2, SetCellKeeps
    <3> QED BY <3>3 DEF Wrote
  <2>3. t \in State /\ t.d = e
    BY <1>2, <2>1, <2>2 DEF State, Forest
  <2>4. Grows(s.d, t.d, I, i, I \ {i})
    BY <1>3, <2>2, <2>3, GrowsTwice
  <2>5. PlaceOf(k) \in Place
    BY <1>2, <1>5, PlaceOfBlock
  <2>6. Covered(t.d, i, pos)
    BY <1>2, <1>5, <2>2, <2>3, <2>5 DEF Covered, Home, k
  <2> QED BY <2>2, <2>3, <2>4, <2>6 DEF Step, t
<1> QED BY <1>4, <1>5

(* The loops do what their bodies say, one step after the other.           *)
LEMMA PutAllDef ==
  ASSUME NEW s, NEW i, NEW m \in Int, NEW n \in Int, NEW v, m <= n
  PROVE  \E f : /\ f[m - 1] = s
                /\ \A p \in m .. n : f[p] = Put(f[p - 1], i, p, v)
                /\ PutAll(s, i, m, n, v) = f[n]
<1> DEFINE Is(f, k) == f = [p \in m - 1 .. k |->
                              IF p = m - 1 THEN s ELSE Put(f[p - 1], i, p, v)]
           S == {k \in Int : \E f : Is(f, k)}
<1>1. m - 1 \in S
  <2> DEFINE g == [p \in m - 1 .. m - 1 |-> s]
  <2>1. g = [p \in m - 1 .. m - 1 |-> IF p = m - 1 THEN s ELSE Put(g[p - 1], i, p, v)]
    OBVIOUS
  <2>2. Is(g, m - 1) /\ m - 1 \in Int
    BY <2>1
  <2> HIDE DEF Is, g
  <2> QED BY <2>2
<1>2. ASSUME NEW k \in m - 1 .. n - 1, k \in S
      PROVE  k + 1 \in S
  <2>1. PICK f : Is(f, k)
    BY <1>2
  <2> DEFINE g == [p \in m - 1 .. k + 1 |-> IF p = k + 1 THEN Put(f[k], i, k + 1, v) ELSE f[p]]
             h == [p \in m - 1 .. k + 1 |-> IF p = m - 1 THEN s ELSE Put(g[p - 1], i, p, v)]
  <2>2. ASSUME NEW p \in m - 1 .. k + 1
        PROVE  g[p] = h[p]
    <3>1. CASE p = k + 1
      <4>1. g[p - 1] = f[k] /\ p # m - 1
        BY <3>1
      <4> QED BY <3>1, <4>1
    <3>2. CASE p = m - 1 /\ p # k + 1
      BY <2>1, <3>2
    <3>3. CASE p # m - 1 /\ p # k + 1
      <4>1. p \in m - 1 .. k /\ p - 1 \in m - 1 .. k /\ p - 1 # k + 1
        BY <3>3
      <4>2. f[p] = Put(f[p - 1], i, p, v)
        BY <2>1, <3>3, <4>1
      <4>3. g[p - 1] = f[p - 1]
        BY <4>1
      <4> QED BY <3>3, <4>1, <4>2, <4>3
    <3> QED BY <3>1, <3>2, <3>3
  <2>3. g = h
    BY <2>2
  <2>4. Is(g, k + 1) /\ k + 1 \in Int
    BY <1>2, <2>3
  <2> HIDE DEF Is, g
  <2> QED BY <2>4
<1>3. n \in S
  <2> HIDE DEF S
  <2>1. m - 1 .. n \subseteq S
    BY <1>1, <1>2, Counting
  <2> QED BY <2>1
<1> DEFINE F == CHOOSE f : Is(f, n)
<1>4. Is(F, n)
  BY <1>3, Zenon
<1>5. PutAll(s, i, m, n, v) = F[n]
  BY DEF PutAll
<1> HIDE DEF F
<1>6. F[m - 1] = s
  BY <1>4
<1>7. \A p \in m .. n : F[p] = Put(F[p - 1], i, p, v)
  BY <1>4
<1> QED BY <1>5, <1>6, <1>7
(* A step of the loop of ktfs_cntl.                                        *)
More(s, i, k) == IF s.ok THEN GetOrAlloc(s, i, k) ELSE s

LEMMA GetOrAllocAllDef ==
  ASSUME NEW s, NEW i, NEW m \in Int, NEW n \in Int, m <= n
  PROVE  \E f : /\ f[m - 1] = s
                /\ \A p \in m .. n : f[p] = More(f[p - 1], i, p)
                /\ GetOrAllocAll(s, i, m, n) = f[n]
<1> DEFINE Is(f, k) == f = [p \in m - 1 .. k |->
                              IF p = m - 1 THEN s ELSE More(f[p - 1], i, p)]
           S == {k \in Int : \E f : Is(f, k)}
<1>1. m - 1 \in S
  <2> DEFINE g == [p \in m - 1 .. m - 1 |-> s]
  <2>1. g = [p \in m - 1 .. m - 1 |-> IF p = m - 1 THEN s ELSE More(g[p - 1], i, p)]
    OBVIOUS
  <2>2. Is(g, m - 1) /\ m - 1 \in Int
    BY <2>1
  <2> HIDE DEF Is, g
  <2> QED BY <2>2
<1>2. ASSUME NEW k \in m - 1 .. n - 1, k \in S
      PROVE  k + 1 \in S
  <2>1. PICK f : Is(f, k)
    BY <1>2
  <2> DEFINE g == [p \in m - 1 .. k + 1 |-> IF p = k + 1 THEN More(f[k], i, k + 1) ELSE f[p]]
             h == [p \in m - 1 .. k + 1 |-> IF p = m - 1 THEN s ELSE More(g[p - 1], i, p)]
  <2>2. ASSUME NEW p \in m - 1 .. k + 1
        PROVE  g[p] = h[p]
    <3>1. CASE p = k + 1
      <4>1. g[p - 1] = f[k] /\ p # m - 1
        BY <3>1
      <4> QED BY <3>1, <4>1
    <3>2. CASE p = m - 1 /\ p # k + 1
      BY <2>1, <3>2
    <3>3. CASE p # m - 1 /\ p # k + 1
      <4>1. p \in m - 1 .. k /\ p - 1 \in m - 1 .. k /\ p - 1 # k + 1
        BY <3>3
      <4>2. f[p] = More(f[p - 1], i, p)
        BY <2>1, <3>3, <4>1
      <4>3. g[p - 1] = f[p - 1]
        BY <4>1
      <4> QED BY <3>3, <4>1, <4>2, <4>3
    <3> QED BY <3>1, <3>2, <3>3
  <2>3. g = h
    BY <2>2
  <2>4. Is(g, k + 1) /\ k + 1 \in Int
    BY <1>2, <2>3
  <2> HIDE DEF Is, g
  <2> QED BY <2>4
<1>3. n \in S
  <2> HIDE DEF S
  <2>1. m - 1 .. n \subseteq S
    BY <1>1, <1>2, Counting
  <2> QED BY <2>1
<1> DEFINE F == CHOOSE f : Is(f, n)
<1>4. Is(F, n)
  BY <1>3, Zenon
<1>5. GetOrAllocAll(s, i, m, n) = F[n]
  BY DEF GetOrAllocAll, More
<1> HIDE DEF F
<1>6. F[m - 1] = s
  BY <1>4
<1>7. \A p \in m .. n : F[p] = More(F[p - 1], i, p)
  BY <1>4
<1> QED BY <1>5, <1>6, <1>7

LEMMA StepTwice ==
  ASSUME NEW s, NEW t, NEW u, NEW I, NEW i, Step(s, t, I, i), Step(t, u, I, i)
  PROVE  Step(s, u, I, i)
BY GrowsTwice DEF Step

LEMMA PutAllGrows ==
  ASSUME NEW s \in State, NEW I, Forest(s.d, I), NEW i \in I,
         NEW m \in Nat, NEW n \in Int, NEW v \in Cell
  PROVE  LET t == PutAll(s, i, m, n, v)
         IN Step(s, t, I, i) /\ (t.ok => \A p \in m .. n : Covered(t.d, i, p))
<1>0. Step(s, s, I, i)
  BY GrowsNot DEF Step
<1>1. CASE ~(m <= n)
  <2>1. PutAll(s, i, m, n, v) = s /\ m .. n = {}
    BY <1>1 DEF PutAll
  <2> QED BY <1>0, <2>1
<1>2. CASE m <= n
  <2>1. PICK f : /\ f[m - 1] = s
                 /\ \A p \in m .. n : f[p] = Put(f[p - 1], i, p, v)
                 /\ PutAll(s, i, m, n, v) = f[n]
    BY <1>2, PutAllDef
  <2> DEFINE S == {k \in Int : /\ Step(s, f[k], I, i)
                               /\ f[k].ok => \A p \in m .. k : Covered(f[k].d, i, p)}
  <2>2. m - 1 \in S
    BY <1>0, <2>1
  <2>3. ASSUME NEW k \in m - 1 .. n - 1, k \in S
        PROVE  k + 1 \in S
    <3> DEFINE u == f[k]
               t == f[k + 1]
    <3>1. t = Put(u, i, k + 1, v)
      <4>1. k + 1 \in m .. n /\ (k + 1) - 1 = k
        BY <2>3
      <4> QED BY <2>1, <4>1
    <3>2. Step(s, u, I, i) /\ u \in State /\ Forest(u.d, I) /\ k + 1 \in Nat
      BY <2>3 DEF Step
    <3>3. u.ok => \A p \in m .. k : Covered(u.d, i, p)
      BY <2>3
    <3> HIDE DEF u, t
    <3>4. CASE ~u.ok
      <4>1. t = u
        BY <3>1, <3>4 DEF Put
      <4> QED BY <3>2, <3>4, <4>1 DEF u, t
    <3>5. CASE u.ok
      <4>1. Step(u, t, I, i) /\ (t.ok => Covered(t.d, i, k + 1))
        BY <3>1, <3>2, <3>5, PutGrows
      <4>2. Step(s, t, I, i)
        BY <3>2, <4>1, StepTwice
      <4>3. ASSUME t.ok, NEW p \in m .. k + 1
            PROVE  Covered(t.d, i, p)
        <5>1. CASE p = k + 1
          BY <4>1, <4>3, <5>1
        <5>2. CASE p # k + 1
          <6>1. p \in m .. k
            BY <5>2
          <6>2. Covered(u.d, i, p) /\ Grows(u.d, t.d, I, i, I \ {i})
            BY <3>3, <3>5, <4>1, <6>1 DEF Step
          <6> QED BY <6>2, CoveredStays
        <5> QED BY <5>1, <5>2
      <4> QED BY <4>2, <4>3 DEF t
    <3> QED BY <3>4, <3>5
  <2> HIDE DEF S
  <2>4. m - 1 .. n \subseteq S
    BY <2>2, <2>3, Counting
  <2>5. n \in S
    BY <1>2, <2>4
  <2> QED BY <2>1, <2>5 DEF S
<1> QED BY <1>1, <1>2

LEMMA GetOrAllocAllGrows ==
  ASSUME NEW s \in State, NEW I, Forest(s.d, I), NEW i \in I,
         NEW m \in Nat, NEW n \in Int
  PROVE  LET t == GetOrAllocAll(s, i, m, n)
         IN /\ Step(s, t, I, i) /\ Grows(s.d, t.d, I, i, I)
            /\ t.ok => \A k \in m .. n : k \in 0 .. MaxBlocks - 1 /\ At(t.d, i, PlaceOf(k)) # 0
<1> DEFINE Has(d, k) == k \in 0 .. MaxBlocks - 1 /\ At(d, i, PlaceOf(k)) # 0
<1>0. Step(s, s, I, i) /\ Grows(s.d, s.d, I, i, I)
  BY GrowsNot DEF Step
<1>1. CASE ~(m <= n)
  <2>1. GetOrAllocAll(s, i, m, n) = s /\ m .. n = {}
    BY <1>1 DEF GetOrAllocAll
  <2> QED BY <1>0, <2>1
<1>2. CASE m <= n
  <2>1. PICK f : /\ f[m - 1] = s
                 /\ \A p \in m .. n : f[p] = More(f[p - 1], i, p)
                 /\ GetOrAllocAll(s, i, m, n) = f[n]
    BY <1>2, GetOrAllocAllDef
  <2> DEFINE S == {k \in Int : /\ Step(s, f[k], I, i) /\ Grows(s.d, f[k].d, I, i, I)
                               /\ f[k].ok => \A p \in m .. k : Has(f[k].d, p)}
  <2>2. m - 1 \in S
    BY <1>0, <2>1
  <2>3. ASSUME NEW k \in m - 1 .. n - 1, k \in S
        PROVE  k + 1 \in S
    <3> DEFINE u == f[k]
               t == f[k + 1]
    <3>1. t = More(u, i, k + 1)
      <4>1. k + 1 \in m .. n /\ (k + 1) - 1 = k
        BY <2>3
      <4> QED BY <2>1, <4>1
    <3>2. Step(s, u, I, i) /\ Grows(s.d, u.d, I, i, I) /\ u \in State /\ Forest(u.d, I) /\ k + 1 \in Nat
      BY <2>3 DEF Step
    <3>3. u.ok => \A p \in m .. k : Has(u.d, p)
      BY <2>3
    <3> HIDE DEF u, t
    <3>4. CASE ~u.ok
      <4>1. t = u
        BY <3>1, <3>4 DEF More
      <4> QED BY <3>2, <3>4, <4>1 DEF u, t
    <3>5. CASE u.ok
      <4>1. /\ t \in State /\ Forest(t.d, I) /\ Grows(u.d, t.d, I, i, I)
            /\ t.ok => Has(t.d, k + 1)
        BY <3>1, <3>2, <3>5, GetOrAllocGrows DEF More
      <4>2. Grows(u.d, t.d, I, i, I \ {i}) /\ Step(u, t, I, i)
        BY <3>5, <4>1, GrowsLess DEF Step
      <4>3. Step(s, t, I, i) /\ Grows(s.d, t.d, I, i, I)
        BY <3>2, <4>1, <4>2, StepTwice, GrowsTwice
      <4>4. ASSUME t.ok, NEW p \in m .. k + 1
            PROVE  Has(t.d, p)
        <5>1. CASE p = k + 1
          BY <4>1, <4>4, <5>1
        <5>2. CASE p # k + 1
          <6>1. p \in m .. k
            BY <5>2
          <6>2. Has(u.d, p)
            BY <3>3, <3>5, <6>1
          <6> QED BY <4>1, <6>2, PlaceOfBlock DEF Grows, Keeps
        <5> QED BY <5>1, <5>2
      <4> QED BY <4>3, <4>4 DEF t
    <3> QED BY <3>4, <3>5
  <2> HIDE DEF S
  <2>4. m - 1 .. n \subseteq S
    BY <2>2, <2>3, Counting
  <2>5. n \in S
    BY <1>2, <2>4
  <2> QED BY <2>1, <2>5 DEF S
<1> QED BY <1>1, <1>2
----------------------------------------------------------------------------
(* Sizes.                                                                  *)

(* Block k of a file is needed when the file goes beyond its start.        *)
LEMMA BlocksIs ==
  ASSUME NEW size \in Nat
  PROVE  /\ Blocks(size) \in Nat
         /\ \A k \in Nat : k < Blocks(size) <=> BLKSZ * k < size
<1> DEFINE c == Blocks(size)
           x == size + BLKSZ - 1
<1>1. BLKSZ \in Nat \ {0} /\ x \in Nat
  BY Sizes
<1>2. c = x \div BLKSZ
  BY DEF Blocks
<1> HIDE DEF c
<1>3. c \in Nat /\ x % BLKSZ \in 0 .. BLKSZ - 1 /\ x = BLKSZ * c + (x % BLKSZ)
  BY <1>1, <1>2, Division, Zenon
<1>4. ASSUME NEW k \in Nat
      PROVE  k < c <=> BLKSZ * k < size
  <2>1. BLKSZ * k \in Nat /\ BLKSZ * c \in Nat
    BY <1>1, <1>3
  <2>2. k < c => BLKSZ * k + BLKSZ <= BLKSZ * c
    BY <1>1, <1>3, Monotone
  <2>3. c <= k => BLKSZ * c <= BLKSZ * k
    BY <1>1, <1>3, Monotone
  <2> HIDE DEF x
  <2>4. x = size + BLKSZ - 1
    BY DEF x
  <2> QED BY <1>1, <1>3, <2>1, <2>2, <2>3, <2>4
<1> QED BY <1>3, <1>4 DEF c

LEMMA BlockNumber ==
  ASSUME NEW pos \in Nat
  PROVE  /\ pos \div BLKSZ \in Nat /\ Offset(pos) \in Cells
         /\ pos = BLKSZ * (pos \div BLKSZ) + Offset(pos)
         /\ BLKSZ * (pos \div BLKSZ) \in Nat /\ BLKSZ * (pos \div BLKSZ) <= pos
         /\ pos < BLKSZ * (pos \div BLKSZ) + BLKSZ
         /\ \A k \in Nat : BLKSZ * k <= pos => k <= pos \div BLKSZ
         /\ pos < KTFS_MAX_FILE_SIZE => pos \div BLKSZ \in 0 .. MaxBlocks - 1
         /\ pos \div BLKSZ \in 0 .. MaxBlocks - 1 => pos < KTFS_MAX_FILE_SIZE
<1> DEFINE c == pos \div BLKSZ
           o == pos % BLKSZ
<1>1. BLKSZ \in Nat \ {0}
  BY Sizes
<1>2. c \in Nat /\ o \in 0 .. BLKSZ - 1 /\ pos = BLKSZ * c + o
  BY <1>1, Division, Zenon
<1> HIDE DEF c, o
<1>3. BLKSZ * c \in Nat /\ BLKSZ * c <= pos /\ pos < BLKSZ * c + BLKSZ
  <2>1. BLKSZ * c \in Nat
    BY <1>1, <1>2
  <2> QED BY <1>1, <1>2, <2>1
<1>4. ASSUME NEW k \in Nat, BLKSZ * k <= pos
      PROVE  k <= c
  <2>1. c < k => BLKSZ * c + BLKSZ <= BLKSZ * k
    BY <1>1, <1>2, Monotone
  <2>2. BLKSZ * k \in Nat
    BY <1>1
  <2> QED BY <1>1, <1>2, <1>3, <1>4, <2>1, <2>2
<1>5. KTFS_MAX_FILE_SIZE = BLKSZ * MaxBlocks
  BY Sizes DEF KTFS_MAX_FILE_SIZE
<1>6. pos < KTFS_MAX_FILE_SIZE => c \in 0 .. MaxBlocks - 1
  <2>1. MaxBlocks <= c => BLKSZ * MaxBlocks <= BLKSZ * c
    BY <1>1, <1>2, Monotone, Sizes
  <2> QED BY <1>2, <1>3, <1>5, <2>1, Sizes
<1>7. c \in 0 .. MaxBlocks - 1 => pos < KTFS_MAX_FILE_SIZE
  <2>1. c < MaxBlocks => BLKSZ * c + BLKSZ <= BLKSZ * MaxBlocks
    BY <1>1, <1>2, Monotone, Sizes
  <2> QED BY <1>1, <1>2, <1>3, <1>5, <2>1, Sizes
<1> QED BY <1>2, <1>3, <1>4, <1>6, <1>7 DEF c, o, Offset, Cells

(* A file with the blocks that its size needs has the blocks of all its    *)
(* positions.                                                              *)
LEMMA HasBlocksCovers ==
  ASSUME NEW d, NEW i, NEW size \in Nat, HasBlocks(d, i, size), NEW pos \in Nat, pos < size
  PROVE  Covered(d, i, pos)
<1> DEFINE k == pos \div BLKSZ
<1>1. k \in Nat /\ BLKSZ * k \in Nat /\ BLKSZ * k <= pos
  BY BlockNumber
<1>2. pos < KTFS_MAX_FILE_SIZE
  BY Sizes DEF HasBlocks
<1>3. k \in 0 .. MaxBlocks - 1
  BY <1>2, BlockNumber
<1> HIDE DEF k
<1>4. k < Blocks(size)
  BY <1>1, BlocksIs
<1>5. k \in 0 .. Blocks(size) - 1
  BY <1>1, <1>4, BlocksIs
<1> QED BY <1>3, <1>5 DEF HasBlocks, Covered, Home, k

LEMMA NeededIs ==
  ASSUME NEW size \in Nat, size <= KTFS_MAX_FILE_SIZE, NEW k \in 0 .. Blocks(size) - 1
  PROVE  k \in 0 .. MaxBlocks - 1 /\ PlaceOf(k) \in Place /\ Leaf(PlaceOf(k))
<1>1. k \in Nat /\ BLKSZ * k < size /\ BLKSZ * k \in Nat
  BY BlocksIs, Sizes
<1>2. KTFS_MAX_FILE_SIZE = BLKSZ * MaxBlocks
  BY Sizes DEF KTFS_MAX_FILE_SIZE
<1>3. MaxBlocks <= k => BLKSZ * MaxBlocks <= BLKSZ * k
  BY <1>1, Monotone, Sizes
<1>4. k \in 0 .. MaxBlocks - 1
  BY <1>1, <1>2, <1>3, Sizes
<1> QED BY <1>4, PlaceOfBlock

LEMMA HasBlocksStays ==
  ASSUME NEW d, NEW e, NEW I, NEW i, NEW J, Keeps(d, e, I, i, J),
         NEW k \in I, NEW size \in Nat, HasBlocks(d, k, size)
  PROVE  HasBlocks(e, k, size)
BY NeededIs DEF HasBlocks, Keeps

LEMMA SizeType ==
  ASSUME NEW d \in Disk, NEW i \in Inode
  PROVE  d.inode[i].size \in Nat
BY DEF Disk, Node

LEMMA SizedStays ==
  ASSUME NEW d \in Disk, NEW e, NEW I \in SUBSET Inode, NEW i, NEW J,
         Grows(d, e, I, i, J), Sized(d, I)
  PROVE  Sized(e, I)
<1> SUFFICES ASSUME NEW k \in I
             PROVE  HasBlocks(e, k, e.inode[k].size)
  BY DEF Sized
<1>1. e.inode[k].size = d.inode[k].size /\ d.inode[k].size \in Nat
  BY SizeType DEF Grows
<1>2. HasBlocks(d, k, d.inode[k].size) /\ Keeps(d, e, I, i, J)
  BY DEF Sized, Grows
<1> QED BY <1>1, <1>2, HasBlocksStays

(* What position pos of a file shows.                                      *)
LEMMA CellIs ==
  ASSUME NEW d, NEW i, NEW pos \in Nat, pos \div BLKSZ \in 0 .. MaxBlocks - 1
  PROVE  CellOf(d, i, pos) = d.blk[Home(d, i, pos)][Offset(pos)]
BY PlaceOfBlock DEF CellOf, Home, Offset

LEMMA CellType ==
  ASSUME NEW d \in Disk, NEW i \in Inode, NEW pos \in Nat, pos < KTFS_MAX_FILE_SIZE
  PROVE  CellOf(d, i, pos) \in Cell
<1>1. pos \div BLKSZ \in 0 .. MaxBlocks - 1 /\ Offset(pos) \in Cells
  BY BlockNumber
<1>2. Home(d, i, pos) \in Block
  BY <1>1, PlaceOfBlock, AtType DEF Home
<1> HIDE DEF Offset
<1>3. d.blk[Home(d, i, pos)] \in [Cells -> Cell]
  BY <1>2 DEF Disk
<1> QED BY <1>1, <1>3, CellIs

LEMMA CellKept ==
  ASSUME NEW d, NEW e, NEW I, NEW i, NEW J \in SUBSET I, Keeps(d, e, I, i, J),
         NEW k \in J, NEW pos \in Nat, Covered(d, k, pos)
  PROVE  CellOf(e, k, pos) = CellOf(d, k, pos)
<1> DEFINE q == PlaceOf(pos \div BLKSZ)
<1>1. q \in Place /\ Leaf(q) /\ At(d, k, q) # 0
  BY PlaceOfBlock DEF Covered, Home
<1>2. At(e, k, q) = At(d, k, q) /\ e.blk[At(d, k, q)] = d.blk[At(d, k, q)]
  BY <1>1 DEF Keeps
<1>3. Home(e, k, pos) = Home(d, k, pos) /\ e.blk[Home(d, k, pos)] = d.blk[Home(d, k, pos)]
  BY <1>2 DEF Home
<1> QED BY <1>3, CellIs DEF Covered

(* The size of file i becomes n.                                           *)
LEMMA Resize ==
  ASSUME NEW d, NEW I, Forest(d, I), NEW i \in I, NEW n \in Nat, NEW e,
         e = [d EXCEPT !.inode[i].size = n], NEW J
  PROVE  /\ Forest(e, I) /\ Keeps(d, e, I, i, J)
         /\ e.inode[i].size = n /\ e.blk = d.blk
         /\ Sized(d, I) /\ HasBlocks(d, i, n) => Sized(e, I)
<1> DEFINE m == [d.inode EXCEPT ![i].size = n]
<1>1. d \in Disk /\ I \subseteq Inode /\ i \in Inode
  BY DEF Forest
<1>2. e = [imap |-> d.imap, bmap |-> d.bmap, inode |-> m, blk |-> d.blk]
  BY <1>1 DEF Disk
<1>3. /\ m \in [Inode -> Node] /\ m[i].size = n
      /\ \A k \in Inode : m[k].ptr = d.inode[k].ptr /\ (k # i => m[k] = d.inode[k])
  BY <1>1 DEF Disk, Node
<1>4. /\ e \in Disk /\ e.imap = d.imap /\ e.bmap = d.bmap /\ e.blk = d.blk
      /\ e.inode[i].size = n
      /\ \A k \in Inode : e.inode[k].ptr = d.inode[k].ptr /\ (k # i => e.inode[k] = d.inode[k])
  BY <1>1, <1>2, <1>3, Zenon DEF Disk
<1>5. \A k \in I : \A r \in Place : At(e, k, r) = At(d, k, r)
  BY <1>1, <1>4, Zenon DEF At
<1>6. Forest(e, I)
  BY <1>4, <1>5 DEF Forest, Marked, Apart
<1>7. Keeps(d, e, I, i, J)
  BY <1>4, <1>5 DEF Keeps
<1>8. ASSUME Sized(d, I), HasBlocks(d, i, n), NEW k \in I
      PROVE  HasBlocks(e, k, e.inode[k].size)
  <2>1. HasBlocks(d, k, e.inode[k].size) /\ e.inode[k].size \in Nat
    BY <1>1, <1>4, <1>8, SizeType DEF Sized
  <2> QED BY <1>7, <2>1, HasBlocksStays
<1> QED BY <1>4, <1>6, <1>7, <1>8, Zenon DEF Sized
----------------------------------------------------------------------------
(* What write and SETEND make of the image.                                *)

(* The image is still a forest, file i has what its size needs, the other  *)
(* files keep their data.                                                  *)
Write(d, t, I, i) == /\ t \in State /\ Forest(t.d, I) /\ Sized(t.d, I)
                     /\ Keeps(d, t.d, I, i, I \ {i})

LEMMA StepWrites ==
  ASSUME NEW s \in State, NEW t, NEW I, NEW i, I \subseteq Inode, Sized(s.d, I),
         Step(s, t, I, i)
  PROVE  Write(s.d, t, I, i)
<1>1. s.d \in Disk /\ Grows(s.d, t.d, I, i, I \ {i})
  BY DEF State, Step
<1>2. Sized(t.d, I)
  BY <1>1, SizedStays
<1> QED BY <1>1, <1>2 DEF Write, Step, Grows

LEMMA WriteTwice ==
  ASSUME NEW d, NEW t, NEW u, NEW I, NEW i, Write(d, t, I, i), Write(t.d, u, I, i)
  PROVE  Write(d, u, I, i)
BY KeepsTwice DEF Write

(* The file gets the new size n when its blocks have been made.            *)
WithSize(t, i, n)  == [t EXCEPT !.d.inode[i].size = n]
SizeSet(t, u, i, n) == u.ok = t.ok /\ u.d.inode[i].size = n

LEMMA SetSize ==
  ASSUME NEW d, NEW t, NEW I, NEW i \in I, Write(d, t, I, i), NEW n \in Nat,
         HasBlocks(t.d, i, n), NEW u, u = WithSize(t, i, n)
  PROVE  Write(d, u, I, i) /\ SizeSet(t, u, i, n)
<1> DEFINE e == [t.d EXCEPT !.inode[i].size = n]
<1>1. t \in State /\ Forest(t.d, I) /\ Sized(t.d, I) /\ Keeps(d, t.d, I, i, I \ {i})
  BY DEF Write
<1>2. u = [t EXCEPT !.d = e]
  BY <1>1 DEF State, WithSize
<1>3. /\ Forest(e, I) /\ Keeps(t.d, e, I, i, I \ {i}) /\ e.inode[i].size = n
      /\ Sized(e, I)
  BY <1>1, Resize
<1> HIDE DEF e
<1>4. e \in Disk
  BY <1>3 DEF Forest
<1>5. u \in State /\ u.d = e /\ u.ok = t.ok
  BY <1>1, <1>2, <1>4 DEF State
<1>6. Keeps(d, e, I, i, I \ {i})
  BY <1>1, <1>3, KeepsTwice
<1> QED BY <1>3, <1>5, <1>6 DEF Write, SizeSet

LEMMA HasBlocksTo ==
  ASSUME NEW d, NEW i, NEW n \in Nat \ {0}, NEW m \in Nat, m < n, Covered(d, i, n - 1),
         \A k \in 0 .. Blocks(m) - 1 : At(d, i, PlaceOf(k)) # 0,
         \A k \in Blocks(m) .. Blocks(n) - 1 : At(d, i, PlaceOf(k)) # 0
  PROVE  HasBlocks(d, i, n)
<1>1. n - 1 \in Nat /\ n - 1 < KTFS_MAX_FILE_SIZE
  BY BlockNumber DEF Covered
<1>2. Blocks(m) \in Nat /\ Blocks(n) \in Nat
  BY BlocksIs
<1>3. \A k \in 0 .. Blocks(n) - 1 :
        k \in 0 .. Blocks(m) - 1 \/ k \in Blocks(m) .. Blocks(n) - 1
  BY <1>2
<1>4. n <= KTFS_MAX_FILE_SIZE
  BY <1>1, Sizes
<1> QED BY <1>3, <1>4 DEF HasBlocks

(* The last of the blocks that n positions need is that of the last one.   *)
LEMMA LastBlock ==
  ASSUME NEW n \in Nat \ {0}
  PROVE  Blocks(n) - 1 = (n - 1) \div BLKSZ
<1> DEFINE c == (n - 1) \div BLKSZ
<1>1. n - 1 \in Nat
  OBVIOUS
<1>2. /\ c \in Nat /\ BLKSZ * c \in Nat /\ BLKSZ * c <= n - 1
      /\ \A k \in Nat : BLKSZ * k <= n - 1 => k <= c
  BY <1>1, BlockNumber
<1> HIDE DEF c
<1>3. Blocks(n) \in Nat /\ \A k \in Nat : k < Blocks(n) <=> BLKSZ * k < n
  BY BlocksIs
<1>4. c < Blocks(n)
  BY <1>2, <1>3
<1>5. ~(c + 1 < Blocks(n))
  <2>1. SUFFICES ASSUME c + 1 < Blocks(n)
                 PROVE  FALSE
    OBVIOUS
  <2>2. c + 1 \in Nat /\ BLKSZ * (c + 1) < n /\ BLKSZ * (c + 1) \in Nat
    BY <1>2, <1>3, <2>1, Sizes
  <2>3. BLKSZ * (c + 1) <= n - 1
    BY <2>2
  <2>4. c + 1 <= c
    BY <1>2, <2>2, <2>3
  <2> QED BY <1>2, <2>4
<1> QED BY <1>2, <1>3, <1>4, <1>5 DEF c

LEMMA FillGapGrows ==
  ASSUME NEW s \in State, NEW I, Forest(s.d, I), Sized(s.d, I), NEW i \in I, NEW pos \in Nat
  PROVE  LET t == FillGap(s, i, pos)
         IN /\ Write(s.d, t, I, i)
            /\ t.ok => s.ok /\ pos <= t.d.inode[i].size
<1> DEFINE old  == s.d.inode[i].size
           n    == Lesser(pos, Blocks(old) * BLKSZ) - 1
           rest == PutAll(s, i, old, n, Zero)
           last == (pos - 1) \div BLKSZ
           u    == GetOrAllocAll(rest, i, Blocks(old), last)
           t    == FillGap(s, i, pos)
<1>1. /\ I \subseteq Inode /\ old \in Nat /\ Blocks(old) \in Nat
      /\ Blocks(old) * BLKSZ \in Int /\ n \in Int
  <2>1. I \subseteq Inode /\ s.d \in Disk
    BY DEF Forest
  <2>2. old \in Nat
    BY <2>1, SizeType
  <2>3. Blocks(old) \in Nat
    BY <2>2, BlocksIs
  <2> HIDE DEF old
  <2> QED BY <2>1, <2>2, <2>3, Sizes DEF Lesser
<1> HIDE DEF n
<1>2. CASE ~(pos > old)
  <2>1. t = s
    BY <1>2 DEF FillGap
  <2>2. Write(s.d, s, I, i)
    BY KeepsNot DEF Write
  <2> QED BY <1>1, <1>2, <2>1, <2>2
<1>3. CASE pos > old
  <2>0. pos \in Nat \ {0} /\ pos - 1 \in Nat
    BY <1>1, <1>3
  <2>1. Step(s, rest, I, i)
    BY <1>1, PutAllGrows, CellTypes
  <2>2. rest \in State /\ Forest(rest.d, I)
    BY <2>1 DEF Step
  <2>3. last \in Nat /\ last = Blocks(pos) - 1
    BY <2>0, BlockNumber, LastBlock
  <2> HIDE DEF rest, last, old
  <2>4. /\ Step(rest, u, I, i)
        /\ u.ok => \A k \in Blocks(old) .. last :
                     k \in 0 .. MaxBlocks - 1 /\ At(u.d, i, PlaceOf(k)) # 0
    BY <1>1, <2>2, <2>3, GetOrAllocAllGrows
  <2>5. Step(s, u, I, i)
    BY <2>1, <2>4, StepTwice
  <2>6. Write(s.d, u, I, i) /\ (u.ok => s.ok)
    BY <1>1, <2>5, StepWrites, Zenon DEF Step
  <2>7. t = IF u.ok THEN [u EXCEPT !.d.inode[i].size = pos] ELSE u
    BY <1>3, Zenon DEF FillGap, old, rest, last, n
  <2> HIDE DEF t, u
  <2>8. CASE ~u.ok
    BY <2>6, <2>7, <2>8 DEF t
  <2>9. CASE u.ok
    <3>1. \A k \in 0 .. Blocks(old) - 1 : At(u.d, i, PlaceOf(k)) # 0
      <4>1. HasBlocks(s.d, i, old)
        BY DEF Sized, old
      <4>2. Keeps(s.d, u.d, I, i, I \ {i})
        BY <2>6 DEF Write
      <4>3. HasBlocks(u.d, i, old)
        BY <1>1, <4>1, <4>2, HasBlocksStays
      <4> QED BY <4>3 DEF HasBlocks
    <3>2. \A k \in Blocks(old) .. Blocks(pos) - 1 : At(u.d, i, PlaceOf(k)) # 0
      BY <2>3, <2>4, <2>9
    <3>3. Covered(u.d, i, pos - 1)
      <4>1. CASE last \in 0 .. Blocks(old) - 1
        <5>1. old <= KTFS_MAX_FILE_SIZE
          BY DEF Sized, HasBlocks, old
        <5>2. last \in 0 .. MaxBlocks - 1
          BY <1>1, <4>1, <5>1, NeededIs
        <5> QED BY <3>1, <4>1, <5>2 DEF Covered, Home, last
      <4>2. CASE last \in Blocks(old) .. last
        BY <2>4, <2>9, <4>2 DEF Covered, Home, last
      <4> QED BY <1>1, <2>3, <4>1, <4>2
    <3>4. HasBlocks(u.d, i, pos)
      BY <1>1, <1>3, <2>0, <3>1, <3>2, <3>3, HasBlocksTo
    <3>5. t = WithSize(u, i, pos)
      BY <2>7, <2>9 DEF WithSize
    <3>6. Write(s.d, t, I, i) /\ SizeSet(u, t, i, pos)
      BY <2>6, <3>4, <3>5, SetSize
    <3> QED BY <2>6, <2>9, <3>6 DEF t, SizeSet
  <2> QED BY <2>8, <2>9 DEF t
<1> QED BY <1>2, <1>3

LEMMA WrittenGrows ==
  ASSUME NEW I, Forest(disk, I), Sized(disk, I), NEW f, f.inode \in I, f.name \in Name,
         f.pos \in Nat, NEW len \in Nat \ {0}
  PROVE  /\ Write(disk, Written(f, len), I, f.inode)
         /\ Written(f, len).ok =>
              \A p \in f.pos .. f.pos + len - 1 : Covered(Written(f, len).d, f.inode, p)
<1> DEFINE i    == f.inode
           pos  == f.pos
           last == pos + len - 1
           v    == Data(f.name)
           g    == FillGap(Begin(disk), i, pos)
           s    == PutAll(g, i, pos, last, v)
           t    == Written(f, len)
<1>1. /\ pos \in Nat /\ len \in Nat \ {0} /\ last \in Nat /\ last = pos + len - 1
      /\ i \in I /\ v \in Cell /\ I \subseteq Inode
  BY CellTypes DEF Forest
<1>2. t = IF s.ok /\ pos + len > s.d.inode[i].size
            THEN [s EXCEPT !.d.inode[i].size = pos + len] ELSE s
  BY DEF Written
<1> HIDE DEF i, pos, last, v, t
<1>3. Begin(disk) \in State /\ Begin(disk).d = disk
  BY NodeTypes DEF Forest
<1>4. Write(disk, g, I, i) /\ (g.ok => pos <= g.d.inode[i].size)
  BY <1>1, <1>3, FillGapGrows
<1> HIDE DEF g
<1>5. Step(g, s, I, i) /\ (s.ok => \A p \in pos .. last : Covered(s.d, i, p))
  <2>1. g \in State /\ Forest(g.d, I) /\ last \in Int
    BY <1>1, <1>4 DEF Write
  <2> QED BY <1>1, <2>1, PutAllGrows, Zenon
<1> HIDE DEF s
<1>6. Write(disk, s, I, i)
  <2>1. Write(g.d, s, I, i)
    BY <1>1, <1>4, <1>5, StepWrites, Zenon DEF Write
  <2> QED BY <1>4, <2>1, WriteTwice
<1>7. CASE ~(s.ok /\ pos + len > s.d.inode[i].size)
  BY <1>2, <1>5, <1>6, <1>7 DEF i, t, pos, last
<1>8. CASE s.ok /\ pos + len > s.d.inode[i].size
  <2> DEFINE n == pos + len
             size == s.d.inode[i].size
  <2>1. s.d \in Disk /\ i \in Inode /\ n \in Nat /\ n - 1 = last
    BY <1>1, <1>6 DEF Write, Forest
  <2>2. size \in Nat /\ HasBlocks(s.d, i, size)
    BY <1>1, <1>6, <2>1, SizeType DEF Write, Sized
  <2>3. g.ok /\ pos <= g.d.inode[i].size /\ g.d.inode[i].size = size
    BY <1>4, <1>5, <1>8, <2>1 DEF Step, Grows
  <2>4. \A p \in 0 .. last : Covered(s.d, i, p)
    <3>1. ASSUME NEW p \in 0 .. last
          PROVE  Covered(s.d, i, p)
      <4>1. CASE p < size
        BY <2>2, <3>1, <4>1, HasBlocksCovers
      <4>2. CASE p >= size
        <5>1. p \in pos .. last
          BY <1>1, <2>2, <2>3, <3>1, <4>2
        <5> QED BY <1>5, <1>8, <5>1
      <4> QED BY <2>2, <4>1, <4>2
    <3> QED BY <3>1
  <2>5. HasBlocks(s.d, i, n)
    <3>1. n <= KTFS_MAX_FILE_SIZE
      <4>1. Covered(s.d, i, last)
        BY <1>1, <2>4
      <4>2. last < KTFS_MAX_FILE_SIZE
        BY <1>1, <4>1, BlockNumber DEF Covered
      <4> QED BY <1>1, <2>1, <4>2, Sizes
    <3>2. ASSUME NEW k \in 0 .. Blocks(n) - 1
          PROVE  At(s.d, i, PlaceOf(k)) # 0
      <4>1. k \in Nat /\ BLKSZ * k < n /\ BLKSZ * k \in Nat
        BY <2>1, BlocksIs, Sizes
      <4>2. (BLKSZ * k) \div BLKSZ = k
        BY <4>1, DivisionUnique, Sizes
      <4>3. BLKSZ * k \in 0 .. last
        BY <2>1, <4>1
      <4> QED BY <2>4, <4>2, <4>3 DEF Covered, Home
    <3> QED BY <3>1, <3>2 DEF HasBlocks
  <2>6. t = WithSize(s, i, n)
    BY <1>2, <1>8 DEF WithSize
  <2> HIDE DEF n
  <2>7. Write(disk, t, I, i) /\ SizeSet(s, t, i, n) /\ Write(s.d, t, I, i)
    <3>1. Write(disk, t, I, i) /\ SizeSet(s, t, i, n)
      BY <1>1, <1>6, <2>1, <2>5, <2>6, SetSize
    <3>2. Write(s.d, s, I, i)
      BY <1>6, KeepsNot DEF Write
    <3>3. Write(s.d, t, I, i)
      BY <1>1, <2>1, <2>5, <2>6, <3>2, SetSize
    <3> QED BY <3>1, <3>3
  <2>8. ASSUME NEW p \in pos .. last
        PROVE  Covered(t.d, i, p)
    <3>1. Covered(s.d, i, p)
      BY <1>5, <1>8
    <3>2. Keeps(s.d, t.d, I, i, I \ {i})
      BY <2>7 DEF Write
    <3> QED BY <1>1, <3>1, <3>2, PlaceOfBlock DEF Covered, Home, Keeps
  <2> QED BY <2>7, <2>8 DEF i, t, pos, last
<1> QED BY <1>7, <1>8

(* SETEND makes the blocks first and then sets the size.                   *)
LEMMA ResizedGrows ==
  ASSUME NEW I, Forest(disk, I), Sized(disk, I), NEW h, file[h].inode \in I, NEW size \in Nat,
         size <= KTFS_MAX_FILE_SIZE
  PROVE  /\ Write(disk, Resized(h, size), I, file[h].inode)
         /\ Resized(h, size).ok => HasBlocks(Resized(h, size).d, file[h].inode, size)
<1> DEFINE i   == file[h].inode
           old == disk.inode[i].size
           t   == Resized(h, size)
<1>1. Begin(disk) \in State /\ Begin(disk).d = disk /\ I \subseteq Inode /\ disk \in Disk
  BY NodeTypes DEF Forest
<1>2. t = GetOrAllocAll(Begin(disk), i, Blocks(old), Blocks(size) - 1)
  BY DEF Resized
<1>3. i \in I
  OBVIOUS
<1> HIDE DEF i, t
<1>4. old \in Nat /\ HasBlocks(disk, i, old)
  BY <1>1, <1>3, SizeType DEF Sized
<1> HIDE DEF old
<1>5. Blocks(old) \in Nat /\ Blocks(size) \in Nat
  BY <1>4, BlocksIs
<1>6. /\ Step(Begin(disk), t, I, i)
      /\ t.ok => \A k \in Blocks(old) .. Blocks(size) - 1 :
                   k \in 0 .. MaxBlocks - 1 /\ At(t.d, i, PlaceOf(k)) # 0
  BY <1>1, <1>2, <1>3, <1>5, GetOrAllocAllGrows
<1>7. Write(disk, t, I, i)
  BY <1>1, <1>6, StepWrites
<1>8. ASSUME t.ok
      PROVE  HasBlocks(t.d, i, size)
  <2>1. HasBlocks(t.d, i, old)
    BY <1>3, <1>4, <1>7, HasBlocksStays DEF Write
  <2> QED BY <1>5, <1>6, <1>8, <2>1 DEF HasBlocks
<1> QED BY <1>7, <1>8 DEF i, t

(* When SETEND fails the blocks it made stay marked, but the inode is not  *)
(* written: its old pointers and what hangs from them are as before.       *)
LEMMA InodeNotWritten ==
  ASSUME NEW d, NEW I, Forest(d, I), Sized(d, I), NEW t, NEW i, NEW J, Forest(t, I),
         Grows(d, t, I, i, J), NEW e, e = [t EXCEPT !.inode = d.inode]
  PROVE  Forest(e, I) /\ Sized(e, I) /\ Grows(d, e, I, i, J)
<1>1. /\ d \in Disk /\ t \in Disk /\ I \subseteq Inode /\ d.blk[0] = ZeroBlock
      /\ t.blk[0] = ZeroBlock /\ Keeps(d, t, I, i, J) /\ 0 \in t.bmap
  BY DEF Forest, Grows
<1>2. /\ e \in Disk /\ e.imap = t.imap /\ e.bmap = t.bmap /\ e.blk = t.blk
      /\ e.inode = d.inode
  BY <1>1, Zenon DEF Disk
<1>3. ASSUME NEW k \in I
      PROVE  \A r \in Place : /\ At(e, k, r) = At(t, k, r) \/ At(e, k, r) = 0
                              /\ At(d, k, r) # 0 => At(e, k, r) = At(d, k, r)
  <2> DEFINE S == {r \in Place : /\ At(e, k, r) = At(t, k, r) \/ At(e, k, r) = 0
                                 /\ At(d, k, r) # 0 => At(e, k, r) = At(d, k, r)}
  <2>1. ASSUME NEW r \in Place, r[2] = -1
        PROVE  r \in S
    <3>1. At(e, k, r) = At(d, k, r)
      <4>1. /\ At(e, k, r) = e.inode[k].ptr[Index(r)]
            /\ At(d, k, r) = d.inode[k].ptr[Index(r)]
        BY <2>1, AtTop, Zenon
      <4>2. e.inode = d.inode
        BY <1>2
      <4> QED BY <4>1, <4>2
    <3>2. At(d, k, r) # 0 => At(t, k, r) = At(d, k, r)
      BY <1>1 DEF Keeps
    <3> QED BY <3>1, <3>2
  <2>2. ASSUME NEW r \in Place, r[2] # -1, Up(r) \in S
        PROVE  r \in S
    <3> DEFINE j == Index(r)
    <3>0. Up(r) \in Place /\ j \in Cells
      BY <2>2, PlaceShape, TopSlots
    <3>1. /\ At(e, k, r) = Target(e.blk[At(e, k, Up(r))][j])
          /\ At(d, k, r) = Target(d.blk[At(d, k, Up(r))][j])
          /\ At(t, k, r) = Target(t.blk[At(t, k, Up(r))][j])
          /\ Up(r) \in Place /\ j \in Cells
      BY <2>2, <3>0, AtBelow, Zenon
    <3>2. Target(ZeroBlock[j]) = 0
      BY <3>1, Targets1 DEF ZeroBlock, Cells
    <3>3. /\ At(e, k, Up(r)) = At(t, k, Up(r)) \/ At(e, k, Up(r)) = 0
          /\ At(d, k, Up(r)) # 0 => At(e, k, Up(r)) = At(d, k, Up(r))
      BY <2>2
    <3>4. At(e, k, r) = At(t, k, r) \/ At(e, k, r) = 0
      BY <1>1, <1>2, <3>1, <3>2, <3>3
    <3>5. ASSUME At(d, k, r) # 0
          PROVE  At(e, k, r) = At(d, k, r)
      <4>1. At(d, k, Up(r)) # 0
        BY <1>1, <3>1, <3>2, <3>5
      <4>2. At(e, k, Up(r)) = At(d, k, Up(r)) /\ At(t, k, Up(r)) = At(d, k, Up(r))
        BY <1>1, <3>1, <3>3, <4>1 DEF Keeps
      <4>3. At(e, k, r) = At(t, k, r)
        BY <1>2, <3>1, <4>2
      <4>4. At(t, k, r) = At(d, k, r)
        BY <1>1, <3>5 DEF Keeps
      <4> QED BY <4>3, <4>4
    <3> QED BY <2>2, <3>4, <3>5
  <2> HIDE DEF S
  <2>3. Place \subseteq S
    BY <2>1, <2>2, Descent
  <2> QED BY <2>3 DEF S
<1>4. Forest(e, I)
  <2>1. Marked(e, I)
    BY <1>1, <1>2, <1>3 DEF Marked, Forest
  <2>2. Apart(e, I)
    <3>1. ASSUME NEW k \in I, NEW l \in I, NEW q \in Place, NEW r \in Place,
                 At(e, k, q) = At(e, l, r), At(e, k, q) # 0
          PROVE  k = l /\ q = r
      <4>1. At(t, k, q) = At(t, l, r) /\ At(t, k, q) # 0
        BY <1>3, <3>1
      <4> QED BY <4>1 DEF Forest, Apart
    <3> QED BY <3>1 DEF Apart
  <2> QED BY <1>1, <1>2, <2>1, <2>2 DEF Forest
<1>5. Grows(d, e, I, i, J)
  BY <1>1, <1>2, <1>3 DEF Grows, Keeps
<1>6. Sized(e, I)
  BY <1>1, <1>5, SizedStays
<1> QED BY <1>4, <1>5, <1>6
----------------------------------------------------------------------------
(* The directory.                                                          *)

(* e has the directory of d.                                               *)
SameDir(d, e) ==
  /\ e.inode[ROOT] = d.inode[ROOT] /\ d.imap \subseteq e.imap
  /\ \A j \in Entries(d) : EntryAt(e, j) = EntryAt(d, j)

LEMMA EntriesIs ==
  ASSUME NEW d, d.inode[ROOT].size \in Nat, NEW j \in Entries(d)
  PROVE  /\ j \in Nat /\ j * DENSZ \in Nat /\ j * DENSZ + DENSZ <= d.inode[ROOT].size
<1> DEFINE size == d.inode[ROOT].size
           c    == size \div DENSZ
<1>1. DENSZ \in Nat \ {0} /\ size \in Nat
  BY Sizes
<1> HIDE DEF size
<1>2. c \in Nat /\ size = DENSZ * c + (size % DENSZ) /\ size % DENSZ \in Nat
  BY <1>1, Division
<1>3. j \in Nat /\ j < c
  BY <1>2 DEF Entries, size
<1> HIDE DEF c
<1>4. DENSZ * j + DENSZ <= DENSZ * c /\ DENSZ * j \in Nat
  BY <1>1, <1>2, <1>3, Monotone
<1>5. DENSZ * c \in Int /\ DENSZ * j = j * DENSZ
  BY <1>1, <1>2, <1>3
<1> QED BY <1>1, <1>2, <1>3, <1>4, <1>5 DEF size

(* A call that writes to a file leaves the directory as it is.             *)
LEMMA DirKept ==
  ASSUME NEW d, NEW e, NEW I, NEW i, Forest(d, I), Sized(d, I), ROOT \in I, i # ROOT,
         Keeps(d, e, I, i, I \ {i})
  PROVE  SameDir(d, e) /\ e.imap = d.imap
<1>1. d \in Disk /\ ROOT \in Inode /\ d.inode[ROOT].size \in Nat
  BY Sizes, SizeType DEF Forest
<1>2. e.inode[ROOT] = d.inode[ROOT] /\ e.imap = d.imap
  BY <1>1 DEF Keeps
<1>3. ASSUME NEW j \in Entries(d)
      PROVE  EntryAt(e, j) = EntryAt(d, j)
  <2> DEFINE pos == j * DENSZ
  <2>1. pos \in Nat /\ pos + DENSZ <= d.inode[ROOT].size
    BY <1>1, EntriesIs
  <2> HIDE DEF pos
  <2>2. pos < d.inode[ROOT].size
    BY <1>1, <2>1, Sizes
  <2>3. Covered(d, ROOT, pos)
    BY <1>1, <2>1, <2>2, HasBlocksCovers DEF Sized
  <2>4. ROOT \in I \ {i}
    OBVIOUS
  <2>5. CellOf(e, ROOT, pos) = CellOf(d, ROOT, pos)
    BY <2>1, <2>3, <2>4, CellKept
  <2> QED BY <2>5 DEF pos, EntryAt
<1> QED BY <1>2, <1>3 DEF SameDir

LEMMA SameDirOK ==
  ASSUME NEW d, NEW e, SameDir(d, e), DirOK(d)
  PROVE  DirOK(e) /\ \A f : HandleOK(f, d) => HandleOK(f, e)
<1>1. Entries(e) = Entries(d)
  BY DEF SameDir, Entries
<1>2. DirOK(e)
  BY <1>1 DEF SameDir, DirOK
<1> QED BY <1>1, <1>2 DEF SameDir, HandleOK

(* The number of entries.                                                  *)
Count(d) == d.inode[ROOT].size \div DENSZ

LEMMA CountIs ==
  ASSUME NEW d \in Disk, DirOK(d)
  PROVE  /\ Count(d) \in Nat /\ d.inode[ROOT].size = Count(d) * DENSZ
         /\ Count(d) <= NINO - 1 /\ Entries(d) = 0 .. Count(d) - 1
<1> DEFINE size == d.inode[ROOT].size
           c    == Count(d)
<1>1. size \in Nat /\ DENSZ \in Nat \ {0} /\ NINO - 1 \in Nat
  BY Sizes, SizeType
<1>2. size % DENSZ = 0 /\ size <= (NINO - 1) * DENSZ
  BY DEF DirOK
<1>3. c = size \div DENSZ
  BY DEF Count
<1> HIDE DEF size, c
<1>4. c \in Nat /\ size = DENSZ * c
  <2>1. c \in Nat /\ size = DENSZ * c + (size % DENSZ)
    BY <1>1, <1>3, Division
  <2>2. DENSZ * c \in Nat
    BY <1>1, <2>1
  <2> QED BY <1>2, <2>1, <2>2
<1>5. c <= NINO - 1
  <2>1. NINO - 1 < c => DENSZ * (NINO - 1) + DENSZ <= DENSZ * c
    BY <1>1, <1>4, Monotone
  <2>2. DENSZ * (NINO - 1) \in Int /\ DENSZ * (NINO - 1) = (NINO - 1) * DENSZ
    BY <1>1
  <2> QED BY <1>1, <1>2, <1>4, <2>1, <2>2
<1>6. Entries(d) = 0 .. c - 1
  BY DEF Entries, c, Count
<1>7. size = c * DENSZ
  BY <1>1, <1>4
<1> QED BY <1>4, <1>5, <1>6, <1>7 DEF size, c

LEMMA EntryIs ==
  ASSUME NEW d \in Disk, DirOK(d), NEW j \in Entries(d)
  PROVE  /\ EntryAt(d, j)[2] \in d.imap \ {ROOT} /\ EntryAt(d, j)[2] \in Inode
         /\ EntryAt(d, j)[3] \in Name
         /\ EntryAt(d, j) = Dentry(EntryAt(d, j)[2], EntryAt(d, j)[3])
         /\ EntryAt(d, j) \in Cell
<1>1. PICK i \in d.imap \ {ROOT}, n \in Name : EntryAt(d, j) = Dentry(i, n)
  BY DEF DirOK
<1>2. i \in Inode
  BY DEF Disk
<1>3. EntryAt(d, j)[2] = i /\ EntryAt(d, j)[3] = n
  BY <1>1, <1>2, DentryFields
<1> QED BY <1>1, <1>2, <1>3, CellTypes

(* Each entry has an inode of its own, and there is a free one.            *)
LEMMA RoomForEntry ==
  ASSUME NEW d \in Disk, DirOK(d), d.imap # Inode
  PROVE  Count(d) + 1 <= NINO - 1
<1> DEFINE S == Entries(d)
           T == d.imap \ {ROOT}
           f == [j \in S |-> EntryAt(d, j)[2]]
<1>1. /\ Count(d) \in Nat /\ S = 0 .. Count(d) - 1 /\ NINO \in Nat \ {0, 1} /\ ROOT \in Inode
      /\ d.imap \subseteq Inode
  BY CountIs, Sizes DEF Disk
<1>2. PICK free \in Inode : free \notin d.imap
  BY <1>1, Zenon
<1>3. ROOT \in d.imap
  BY DEF DirOK
<1>4. f \in [S -> T]
  BY EntryIs
<1>5. \A j, l \in S : f[j] = f[l] => j = l
  BY DEF DirOK
<1> HIDE DEF f
<1>6. IsFiniteSet(S) /\ Cardinality(S) = Count(d)
  BY <1>1, FS_Interval
<1>7. IsFiniteSet(Inode) /\ Cardinality(Inode) = NINO
  BY <1>1, FS_Interval DEF Inode
<1>8. IsFiniteSet(T) /\ Cardinality(T) <= NINO - 2 /\ Cardinality(T) \in Nat
  <2> DEFINE U == (Inode \ {ROOT}) \ {free}
  <2>1. /\ IsFiniteSet(Inode \ {ROOT}) /\ Cardinality(Inode \ {ROOT}) = NINO - 1
    BY <1>1, <1>7, FS_RemoveElement
  <2>2. free \in Inode \ {ROOT}
    BY <1>2, <1>3
  <2>3. IsFiniteSet(U) /\ Cardinality(U) = NINO - 2
    <3> DEFINE V == Inode \ {ROOT}
    <3>1. IsFiniteSet(V) /\ Cardinality(V) = NINO - 1 /\ free \in V
      BY <2>1, <2>2
    <3> HIDE DEF V
    <3>2. IsFiniteSet(V \ {free}) /\ Cardinality(V \ {free}) = Cardinality(V) - 1
      BY <3>1, FS_RemoveElement, Zenon
    <3> QED BY <1>1, <3>1, <3>2 DEF V
  <2>4. T \in SUBSET U
    BY <1>1, <1>2
  <2> HIDE DEF U, T
  <2> QED BY <2>3, <2>4, FS_Subset, FS_CardinalityType
<1> HIDE DEF S, T
<1>9. ~(Cardinality(T) < Cardinality(S))
  <2>1. Cardinality(T) < Cardinality(S) => \E j, l \in S : j # l /\ f[j] = f[l]
    BY <1>4, <1>6, <1>8, FS_PigeonHole
  <2> QED BY <1>5, <2>1
<1> QED BY <1>1, <1>6, <1>8, <1>9

(* A position of the directory is in a direct block.                       *)
LEMMA DirPosition ==
  ASSUME DirFits, NEW c \in Nat, c + 1 <= NINO - 1
  PROVE  /\ c * DENSZ \in Nat /\ c * DENSZ + DENSZ \in Nat
         /\ c * DENSZ + DENSZ <= NDIRECT * BLKSZ
         /\ (c * DENSZ) \div BLKSZ \in 0 .. NDIRECT - 1
         /\ NDIRECT * BLKSZ <= KTFS_MAX_FILE_SIZE /\ NDIRECT <= MaxBlocks
<1> DEFINE pos == c * DENSZ
           k   == pos \div BLKSZ
<1>1. DENSZ \in Nat \ {0} /\ BLKSZ \in Nat \ {0} /\ NDIRECT \in Nat \ {0} /\ NINO - 1 \in Nat
  BY Sizes
<1>2. pos \in Nat
  BY <1>1
<1>3. pos + DENSZ <= NDIRECT * BLKSZ
  <2>1. /\ DENSZ * (c + 1) <= DENSZ * (NINO - 1) /\ DENSZ * (c + 1) \in Nat
    BY <1>1, Monotone
  <2>2. pos + DENSZ = DENSZ * (c + 1) /\ DENSZ * (NINO - 1) = (NINO - 1) * DENSZ
    BY <1>1
  <2>3. (NINO - 1) * DENSZ \in Int /\ NDIRECT * BLKSZ \in Int
    BY <1>1
  <2> HIDE DEF pos
  <2> QED BY <1>1, <1>2, <2>1, <2>2, <2>3 DEF DirFits
<1> HIDE DEF pos
<1>4. k \in Nat /\ BLKSZ * k \in Nat /\ BLKSZ * k <= pos
  BY <1>2, BlockNumber
<1> HIDE DEF k
<1>5. k < NDIRECT
  <2>1. NDIRECT <= k => BLKSZ * NDIRECT <= BLKSZ * k
    BY <1>1, <1>4, Monotone
  <2>2. BLKSZ * NDIRECT \in Int /\ BLKSZ * NDIRECT = NDIRECT * BLKSZ
    BY <1>1
  <2> QED BY <1>1, <1>2, <1>3, <1>4, <2>1, <2>2
<1>6. NDIRECT <= MaxBlocks
  <2>1. NDINDIRECT * PTRS * PTRS \in Nat /\ PTRS \in Nat
    BY Sizes
  <2> HIDE DEF MaxBlocks
  <2>2. MaxBlocks = NDIRECT + PTRS + NDINDIRECT * PTRS * PTRS
    BY DEF MaxBlocks
  <2> QED BY <1>1, <2>1, <2>2
<1>7. NDIRECT * BLKSZ <= KTFS_MAX_FILE_SIZE
  <2>1. BLKSZ * NDIRECT <= BLKSZ * MaxBlocks
    BY <1>1, <1>6, Monotone, Sizes
  <2>2. BLKSZ * NDIRECT = NDIRECT * BLKSZ /\ BLKSZ * MaxBlocks = MaxBlocks * BLKSZ
    BY <1>1, Sizes
  <2> QED BY <2>1, <2>2 DEF KTFS_MAX_FILE_SIZE
<1> QED BY <1>1, <1>2, <1>3, <1>4, <1>5, <1>6, <1>7 DEF pos, k

LEMMA SamePosition ==
  ASSUME NEW d, NEW I, Forest(d, I), ROOT \in I, NEW p \in Nat, NEW r \in Nat,
         p \div BLKSZ \in 0 .. NDIRECT - 1, r \div BLKSZ \in 0 .. NDIRECT - 1,
         NDIRECT <= MaxBlocks,
         Home(d, ROOT, p) = Home(d, ROOT, r), Home(d, ROOT, p) # 0, Offset(p) = Offset(r)
  PROVE  p = r
<1> DEFINE j == p \div BLKSZ
           k == r \div BLKSZ
<1>1. /\ p = BLKSZ * j + Offset(p) /\ r = BLKSZ * k + Offset(r)
  BY BlockNumber
<1>2. /\ j \in 0 .. MaxBlocks - 1 /\ k \in 0 .. MaxBlocks - 1 /\ j < NDIRECT /\ k < NDIRECT
  BY Sizes
<1> HIDE DEF j, k
<1>3. /\ PlaceOf(j) = <<j, -1, -1>> /\ PlaceOf(k) = <<k, -1, -1>>
      /\ PlaceOf(j) \in Place /\ PlaceOf(k) \in Place
  BY <1>2, PlaceOfBlock
<1>4. PlaceOf(j) = PlaceOf(k)
  BY <1>3 DEF Forest, Apart, Home, j, k
<1>5. j = k
  BY <1>3, <1>4
<1> QED BY <1>1, <1>5

(* Writing an entry changes no other.                                      *)
LEMMA EntryWritten ==
  ASSUME DirFits, NEW d, NEW I, Forest(d, I), ROOT \in I,
         NEW c \in Nat, c + 1 <= NINO - 1, NEW l \in Nat, l + 1 <= NINO - 1,
         Home(d, ROOT, c * DENSZ) # 0, NEW v, NEW e, Wrote(d, e, I, ROOT, c * DENSZ, v)
  PROVE  EntryAt(e, l) = IF l = c THEN v ELSE EntryAt(d, l)
<1> DEFINE p == c * DENSZ
           r == l * DENSZ
           b == Home(d, ROOT, p)
<1>1. /\ p \in Nat /\ r \in Nat /\ NDIRECT <= MaxBlocks
      /\ p \div BLKSZ \in 0 .. NDIRECT - 1 /\ r \div BLKSZ \in 0 .. NDIRECT - 1
      /\ p = r <=> c = l
  <2>1. /\ p \in Nat /\ r \in Nat /\ NDIRECT <= MaxBlocks
        /\ p \div BLKSZ \in 0 .. NDIRECT - 1 /\ r \div BLKSZ \in 0 .. NDIRECT - 1
    BY DirPosition
  <2>2. c < l => DENSZ * c + DENSZ <= DENSZ * l
    BY Monotone, Sizes
  <2>3. l < c => DENSZ * l + DENSZ <= DENSZ * c
    BY Monotone, Sizes
  <2>4. p = DENSZ * c /\ r = DENSZ * l
    BY Sizes
  <2> QED BY <2>1, <2>2, <2>3, <2>4, Sizes
<1>2. EntryAt(e, l) = CellOf(e, ROOT, r) /\ EntryAt(d, l) = CellOf(d, ROOT, r)
  BY DEF EntryAt
<1>3. b # 0 /\ Wrote(d, e, I, ROOT, p, v)
  OBVIOUS
<1> HIDE DEF p, r, b
<1>4. r \div BLKSZ \in 0 .. MaxBlocks - 1 /\ Offset(r) \in Cells
  BY <1>1, BlockNumber, Sizes
<1>5. /\ CellOf(e, ROOT, r) = e.blk[Home(e, ROOT, r)][Offset(r)]
      /\ CellOf(d, ROOT, r) = d.blk[Home(d, ROOT, r)][Offset(r)]
  BY <1>1, <1>4, CellIs
<1>6. /\ Home(e, ROOT, r) = Home(d, ROOT, r)
      /\ \A x \in Block : x # b => e.blk[x] = d.blk[x]
      /\ \A j \in Cells : e.blk[b][j] = IF j = Offset(p) THEN v ELSE d.blk[b][j]
  BY <1>3, <1>4, PlaceOfBlock DEF Wrote, Home, b
<1>7. Home(d, ROOT, r) \in Block
  BY <1>4, PlaceOfBlock, AtType DEF Home, Forest
<1>8. CASE l = c
  <2>1. p = r
    BY <1>1, <1>8
  <2>2. e.blk[b][Offset(r)] = v
    BY <1>4, <1>6, <2>1
  <2> QED BY <1>2, <1>5, <1>6, <1>8, <2>1, <2>2 DEF b
<1>9. CASE l # c
  <2>1. ~(Home(d, ROOT, r) = b /\ Offset(r) = Offset(p))
    <3>1. p # r
      BY <1>1, <1>9
    <3> QED BY <1>1, <1>3, <3>1, SamePosition DEF b
  <2>2. e.blk[Home(d, ROOT, r)][Offset(r)] = d.blk[Home(d, ROOT, r)][Offset(r)]
    BY <1>4, <1>6, <1>7, <2>1
  <2> QED BY <1>2, <1>5, <1>6, <1>9, <2>2
<1> QED BY <1>8, <1>9

(* An entry starts in the block of the end of the directory; when it does  *)
(* not start a block it ends in it.                                        *)
LEMMA EntryInBlock ==
  ASSUME NEW c \in Nat, NEW k \in Nat, c * DENSZ < BLKSZ * k
  PROVE  c * DENSZ + DENSZ <= BLKSZ * k
<1> DEFINE m == BLKSZ \div DENSZ
           l == m * k
<1>1. DENSZ \in Nat \ {0} /\ BLKSZ \in Nat \ {0} /\ BLKSZ % DENSZ = 0
  BY Sizes, KtfsAssumption
<1>2. m \in Nat /\ BLKSZ = DENSZ * m
  <2>1. m \in Nat /\ BLKSZ = DENSZ * m + (BLKSZ % DENSZ)
    BY <1>1, Division
  <2>2. DENSZ * m \in Nat
    BY <1>1, <2>1
  <2> QED BY <1>1, <2>1, <2>2
<1> HIDE DEF m
<1>3. BLKSZ * k = DENSZ * l /\ l \in Nat
  BY <1>1, <1>2
<1> HIDE DEF l
<1>4. c * DENSZ = DENSZ * c /\ DENSZ * c \in Nat /\ DENSZ * l \in Nat
  BY <1>1, <1>3
<1>5. c < l
  <2>1. l <= c => DENSZ * l <= DENSZ * c
    BY <1>1, <1>3, Monotone
  <2> QED BY <1>3, <1>4, <2>1
<1>6. DENSZ * c + DENSZ <= DENSZ * l
  BY <1>1, <1>3, <1>5, Monotone
<1> QED BY <1>3, <1>4, <1>6

(* e is d with v added as entry c of the directory.                        *)
Added(d, e, I, c, v) ==
  /\ Forest(e, I) /\ Sized(e, I) /\ Keeps(d, e, I, ROOT, I \ {ROOT})
  /\ e.inode[ROOT].size = c * DENSZ + DENSZ
  /\ \A l \in 0 .. c : EntryAt(e, l) = IF l = c THEN v ELSE EntryAt(d, l)

LEMMA AddDentryGrows ==
  ASSUME DirFits, NEW d, NEW I, Forest(d, I), Sized(d, I), ROOT \in I,
         NEW c \in Nat, c + 1 <= NINO - 1, d.inode[ROOT].size = c * DENSZ,
         NEW i \in Inode, NEW n \in Name
  PROVE  LET t == AddDentry(d, i, n)
         IN /\ t.ok => Added(d, t.d, I, c, Dentry(i, n))
            /\ ~t.ok => t.d = d
<1> DEFINE size == d.inode[ROOT].size
           k == size \div BLKSZ
           q == PlaceOf(k)
           s == EnsureTrail(Begin(d), ROOT, Path[k], FALSE)
           u == IF size % BLKSZ = 0 THEN Ensure(s, Last(Path[k]), FALSE) ELSE s
           v == Dentry(i, n)
           t == AddDentry(d, i, n)
           e == [u.d EXCEPT !.inode[ROOT].size = size + DENSZ]
           f == SetCell(e, ROOT, size, v)
<1>1. /\ d \in Disk /\ ROOT \in Inode /\ I \subseteq Inode /\ v \in Cell
      /\ DENSZ \in Nat \ {0} /\ BLKSZ \in Nat \ {0}
  BY Sizes, CellTypes DEF Forest
<1>2. /\ size = c * DENSZ /\ size \in Nat /\ size + DENSZ \in Nat
      /\ size + DENSZ <= KTFS_MAX_FILE_SIZE
      /\ k \in 0 .. NDIRECT - 1 /\ k \in 0 .. MaxBlocks - 1 /\ NDIRECT <= MaxBlocks
  <2>1. /\ size = c * DENSZ /\ size \in Nat /\ size + DENSZ \in Nat
        /\ size + DENSZ <= NDIRECT * BLKSZ /\ NDIRECT * BLKSZ <= KTFS_MAX_FILE_SIZE
        /\ k \in 0 .. NDIRECT - 1 /\ NDIRECT <= MaxBlocks
    BY DirPosition
  <2>2. NDIRECT * BLKSZ \in Int
    BY Sizes
  <2> HIDE DEF size, k
  <2> QED BY <2>1, <2>2, Sizes
<1>3. /\ q \in Place /\ Leaf(q) /\ Last(Path[k]) = Index(q) /\ q = <<k, -1, -1>>
      /\ Path[k] = <<k>>
  BY <1>2, PlaceOfBlock, PathCases, Sizes
<1>4. t = IF u.ok THEN [u EXCEPT !.d = f] ELSE u
  BY DEF AddDentry
<1>5. s \in State /\ s.ok /\ s.d = d /\ s.node = InInode(ROOT)
  <2>1. Begin(d) \in State /\ Begin(d).ok /\ Begin(d).d = d /\ InInode(ROOT) \in Nodes
    BY <1>1, NodeTypes
  <2> DEFINE b == Begin(d)
  <2>2. s = [b EXCEPT !.node = InInode(ROOT)]
    <3>1. Len(Path[k]) = 1
      BY <1>3
    <3> HIDE DEF b
    <3>2. \A zero : EnsureTrail(b, ROOT, Path[k], zero) = [b EXCEPT !.node = InInode(ROOT)]
      BY ONLY <3>1, TrailNone DEF Start
    <3> QED BY <3>2 DEF b
  <2> HIDE DEF s
  <2> QED BY <2>1, <2>2 DEF State
<1>6. q[2] = -1
  BY <1>3
<1>7. k \in Nat /\ size = BLKSZ * k + Offset(size) /\ BLKSZ * k \in Nat /\ Offset(size) = size % BLKSZ
      /\ Offset(size) \in Cells /\ size < BLKSZ * k + BLKSZ
  BY <1>2, BlockNumber DEF Offset
<1> HIDE DEF size, k, q, s, v, t
<1>8. /\ u \in State /\ Forest(u.d, I) /\ Grows(d, u.d, I, ROOT, I)
      /\ u.ok => At(u.d, ROOT, q) # 0
      /\ ~u.ok => u.d = d
  <2>1. CASE size % BLKSZ = 0
    <3>1. u = Ensure(s, Index(q), FALSE)
      BY <1>3, <2>1
    <3>2. s.node = NodeOf(s.d, ROOT, q)
      BY <1>5, <1>6 DEF NodeOf
    <3> HIDE DEF u
    <3>3. /\ u \in State /\ Forest(u.d, I) /\ Grows(s.d, u.d, I, ROOT, I)
          /\ IF u.ok THEN At(u.d, ROOT, q) # 0 /\ u.node = InBlock(At(u.d, ROOT, q))
                     ELSE u.d = s.d
      <4>1. Forest(s.d, I) /\ (q[2] # -1 => At(s.d, ROOT, Up(q)) # 0) /\ FALSE \in BOOLEAN
        BY <1>5, <1>6
      <4>2. q \in Place /\ Leaf(q) /\ s \in State /\ s.ok
        BY <1>3, <1>5
      <4>3. LET x == Ensure(s, Index(q), FALSE)
            IN /\ x \in State /\ Forest(x.d, I) /\ Grows(s.d, x.d, I, ROOT, I)
               /\ IF x.ok THEN At(x.d, ROOT, q) # 0 /\ x.node = InBlock(At(x.d, ROOT, q))
                          ELSE x.d = s.d
        BY <3>2, <4>1, <4>2, EnsureGrows, Zenon
      <4> QED BY <3>1, <4>3, Zenon
    <3> QED BY <1>5, <3>3
  <2>2. CASE size % BLKSZ # 0
    <3>1. u = s
      BY <2>2
    <3>2. BLKSZ * k < size
      BY <1>7, <2>2 DEF Cells
    <3>3. k \in 0 .. Blocks(size) - 1
      <4>1. Blocks(size) \in Nat /\ k < Blocks(size)
        BY <1>2, <1>7, <3>2, BlocksIs
      <4> QED BY <1>7, <4>1
    <3>4. HasBlocks(d, ROOT, size)
      BY DEF Sized, size
    <3>5. At(d, ROOT, q) # 0
      BY <3>3, <3>4 DEF HasBlocks, q
    <3> HIDE DEF u
    <3> QED BY <1>5, <3>1, <3>5, GrowsNot
  <2> QED BY <2>1, <2>2, Zenon
<1> HIDE DEF u
<1>9. CASE ~u.ok
  BY <1>4, <1>8, <1>9 DEF t
<1>10. CASE u.ok
  <2>1. HasBlocks(u.d, ROOT, size + DENSZ)
    <3>1. ASSUME NEW j \in 0 .. Blocks(size + DENSZ) - 1
          PROVE  At(u.d, ROOT, PlaceOf(j)) # 0
      <4>1. j \in Nat /\ BLKSZ * j < size + DENSZ /\ BLKSZ * j \in Nat
        BY <1>1, <1>2, BlocksIs
      <4>2. CASE j = k
        BY <1>8, <1>10, <4>2 DEF q
      <4>3. CASE BLKSZ * j < size
        <5>1. Blocks(size) \in Nat /\ j < Blocks(size)
          BY <1>2, <4>1, <4>3, BlocksIs
        <5>2. HasBlocks(u.d, ROOT, size)
          <6>1. HasBlocks(d, ROOT, size) /\ Keeps(d, u.d, I, ROOT, I)
            BY <1>8 DEF Sized, size, Grows
          <6> QED BY <1>2, <6>1, HasBlocksStays
        <5> QED BY <4>1, <5>1, <5>2 DEF HasBlocks
      <4>4. CASE BLKSZ * j >= size /\ j # k
        <5>1. k <= j
          <6>1. j < k => BLKSZ * j + BLKSZ <= BLKSZ * k
            BY <1>1, <1>7, <4>1, Monotone
          <6>2. BLKSZ * k <= size
            BY <1>7 DEF Cells
          <6> QED BY <1>1, <1>2, <1>7, <4>1, <4>4, <6>1, <6>2
        <5>2. k + 1 <= j /\ k + 1 \in Nat
          BY <1>7, <4>1, <4>4, <5>1
        <5>3. BLKSZ * (k + 1) <= BLKSZ * j /\ BLKSZ * (k + 1) \in Nat
          BY <1>1, <4>1, <5>2, Monotone
        <5>4. BLKSZ * (k + 1) = BLKSZ * k + BLKSZ
          BY <1>1, <1>7
        <5>5. size + DENSZ <= BLKSZ * (k + 1)
          <6>1. size < BLKSZ * (k + 1)
            BY <1>7, <5>4
          <6> QED BY <1>2, <5>2, <6>1, EntryInBlock
        <5> QED BY <1>1, <1>2, <4>1, <5>3, <5>5
      <4> QED BY <1>2, <4>1, <4>2, <4>3, <4>4
    <3> QED BY <1>2, <3>1 DEF HasBlocks
  <2>2. Sized(u.d, I)
    BY <1>1, <1>8, SizedStays
  <2>3. /\ Forest(e, I) /\ Keeps(u.d, e, I, ROOT, I) /\ Sized(e, I)
        /\ e.inode[ROOT].size = size + DENSZ
    BY <1>2, <1>8, <2>1, <2>2, Resize
  <2> HIDE DEF e
  <2>4. Keeps(d, e, I, ROOT, I)
    BY <1>8, <2>3, KeepsTwice DEF Grows
  <2>5. Covered(e, ROOT, size) /\ Home(e, ROOT, size) # 0
    <3>1. At(e, ROOT, q) = At(u.d, ROOT, q)
      BY <1>3, <1>8, <1>10, <2>3 DEF Keeps
    <3> QED BY <1>2, <1>8, <1>10, <3>1 DEF Covered, Home, q, k
  <2>6. Forest(f, I) /\ Grows(e, f, I, ROOT, I \ {ROOT}) /\ Wrote(e, f, I, ROOT, size, v)
    BY <1>1, <1>2, <2>3, <2>5, SetCellKeeps, Zenon
  <2>7. t.d = f /\ t.ok
    BY <1>4, <1>8, <1>10 DEF State
  <2> HIDE DEF f
  <2>8. Sized(f, I)
    <3>1. e \in Disk
      BY <2>3 DEF Forest
    <3> QED BY <1>1, <2>3, <2>6, <3>1, SizedStays
  <2>9. Keeps(d, f, I, ROOT, I \ {ROOT}) /\ f.inode[ROOT].size = size + DENSZ
    <3>1. Keeps(d, e, I, ROOT, I \ {ROOT})
      BY <2>4 DEF Keeps
    <3>2. Keeps(e, f, I, ROOT, I \ {ROOT}) /\ f.inode[ROOT].size = e.inode[ROOT].size
      BY <1>1, <2>6 DEF Grows
    <3> QED BY <2>3, <3>1, <3>2, KeepsTwice
  <2>10. ASSUME NEW l \in 0 .. c
         PROVE  EntryAt(f, l) = IF l = c THEN v ELSE EntryAt(d, l)
    <3>1. EntryAt(f, l) = IF l = c THEN v ELSE EntryAt(e, l)
      <4>1. l \in Nat /\ l + 1 <= NINO - 1
        BY Sizes
      <4> QED BY <1>2, <2>3, <2>5, <2>6, <4>1, EntryWritten
    <3>2. ASSUME l # c
          PROVE  EntryAt(e, l) = EntryAt(d, l)
      <4> DEFINE p == l * DENSZ
      <4>1. p \in Nat /\ p < size
        <5>1. DENSZ * l + DENSZ <= DENSZ * c
          BY <1>1, <3>2, Monotone
        <5>2. p = DENSZ * l /\ size = DENSZ * c /\ p \in Nat
          BY <1>1, <1>2
        <5> HIDE DEF p
        <5> QED BY <1>1, <1>2, <5>1, <5>2
      <4> HIDE DEF p
      <4>2. Covered(d, ROOT, p)
        <5>1. HasBlocks(d, ROOT, size)
          BY DEF Sized, size
        <5> QED BY <1>2, <4>1, <5>1, HasBlocksCovers
      <4>3. CellOf(e, ROOT, p) = CellOf(d, ROOT, p)
        BY <2>4, <4>1, <4>2, CellKept
      <4> QED BY <4>3 DEF EntryAt, p
    <3> QED BY <3>1, <3>2
  <2> QED BY <1>2, <2>6, <2>7, <2>8, <2>9, <2>10 DEF Added, t, v
<1> QED BY <1>9, <1>10

LEMMA EntriesOf ==
  ASSUME NEW d, NEW c \in Nat, d.inode[ROOT].size = c * DENSZ
  PROVE  /\ Entries(d) = 0 .. c - 1 /\ d.inode[ROOT].size % DENSZ = 0
         /\ c <= NINO - 1 => d.inode[ROOT].size <= (NINO - 1) * DENSZ
<1>1. DENSZ \in Nat \ {0} /\ NINO - 1 \in Nat
  BY Sizes
<1>2. c * DENSZ = DENSZ * c + 0 /\ 0 \in 0 .. DENSZ - 1
  BY <1>1
<1>3. (c * DENSZ) \div DENSZ = c /\ (c * DENSZ) % DENSZ = 0
  BY <1>1, <1>2, DivisionUnique, Zenon
<1>4. c <= NINO - 1 => DENSZ * c <= DENSZ * (NINO - 1)
  BY <1>1, Monotone
<1>5. c * DENSZ = DENSZ * c /\ (NINO - 1) * DENSZ = DENSZ * (NINO - 1)
  BY <1>1
<1> QED BY <1>3, <1>4, <1>5 DEF Entries

(* The directory with one more entry, for a new name and a new inode.      *)
LEMMA DirGrew ==
  ASSUME NEW d \in Disk, DirOK(d), NEW i \in Inode \ d.imap, NEW n \in Name, Found(d, n) = {},
         NEW c, c = Count(d), c + 1 <= NINO - 1, NEW e, e.imap = d.imap \cup {i},
         e.inode[ROOT].size = c * DENSZ + DENSZ,
         \A l \in 0 .. c : EntryAt(e, l) = IF l = c THEN Dentry(i, n) ELSE EntryAt(d, l)
  PROVE  DirOK(e) /\ \A f : HandleOK(f, d) => HandleOK(f, e)
<1>1. /\ c \in Nat /\ Entries(d) = 0 .. c - 1 /\ ROOT \in d.imap /\ i # ROOT
      /\ DENSZ \in Nat \ {0}
  BY CountIs, Sizes DEF DirOK
<1>2. (c + 1) * DENSZ = c * DENSZ + DENSZ
  BY <1>1
<1>3. /\ Entries(e) = 0 .. c /\ e.inode[ROOT].size % DENSZ = 0
      /\ e.inode[ROOT].size <= (NINO - 1) * DENSZ
  <2>1. /\ Entries(e) = 0 .. (c + 1) - 1 /\ e.inode[ROOT].size % DENSZ = 0
        /\ e.inode[ROOT].size <= (NINO - 1) * DENSZ
    <3>1. c + 1 \in Nat /\ e.inode[ROOT].size = (c + 1) * DENSZ
      BY <1>1, <1>2
    <3> QED BY <3>1, EntriesOf
  <2> QED BY <1>1, <2>1
<1>4. \A l \in 0 .. c : l = c \/ l \in Entries(d)
  BY <1>1
<1>5. EntryAt(e, c) = Dentry(i, n) /\ Dentry(i, n)[2] = i /\ Dentry(i, n)[3] = n
  BY <1>1, DentryFields
<1>6. ASSUME NEW l \in Entries(d)
      PROVE  /\ l \in 0 .. c /\ l # c /\ EntryAt(e, l) = EntryAt(d, l)
             /\ EntryAt(e, l)[2] \in d.imap \ {ROOT} /\ EntryAt(e, l)[3] \in Name
             /\ EntryAt(e, l)[2] # i /\ EntryAt(e, l)[3] # n
             /\ EntryAt(e, l) = Dentry(EntryAt(e, l)[2], EntryAt(e, l)[3])
  <2>1. l \in 0 .. c /\ l # c
    BY <1>1
  <2>2. EntryAt(e, l) = EntryAt(d, l)
    BY <2>1
  <2>3. EntryAt(d, l)[3] # n
    BY DEF Found
  <2> QED BY <2>1, <2>2, <2>3, EntryIs
<1>7. ASSUME NEW l \in Entries(e)
      PROVE  \E k \in e.imap \ {ROOT}, m \in Name : EntryAt(e, l) = Dentry(k, m)
  <2>1. CASE l = c
    BY <1>1, <1>5, <2>1, Zenon
  <2>2. CASE l \in Entries(d)
    BY <1>6, <2>2
  <2> QED BY <1>3, <1>4, <2>1, <2>2
<1>8. ASSUME NEW j \in Entries(e), NEW l \in Entries(e),
             EntryAt(e, j)[2] = EntryAt(e, l)[2] \/ EntryAt(e, j)[3] = EntryAt(e, l)[3]
      PROVE  j = l
  <2>1. CASE j = c /\ l = c
    BY <2>1
  <2>2. CASE j = c /\ l \in Entries(d)
    BY <1>5, <1>6, <1>8, <2>2
  <2>3. CASE l = c /\ j \in Entries(d)
    BY <1>5, <1>6, <1>8, <2>3
  <2>4. CASE j \in Entries(d) /\ l \in Entries(d)
    <3>1. EntryAt(e, j) = EntryAt(d, j) /\ EntryAt(e, l) = EntryAt(d, l)
      BY <1>6, <2>4
    <3> QED BY <1>8, <2>4, <3>1 DEF DirOK
  <2> QED BY <1>3, <1>4, <2>1, <2>2, <2>3, <2>4
<1>9. DirOK(e)
  BY <1>1, <1>3, <1>7, <1>8, Zenon DEF DirOK
<1>10. \A l \in Entries(d) : l \in Entries(e) /\ EntryAt(e, l) = EntryAt(d, l)
  BY <1>3, <1>6
<1> QED BY <1>9, <1>10 DEF HandleOK

(* The inode of a new file.                                                *)
NewFile(d, e, I, i) ==
  /\ Forest(e, I \cup {i}) /\ Sized(e, I \cup {i}) /\ Keeps(d, e, I, i, I)

LEMMA InodeCleared ==
  ASSUME NEW d, NEW I, Forest(d, I), Sized(d, I), NEW i \in Inode \ I,
         NEW e, e = [d EXCEPT !.inode[i] = EmptyInode]
  PROVE  NewFile(d, e, I, i)
<1> DEFINE m == [d.inode EXCEPT ![i] = EmptyInode]
<1>1. /\ d \in Disk /\ I \subseteq Inode /\ d.blk[0] = ZeroBlock /\ 0 \in d.bmap
  BY DEF Forest
<1>2. e = [imap |-> d.imap, bmap |-> d.bmap, inode |-> m, blk |-> d.blk]
  BY <1>1 DEF Disk
<1>3. EmptyInode \in Node /\ EmptyInode.size = 0 /\ \A j \in Top : EmptyInode.ptr[j] = 0
  BY Sizes DEF EmptyInode, Node
<1> HIDE DEF EmptyInode
<1>4. /\ m \in [Inode -> Node] /\ m[i] = EmptyInode
      /\ \A k \in Inode : k # i => m[k] = d.inode[k]
  BY <1>1, <1>3 DEF Disk
<1> HIDE DEF m
<1>5. /\ e \in Disk /\ e.imap = d.imap /\ e.bmap = d.bmap /\ e.blk = d.blk
      /\ e.inode[i] = EmptyInode
      /\ \A k \in Inode : k # i => e.inode[k] = d.inode[k]
  BY <1>1, <1>2, <1>4 DEF Disk
<1>6. ASSUME NEW k \in I
      PROVE  \A r \in Place : At(e, k, r) = At(d, k, r)
  <2>1. e.inode[k] = d.inode[k] /\ e.blk = d.blk
    BY <1>1, <1>5
  <2> QED BY <2>1, Zenon DEF At
<1>7. \A r \in Place : At(e, i, r) = 0
  <2> DEFINE S == {r \in Place : At(e, i, r) = 0}
  <2>1. ASSUME NEW r \in Place, r[2] = -1
        PROVE  r \in S
    <3>1. At(e, i, r) = e.inode[i].ptr[Index(r)]
      BY <2>1, AtTop, Zenon
    <3>2. Index(r) \in Top
      BY <2>1, PlaceShape
    <3> QED BY <1>3, <1>5, <3>1, <3>2
  <2>2. ASSUME NEW r \in Place, r[2] # -1, Up(r) \in S
        PROVE  r \in S
    <3>0. Index(r) \in Cells
      BY <2>2, PlaceShape, TopSlots
    <3>1. At(e, i, r) = Target(e.blk[At(e, i, Up(r))][Index(r)])
      BY <2>2, AtBelow, Zenon
    <3>2. At(e, i, Up(r)) = 0 /\ e.blk[0] = ZeroBlock
      BY <1>1, <1>5, <2>2
    <3>3. Target(ZeroBlock[Index(r)]) = 0
      BY <3>0, Targets1 DEF ZeroBlock, Cells
    <3> QED BY <3>1, <3>2, <3>3
  <2> HIDE DEF S
  <2>3. Place \subseteq S
    BY <2>1, <2>2, Descent
  <2> QED BY <2>3 DEF S
<1>8. Forest(e, I \cup {i})
  <2>1. Marked(e, I \cup {i})
    <3>1. ASSUME NEW k \in I, NEW r \in Place
          PROVE  At(e, k, r) \in e.bmap
      BY <1>5, <1>6 DEF Forest, Marked
    <3> QED BY <1>1, <1>5, <1>7, <3>1 DEF Marked
  <2>2. Apart(e, I \cup {i})
    BY <1>6, <1>7 DEF Forest, Apart
  <2> QED BY <1>1, <1>5, <2>1, <2>2 DEF Forest
<1>9. Keeps(d, e, I, i, I)
  BY <1>5, <1>6 DEF Keeps
<1>10. Sized(e, I \cup {i})
  <2>1. ASSUME NEW k \in I
        PROVE  HasBlocks(e, k, e.inode[k].size)
    <3>1. e.inode[k].size = d.inode[k].size /\ d.inode[k].size \in Nat
      BY <1>1, <1>5, SizeType
    <3>2. HasBlocks(d, k, d.inode[k].size)
      BY DEF Sized
    <3> QED BY <1>9, <3>1, <3>2, HasBlocksStays
  <2>2. HasBlocks(e, i, 0)
    <3>1. Blocks(0) = 0
      <4>1. Blocks(0) \in Nat /\ \A k \in Nat : k < Blocks(0) <=> BLKSZ * k < 0
        BY BlocksIs
      <4>2. ~(BLKSZ * 0 < 0)
        BY Sizes
      <4> QED BY <4>1, <4>2
    <3>2. 0 .. Blocks(0) - 1 = {}
      BY <3>1
    <3> QED BY <3>2, Sizes DEF HasBlocks
  <2>3. e.inode[i].size = 0
    BY <1>3, <1>5
  <2> QED BY <2>1, <2>2, <2>3 DEF Sized
<1> QED BY <1>8, <1>9, <1>10 DEF NewFile

LEMMA HasBlocksLess ==
  ASSUME NEW d, NEW i, NEW m \in Nat, HasBlocks(d, i, m), NEW n \in Nat, n <= m
  PROVE  HasBlocks(d, i, n)
<1>1. /\ Blocks(m) \in Nat /\ \A k \in Nat : k < Blocks(m) <=> BLKSZ * k < m
      /\ Blocks(n) \in Nat /\ \A k \in Nat : k < Blocks(n) <=> BLKSZ * k < n
  BY BlocksIs
<1>2. ASSUME NEW k \in 0 .. Blocks(n) - 1
      PROVE  k \in 0 .. Blocks(m) - 1
  <2>1. k \in Nat /\ BLKSZ * k < n /\ BLKSZ * k \in Int
    BY <1>1, Sizes
  <2>2. BLKSZ * k < m
    BY <2>1
  <2>3. k < Blocks(m)
    BY <1>1, <2>1, <2>2
  <2> QED BY <1>1, <2>1, <2>3
<1>3. n <= KTFS_MAX_FILE_SIZE
  BY Sizes DEF HasBlocks
<1> QED BY <1>2, <1>3 DEF HasBlocks

(* e is d without entry j of the directory: the last entry took its place. *)
Dropped(d, e, I, j) ==
  /\ Forest(e, I) /\ Sized(e, I) /\ Keeps(d, e, I, ROOT, I \ {ROOT})
  /\ e.inode[ROOT].size = (Count(d) - 1) * DENSZ
  /\ \A l \in 0 .. Count(d) - 2 :
       EntryAt(e, l) = EntryAt(d, IF l = j THEN Count(d) - 1 ELSE l)

LEMMA DentryDeleted ==
  ASSUME DirFits, NEW d, NEW I, Forest(d, I), Sized(d, I), ROOT \in I, DirOK(d),
         NEW j \in Entries(d), NEW e, e = DeleteDentry(d, j)
  PROVE  Dropped(d, e, I, j)
<1> DEFINE c    == Count(d)
           size == d.inode[ROOT].size
           v    == EntryAt(d, c - 1)
           p    == j * DENSZ
           y    == SetCell(d, ROOT, p, v)
<1>1. /\ d \in Disk /\ I \subseteq Inode /\ ROOT \in Inode /\ DENSZ \in Nat \ {0}
  BY Sizes DEF Forest
<1>2. /\ c \in Nat /\ size = c * DENSZ /\ c <= NINO - 1 /\ Entries(d) = 0 .. c - 1
      /\ size \in Nat
  BY <1>1, CountIs, SizeType
<1>3. size \div DENSZ = c
  BY DEF Count
<1>4. e = [y EXCEPT !.inode[ROOT].size = size - DENSZ]
  BY <1>3 DEF DeleteDentry
<1>5. v \in Cell
  <2>1. c - 1 \in Entries(d)
    BY <1>2
  <2> QED BY <1>1, <2>1, EntryIs
<1> HIDE DEF size, c, v
<1>6. \A l \in Entries(d) : /\ l \in Nat /\ l + 1 <= NINO - 1 /\ l * DENSZ \in Nat
                            /\ Covered(d, ROOT, l * DENSZ)
  <2>1. ASSUME NEW l \in Entries(d)
        PROVE  Covered(d, ROOT, l * DENSZ) /\ l * DENSZ \in Nat
    <3>1. l * DENSZ \in Nat /\ l * DENSZ + DENSZ <= size
      BY <1>2, EntriesIs DEF size
    <3>2. l * DENSZ < size
      BY <1>1, <1>2, <3>1
    <3>3. HasBlocks(d, ROOT, size)
      BY DEF Sized, size
    <3> QED BY <1>2, <3>1, <3>2, <3>3, HasBlocksCovers
  <2> QED BY <1>2, <2>1, Sizes
<1>7. Forest(y, I) /\ Grows(d, y, I, ROOT, I \ {ROOT}) /\ Wrote(d, y, I, ROOT, p, v)
  <2>1. p \in Nat /\ Covered(d, ROOT, p)
    BY <1>6
  <2> HIDE DEF p
  <2> QED BY <1>5, <2>1, SetCellKeeps
<1> HIDE DEF y
<1>8. y.inode[ROOT].size = size /\ Sized(y, I) /\ y \in Disk
  BY <1>1, <1>7, SizedStays DEF Grows, size, Forest
<1>9. size - DENSZ \in Nat /\ size - DENSZ = (c - 1) * DENSZ
  <2>1. c - 1 \in Nat
    BY <1>2
  <2>2. (c - 1) * DENSZ \in Nat /\ c * DENSZ = (c - 1) * DENSZ + DENSZ
    BY <1>1, <1>2, <2>1
  <2> QED BY <1>1, <1>2, <2>2
<1>10. /\ Forest(e, I) /\ Sized(e, I) /\ Keeps(y, e, I, ROOT, I)
       /\ e.inode[ROOT].size = size - DENSZ
  <2>1. HasBlocks(y, ROOT, size)
    BY <1>8 DEF Sized
  <2>2. HasBlocks(y, ROOT, size - DENSZ)
    <3>1. size - DENSZ <= size
      BY <1>1, <1>2
    <3> QED BY <1>2, <1>9, <2>1, <3>1, HasBlocksLess
  <2> DEFINE m == size - DENSZ
  <2>3. /\ m \in Nat /\ HasBlocks(y, ROOT, m) /\ Forest(y, I) /\ Sized(y, I)
        /\ e = [y EXCEPT !.inode[ROOT].size = m]
    BY <1>4, <1>7, <1>8, <1>9, <2>2
  <2> HIDE DEF m
  <2>4. /\ Forest(e, I) /\ Keeps(y, e, I, ROOT, I) /\ Sized(e, I)
        /\ e.inode[ROOT].size = m
    BY <2>3, Resize
  <2> QED BY <2>4 DEF m
<1>11. Keeps(d, e, I, ROOT, I \ {ROOT})
  <2>1. Keeps(y, e, I, ROOT, I \ {ROOT})
    BY <1>10 DEF Keeps
  <2> QED BY <1>1, <1>7, <2>1, KeepsTwice DEF Grows
<1>12. ASSUME NEW l \in 0 .. c - 2
       PROVE  EntryAt(e, l) = EntryAt(d, IF l = j THEN c - 1 ELSE l)
  <2>1. l \in Entries(d)
    BY <1>2
  <2>2. Covered(y, ROOT, l * DENSZ) /\ l * DENSZ \in Nat
    BY <1>6, <1>7, <2>1, CoveredStays
  <2>3. EntryAt(e, l) = EntryAt(y, l)
    BY <1>10, <2>2, CellKept DEF EntryAt
  <2>4. EntryAt(y, l) = IF l = j THEN v ELSE EntryAt(d, l)
    <3>1. Home(d, ROOT, j * DENSZ) # 0
      BY <1>6 DEF Covered
    <3> QED BY <1>6, <1>7, <2>1, <3>1, EntryWritten
  <2> QED BY <2>3, <2>4 DEF v
<1> QED BY <1>9, <1>10, <1>11, <1>12 DEF Dropped, c

(* The directory without a file.                                           *)
LEMMA DirShrank ==
  ASSUME NEW d \in Disk, DirOK(d), NEW j \in Entries(d), NEW e,
         e.imap = d.imap \ {EntryAt(d, j)[2]},
         e.inode[ROOT].size = (Count(d) - 1) * DENSZ,
         \A l \in 0 .. Count(d) - 2 :
           EntryAt(e, l) = EntryAt(d, IF l = j THEN Count(d) - 1 ELSE l)
  PROVE  /\ DirOK(e)
         /\ \A f : f.name # EntryAt(d, j)[3] /\ HandleOK(f, d) => HandleOK(f, e)
<1> DEFINE c == Count(d)
           i == EntryAt(d, j)[2]
           n == EntryAt(d, j)[3]
           From(l) == IF l = j THEN c - 1 ELSE l
<1>1. /\ c \in Nat /\ c <= NINO - 1 /\ Entries(d) = 0 .. c - 1 /\ j \in 0 .. c - 1
      /\ ROOT \in d.imap /\ i # ROOT
  BY CountIs, EntryIs DEF DirOK
<1>2. /\ Entries(e) = 0 .. c - 2 /\ e.inode[ROOT].size % DENSZ = 0
      /\ e.inode[ROOT].size <= (NINO - 1) * DENSZ
  <2>1. c - 1 \in Nat /\ e.inode[ROOT].size = (c - 1) * DENSZ /\ c - 1 <= NINO - 1
    BY <1>1, Sizes
  <2>2. /\ Entries(e) = 0 .. (c - 1) - 1 /\ e.inode[ROOT].size % DENSZ = 0
        /\ e.inode[ROOT].size <= (NINO - 1) * DENSZ
    BY <2>1, EntriesOf
  <2> QED BY <1>1, <2>2
<1>3. e.imap = d.imap \ {i} /\ \A l \in Entries(e) : EntryAt(e, l) = EntryAt(d, From(l))
  BY <1>2
<1>4. /\ \A l \in Entries(e) : From(l) \in Entries(d) /\ From(l) # j
      /\ \A l, m \in Entries(e) : From(l) = From(m) => l = m
      /\ \A l \in Entries(d) : l # j => \E m \in Entries(e) : From(m) = l
  <2>1. \A l \in 0 .. c - 2 : From(l) \in 0 .. c - 1 /\ From(l) # j
    BY <1>1
  <2>2. \A l, m \in 0 .. c - 2 : From(l) = From(m) => l = m
    BY <1>1
  <2>3. ASSUME NEW l \in 0 .. c - 1, l # j
        PROVE  \E m \in 0 .. c - 2 : From(m) = l
    <3>1. CASE l = c - 1
      <4>1. j \in 0 .. c - 2 /\ From(j) = l
        BY <1>1, <2>3, <3>1
      <4> QED BY <4>1
    <3>2. CASE l # c - 1
      <4>1. l \in 0 .. c - 2 /\ From(l) = l
        BY <1>1, <2>3, <3>2
      <4> QED BY <4>1
    <3> QED BY <3>1, <3>2
  <2> HIDE DEF From, c
  <2> QED BY <1>1, <1>2, <2>1, <2>2, <2>3
<1> HIDE DEF From, c
<1>5. ASSUME NEW l \in Entries(e)
      PROVE  \E k \in e.imap \ {ROOT}, m \in Name : EntryAt(e, l) = Dentry(k, m)
  <2> DEFINE o == From(l)
  <2>1. o \in Entries(d) /\ o # j /\ EntryAt(e, l) = EntryAt(d, o)
    BY <1>3, <1>4
  <2> HIDE DEF o
  <2>2. EntryAt(d, o)[2] # i
    BY <2>1 DEF DirOK
  <2>3. /\ EntryAt(d, o)[2] \in d.imap \ {ROOT} /\ EntryAt(d, o)[3] \in Name
        /\ EntryAt(d, o) = Dentry(EntryAt(d, o)[2], EntryAt(d, o)[3])
    BY <2>1, EntryIs
  <2> QED BY <1>3, <2>1, <2>2, <2>3
<1>6. ASSUME NEW l \in Entries(e), NEW m \in Entries(e),
             EntryAt(e, l)[2] = EntryAt(e, m)[2] \/ EntryAt(e, l)[3] = EntryAt(e, m)[3]
      PROVE  l = m
  <2>1. /\ From(l) \in Entries(d) /\ From(m) \in Entries(d)
        /\ EntryAt(e, l) = EntryAt(d, From(l)) /\ EntryAt(e, m) = EntryAt(d, From(m))
    BY <1>3, <1>4
  <2>2. From(l) = From(m)
    BY <1>6, <2>1 DEF DirOK
  <2> QED BY <1>4, <2>2
<1>7. DirOK(e)
  BY <1>1, <1>2, <1>3, <1>5, <1>6 DEF DirOK
<1>8. ASSUME NEW f, f.name # n, HandleOK(f, d), f # Closed
      PROVE  \E m \in Entries(e) : EntryAt(e, m) = Dentry(f.inode, f.name)
  <2>1. PICK l \in Entries(d) : EntryAt(d, l) = Dentry(f.inode, f.name)
    BY <1>8 DEF HandleOK
  <2>2. l # j
    BY <1>8, <2>1 DEF Dentry
  <2>3. PICK m \in Entries(e) : From(m) = l
    BY <1>4, <2>2
  <2> QED BY <1>3, <2>1, <2>3
<1> QED BY <1>7, <1>8 DEF HandleOK

LEMMA UpNotNull ==
  ASSUME NEW d, d.blk[0] = ZeroBlock, NEW i, NEW q \in Place, q[2] # -1, At(d, i, q) # 0
  PROVE  At(d, i, Up(q)) # 0
<1>1. At(d, i, q) = Target(d.blk[At(d, i, Up(q))][Index(q)])
  BY AtBelow
<1>2. Index(q) \in Cells
  BY PlaceShape, TopSlots
<1>3. Target(ZeroBlock[Index(q)]) = 0
  BY <1>2, Targets1 DEF ZeroBlock, Cells
<1> QED BY <1>1, <1>3

(* free_data_blocks frees what the inode's tree leads to, never block 0.   *)
LEMMA NeededBlocksAre ==
  ASSUME NEW d, NEW I, Forest(d, I), Sized(d, I), NEW i \in I
  PROVE  \A b \in NeededBlocks(d, i) : b # 0 /\ \E r \in Place : At(d, i, r) = b
<1> DEFINE size == d.inode[i].size
           Good(b) == b # 0 /\ \E r \in Place : At(d, i, r) = b
<1>1. d.blk[0] = ZeroBlock /\ size \in Nat /\ HasBlocks(d, i, size)
  <2>1. d \in Disk /\ i \in Inode
    BY DEF Forest
  <2>2. size \in Nat
    BY <2>1, SizeType
  <2> QED BY <2>2 DEF Forest, Sized
<1> HIDE DEF size
<1>2. ASSUME NEW k \in 0 .. Blocks(size) - 1
      PROVE  \A b \in Range(Trail(d, i, k)) : Good(b)
  <2> DEFINE q == PlaceOf(k)
             p == Path[k]
  <2>1. k \in 0 .. MaxBlocks - 1 /\ q \in Place /\ At(d, i, q) # 0
    BY <1>1, <1>2, NeededIs DEF HasBlocks
  <2>2. CASE p = <<k>> /\ q = <<k, -1, -1>>
    <3>1. Trail(d, i, k) = <<At(d, i, q)>>
      BY <2>2 DEF Trail, First, At
    <3> QED BY <2>1, <3>1 DEF Range
  <2>3. ASSUME NEW b \in 0 .. PTRS - 1, p = <<NDIRECT, b>>, q = <<NDIRECT, b, -1>>
        PROVE  \A x \in Range(Trail(d, i, k)) : Good(x)
    <3>1. b # -1 /\ q[2] # -1
      BY <2>3, Sizes
    <3>2. Up(q) \in Place /\ At(d, i, Up(q)) # 0
      BY <1>1, <2>1, <3>1, UpNotNull, PlaceShape
    <3>3. Trail(d, i, k) = <<At(d, i, Up(q)), At(d, i, q)>>
      BY <2>3, <3>1 DEF Trail, First, Second, At, Up
    <3> HIDE DEF q
    <3> QED BY <2>1, <3>2, <3>3 DEF Range
  <2>4. ASSUME NEW a \in NDIRECT + 1 .. NDIRECT + NDINDIRECT,
               NEW b \in 0 .. PTRS - 1, NEW c \in 0 .. PTRS - 1,
               p = <<a, b, c>>, q = <<a, b, c>>
        PROVE  \A x \in Range(Trail(d, i, k)) : Good(x)
    <3> DEFINE m == Up(q)
    <3>1. b # -1 /\ c # -1 /\ q[2] # -1 /\ m = <<a, b, -1>> /\ m[2] # -1
      <4>1. b # -1 /\ c # -1
        BY Sizes
      <4> QED BY <2>4, <4>1 DEF Up
    <3>2. m \in Place /\ At(d, i, m) # 0
      BY <1>1, <2>1, <3>1, UpNotNull, PlaceShape
    <3>3. Up(m) \in Place /\ At(d, i, Up(m)) # 0
      BY <1>1, <3>1, <3>2, UpNotNull, PlaceShape
    <3>4. Trail(d, i, k) = <<At(d, i, Up(m)), At(d, i, m), At(d, i, q)>>
      <4>1. Trail(d, i, k) = <<First(d, i, p), Second(d, i, p), Third(d, i, p)>>
        BY <2>4 DEF Trail
      <4>2. Up(m) = <<a, -1, -1>>
        BY <3>1 DEF Up
      <4>3. First(d, i, p) = At(d, i, Up(m))
        <5>1. At(d, i, <<a, -1, -1>>) = d.inode[i].ptr[a]
          BY DEF At
        <5> QED BY <2>4, <4>2, <5>1 DEF First
      <4>4. Second(d, i, p) = At(d, i, m)
        <5>1. At(d, i, <<a, b, -1>>) = Target(d.blk[d.inode[i].ptr[a]][b])
          BY <3>1 DEF At
        <5> QED BY <2>4, <3>1, <5>1 DEF First, Second
      <4>5. Third(d, i, p) = At(d, i, q)
        BY <2>4, <3>1 DEF Third, Second, First, At
      <4> QED BY <4>1, <4>3, <4>4, <4>5
    <3> HIDE DEF m, q
    <3> QED BY <2>1, <3>2, <3>3, <3>4 DEF Range
  <2> QED BY <2>1, <2>2, <2>3, <2>4, PathCases
<1>3. NeededBlocks(d, i) = UNION {Range(Trail(d, i, k)) : k \in 0 .. Blocks(size) - 1}
  BY DEF NeededBlocks, size
<1> QED BY <1>2, <1>3

LEMMA ApartSame ==
  ASSUME NEW d, NEW e, NEW I, \A k \in I : \A r \in Place : At(e, k, r) = At(d, k, r),
         Apart(d, I)
  PROVE  Apart(e, I)
BY DEF Apart

(* The bits of a file's inode and blocks are cleared.                      *)
Freed(d, g, I, i) ==
  /\ Forest(g, I \ {i}) /\ Sized(g, I \ {i})
  /\ g.imap = d.imap \ {i} /\ g.inode = d.inode /\ g.blk = d.blk

LEMMA FileFreed ==
  ASSUME NEW d, NEW I, Forest(d, I), Sized(d, I), NEW i \in I, NEW g,
         g = SetDataBlockStatus(SetInodeStatus(d, i, FALSE), NeededBlocks(d, i), FALSE)
  PROVE  Freed(d, g, I, i)
<1> DEFINE N == NeededBlocks(d, i)
<1>1. /\ d \in Disk /\ I \subseteq Inode /\ i \in Inode
      /\ 0 \in d.bmap /\ d.blk[0] = ZeroBlock
  BY DEF Forest
<1>2. \A b \in N : b # 0 /\ \E r \in Place : At(d, i, r) = b
  BY NeededBlocksAre
<1>3. g = [d EXCEPT !.imap = @ \ {i}, !.bmap = @ \ N]
  BY <1>1 DEF SetDataBlockStatus, SetInodeStatus, Disk
<1> HIDE DEF N
<1>4. /\ g \in Disk /\ g.imap = d.imap \ {i} /\ g.bmap = d.bmap \ N
      /\ g.inode = d.inode /\ g.blk = d.blk
  BY <1>1, <1>3, Zenon DEF Disk
<1>5. \A k, r : At(g, k, r) = At(d, k, r)
  BY <1>4, Zenon DEF At
<1>6. Marked(g, I \ {i})
  <2>1. ASSUME NEW k \in I \ {i}, NEW r \in Place
        PROVE  At(d, k, r) \in d.bmap \ N
    <3>1. At(d, k, r) \in d.bmap
      BY DEF Forest, Marked
    <3>2. At(d, k, r) \notin N
      <4>1. SUFFICES ASSUME At(d, k, r) \in N
                     PROVE  FALSE
        OBVIOUS
      <4>2. PICK s \in Place : At(d, i, s) = At(d, k, r)
        BY <1>2, <4>1
      <4>3. At(d, k, r) # 0
        BY <1>2, <4>1
      <4> QED BY <4>2, <4>3 DEF Forest, Apart
    <3> QED BY <3>1, <3>2
  <2> QED BY <1>4, <1>5, <2>1, Zenon DEF Marked
<1>7. Apart(g, I \ {i})
  <2>1. Apart(d, I \ {i})
    BY DEF Forest, Apart
  <2>2. \A k \in I \ {i} : \A r \in Place : At(g, k, r) = At(d, k, r)
    BY <1>5, Zenon
  <2> QED BY ONLY <2>1, <2>2, ApartSame
<1>8. Forest(g, I \ {i})
  BY <1>1, <1>2, <1>4, <1>6, <1>7, Zenon DEF Forest
<1>9. Sized(g, I \ {i})
  BY <1>4, <1>5, Zenon DEF Sized, HasBlocks
<1> QED BY <1>4, <1>8, <1>9, Zenon DEF Freed

(* The bitmaps are no part of what is in the files.                        *)
SameFiles(d, g) == g.inode = d.inode /\ g.blk = d.blk

LEMMA SameEntries ==
  ASSUME NEW d, NEW g, SameFiles(d, g)
  PROVE  \A l : EntryAt(g, l) = EntryAt(d, l)
BY DEF SameFiles, EntryAt, CellOf, BlockOf, First, Second, Third
----------------------------------------------------------------------------
(* A full disk.                                                            *)

(* A walk that fails does so because every block is marked.                *)
Blocked(s) == /\ s = [ok |-> s.ok, d |-> s.d, node |-> s.node]
              /\ ~s.ok => s.d.bmap = Block

LEMMA EnsureBlocked ==
  ASSUME NEW s, Blocked(s), NEW j, NEW zero
  PROVE  Blocked(Ensure(s, j, zero))
<1> DEFINE b == PointerAt(s.d, s.node, j)
<1>1. s = [ok |-> s.ok, d |-> s.d, node |-> s.node] /\ (~s.ok => s.d.bmap = Block)
  BY DEF Blocked
<1>2. CASE ~s.ok
  BY <1>2, Zenon DEF Ensure
<1>3. CASE s.ok /\ b # 0
  <2>1. Ensure(s, j, zero) = [s EXCEPT !.node = InBlock(b)]
    BY <1>3 DEF Ensure
  <2>2. [s EXCEPT !.node = InBlock(b)] = [ok |-> s.ok, d |-> s.d, node |-> InBlock(b)]
    BY <1>1
  <2> QED BY <1>3, <2>1, <2>2 DEF Blocked
<1>4. CASE s.ok /\ b = 0 /\ s.d.bmap = Block
  <2> DEFINE no == FALSE
  <2>1. Ensure(s, j, zero) = [s EXCEPT !.ok = no]
    BY <1>4 DEF Ensure
  <2> HIDE DEF no
  <2>2. [s EXCEPT !.ok = no] = [ok |-> no, d |-> s.d, node |-> s.node]
    BY <1>1
  <2> QED BY <1>4, <2>1, <2>2 DEF Blocked
<1>5. CASE s.ok /\ b = 0 /\ s.d.bmap # Block
  <2> DEFINE new == FreeBlock(s.d)
             marked == SetDataBlockStatus(s.d, {new}, TRUE)
             e == SetPointer(IF zero THEN [marked EXCEPT !.blk[new] = ZeroBlock]
                                     ELSE marked, s.node, j, new)
  <2>1. Ensure(s, j, zero) = [ok |-> TRUE, node |-> InBlock(new), d |-> e]
    BY <1>5 DEF Ensure
  <2> HIDE DEF e, new
  <2> QED BY <2>1 DEF Blocked
<1> QED BY <1>2, <1>3, <1>4, <1>5

LEMMA TrailBlocked ==
  ASSUME NEW s, Blocked(s), NEW i, NEW path, Len(path) \in 1 .. 3
  PROVE  \A zero : Blocked(EnsureTrail(s, i, path, zero))
<1>1. Blocked(Start(s, i))
  <2>1. Start(s, i) = [ok |-> s.ok, d |-> s.d, node |-> InInode(i)]
    BY DEF Blocked, Start
  <2> QED BY <2>1 DEF Blocked
<1> SUFFICES ASSUME NEW zero
             PROVE  Blocked(EnsureTrail(s, i, path, zero))
  OBVIOUS
<1>2. CASE Len(path) = 1
  BY <1>1, <1>2, TrailNone
<1>3. CASE Len(path) = 2
  <2>1. EnsureTrail(s, i, path, zero) = Ensure(Start(s, i), path[1], zero)
    BY <1>3, TrailOne
  <2> QED BY <1>1, <2>1, EnsureBlocked
<1>4. CASE Len(path) = 3
  <2>1. EnsureTrail(s, i, path, zero)
          = Ensure(Ensure(Start(s, i), path[1], zero), path[2], zero)
    BY <1>4, TrailTwo
  <2>2. Blocked(Ensure(Start(s, i), path[1], zero))
    BY <1>1, EnsureBlocked
  <2> QED BY <2>1, <2>2, EnsureBlocked
<1> QED BY <1>2, <1>3, <1>4

LEMMA PathLength ==
  ASSUME NEW k \in 0 .. MaxBlocks - 1
  PROVE  Len(Path[k]) \in 1 .. 3
<1>1. \/ \E a : Path[k] = <<a>>
      \/ \E a, b : Path[k] = <<a, b>>
      \/ \E a, b, c : Path[k] = <<a, b, c>>
  BY PathCases, Zenon
<1> QED BY <1>1

LEMMA GetOrAllocBlocked ==
  ASSUME NEW s, Blocked(s), NEW i, NEW k \in 0 .. MaxBlocks - 1
  PROVE  Blocked(GetOrAlloc(s, i, k))
<1> DEFINE u == EnsureTrail(s, i, Path[k], TRUE)
<1>1. Len(Path[k]) \in 1 .. 3
  BY PathLength
<1>2. \A zero : Blocked(EnsureTrail(s, i, Path[k], zero))
  BY <1>1, TrailBlocked
<1>3. Blocked(u)
  BY <1>2
<1>4. ~(k >= MaxBlocks)
  BY Sizes
<1>5. GetOrAlloc(s, i, k) = Ensure(u, Last(Path[k]), FALSE)
  BY <1>4, Zenon DEF GetOrAlloc
<1> HIDE DEF u
<1> QED BY <1>3, <1>5, EnsureBlocked

LEMMA PutBlocked ==
  ASSUME NEW s, Blocked(s), NEW i, NEW pos \in Nat, pos < KTFS_MAX_FILE_SIZE, NEW v
  PROVE  Blocked(Put(s, i, pos, v))
<1> DEFINE t == GetOrAlloc(s, i, pos \div BLKSZ)
           e == SetCell(t.d, i, pos, v)
<1>1. pos \div BLKSZ \in 0 .. MaxBlocks - 1
  BY BlockNumber
<1>2. Blocked(t)
  BY <1>1, GetOrAllocBlocked
<1>3. Put(s, i, pos, v) \in {s, t} \/ (t.ok /\ Put(s, i, pos, v) = [t EXCEPT !.d = e])
  BY DEF Put
<1> HIDE DEF t, e
<1>4. t.ok => Blocked([t EXCEPT !.d = e])
  <2>1. [t EXCEPT !.d = e] = [ok |-> t.ok, d |-> e, node |-> t.node]
    BY <1>2 DEF Blocked
  <2> QED BY <2>1 DEF Blocked
<1> QED BY <1>2, <1>3, <1>4

LEMMA PutAllBlocked ==
  ASSUME NEW s, Blocked(s), NEW i, NEW m \in Nat, NEW n \in Int, n < KTFS_MAX_FILE_SIZE, NEW v
  PROVE  Blocked(PutAll(s, i, m, n, v))
<1>1. CASE ~(m <= n)
  BY <1>1 DEF PutAll
<1>2. CASE m <= n
  <2>1. PICK f : /\ f[m - 1] = s
                 /\ \A p \in m .. n : f[p] = Put(f[p - 1], i, p, v)
                 /\ PutAll(s, i, m, n, v) = f[n]
    BY <1>2, PutAllDef
  <2> DEFINE S == {k \in Int : Blocked(f[k])}
  <2>2. m - 1 \in S
    BY <2>1
  <2>3. ASSUME NEW k \in m - 1 .. n - 1, k \in S
        PROVE  k + 1 \in S
    <3>1. k + 1 \in m .. n /\ (k + 1) - 1 = k /\ k + 1 \in Nat /\ k + 1 < KTFS_MAX_FILE_SIZE
      BY <2>3, Sizes
    <3>2. f[k + 1] = Put(f[k], i, k + 1, v)
      BY <2>1, <3>1
    <3> QED BY <2>3, <3>1, <3>2, PutBlocked
  <2> HIDE DEF S
  <2>4. m - 1 .. n \subseteq S
    BY <2>2, <2>3, Counting
  <2> QED BY <1>2, <2>1, <2>4 DEF S
<1> QED BY <1>1, <1>2

(* Blocks that the file may have are refused only when all are marked, and *)
(* only when there are any to be made.                                     *)
LEMMA GetOrAllocAllBlocked ==
  ASSUME NEW s, Blocked(s), NEW i, NEW m \in Nat, NEW n \in Int, n < MaxBlocks
  PROVE  /\ Blocked(GetOrAllocAll(s, i, m, n))
         /\ ~(m <= n) => GetOrAllocAll(s, i, m, n) = s
<1>1. CASE ~(m <= n)
  BY <1>1 DEF GetOrAllocAll
<1>2. CASE m <= n
  <2>1. PICK f : /\ f[m - 1] = s
                 /\ \A p \in m .. n : f[p] = More(f[p - 1], i, p)
                 /\ GetOrAllocAll(s, i, m, n) = f[n]
    BY <1>2, GetOrAllocAllDef
  <2> DEFINE S == {k \in Int : Blocked(f[k])}
  <2>2. m - 1 \in S
    BY <2>1
  <2>3. ASSUME NEW k \in m - 1 .. n - 1, k \in S
        PROVE  k + 1 \in S
    <3>1. k + 1 \in m .. n /\ (k + 1) - 1 = k /\ k + 1 \in 0 .. MaxBlocks - 1
      BY <2>3, Sizes
    <3>2. f[k + 1] = More(f[k], i, k + 1)
      BY <2>1, <3>1
    <3> QED BY <2>3, <3>1, <3>2, GetOrAllocBlocked DEF More
  <2> HIDE DEF S
  <2>4. m - 1 .. n \subseteq S
    BY <2>2, <2>3, Counting
  <2> QED BY <1>2, <2>1, <2>4 DEF S
<1> QED BY <1>1, <1>2

LEMMA AddDentryBlocked ==
  ASSUME NEW d, NEW i, NEW n, d.inode[ROOT].size \in Nat,
         d.inode[ROOT].size < KTFS_MAX_FILE_SIZE, ~AddDentry(d, i, n).ok
  PROVE  AddDentry(d, i, n).d.bmap = Block
<1> DEFINE size == d.inode[ROOT].size
           path == Path[size \div BLKSZ]
           s    == EnsureTrail(Begin(d), ROOT, path, FALSE)
           t    == IF size % BLKSZ = 0 THEN Ensure(s, Last(path), FALSE) ELSE s
<1>1. Blocked(Begin(d))
  BY DEF Blocked, Begin
<1>2. size \div BLKSZ \in 0 .. MaxBlocks - 1
  BY BlockNumber
<1>3. Len(path) \in 1 .. 3
  BY <1>2, PathLength
<1>4. \A zero : Blocked(EnsureTrail(Begin(d), ROOT, path, zero))
  BY <1>1, <1>3, TrailBlocked
<1>5. Blocked(s)
  BY <1>4
<1>6. Blocked(t)
  BY <1>5, EnsureBlocked
<1>7. AddDentry(d, i, n)
        = IF t.ok THEN LET longer == [t.d EXCEPT !.inode[ROOT].size = size + DENSZ]
                       IN [t EXCEPT !.d = SetCell(longer, ROOT, size, Dentry(i, n))]
                  ELSE t
  BY DEF AddDentry
<1> HIDE DEF t
<1>8. ~t.ok
  <2>1. SUFFICES ASSUME t.ok
                 PROVE  FALSE
    OBVIOUS
  <2> DEFINE e == SetCell([t.d EXCEPT !.inode[ROOT].size = size + DENSZ], ROOT, size, Dentry(i, n))
  <2>2. AddDentry(d, i, n) = [t EXCEPT !.d = e]
    BY <1>7, <2>1
  <2> HIDE DEF e
  <2>3. [t EXCEPT !.d = e] = [ok |-> t.ok, d |-> e, node |-> t.node]
    BY <1>6 DEF Blocked
  <2> QED BY <2>1, <2>2, <2>3
<1> QED BY <1>6, <1>7, <1>8 DEF Blocked
----------------------------------------------------------------------------
(* What the cells of a file show.                                          *)

(* A number of three digits, the first without bound.                      *)
LEMMA Digits ==
  ASSUME NEW P \in Nat \ {0}, NEW d \in Nat
  PROVE  /\ d \div (P * P) \in Nat /\ ((d \div P) % P) \in Nat /\ (d % P) \in Nat
         /\ d = P * (P * (d \div (P * P)) + ((d \div P) % P)) + (d % P)
<1> DEFINE e == d \div P
           z == d % P
           g == e \div P
           y == e % P
           Q == P * P
           r == P * y + z
<1>1. e \in Nat /\ z \in 0 .. P - 1 /\ d = P * e + z
  BY Division
<1>2. g \in Nat /\ y \in 0 .. P - 1 /\ e = P * g + y
  BY <1>1, Division
<1> HIDE DEF e, g, y, z
<1>3. y \in Nat /\ z \in Nat /\ P * g \in Nat /\ P * y \in Nat /\ Q \in Nat \ {0}
  BY <1>1, <1>2
<1>4. d = Q * g + r
  <2>1. P * (P * g + y) = P * (P * g) + P * y
    BY <1>2, <1>3
  <2>2. P * (P * g) = Q * g
    BY <1>2
  <2>3. Q * g \in Nat
    BY <1>2, <1>3
  <2> HIDE DEF Q
  <2> QED BY <1>1, <1>2, <1>3, <2>1, <2>2, <2>3
<1>5. r \in 0 .. Q - 1
  <2>1. P * y + P <= P * P
    BY <1>2, <1>3, Monotone
  <2> QED BY <1>1, <1>3, <2>1
<1> HIDE DEF Q, r
<1>6. d \div Q = g
  BY <1>2, <1>3, <1>4, <1>5, DivisionUnique
<1> QED BY <1>1, <1>2, <1>3, <1>6 DEF Q, e, y, z

(* The place of a block behind two pointers, and what the block's number   *)
(* is.                                                                     *)
Beyond(n) == n - NDIRECT - PTRS
Deep(n)   == LET d == Beyond(n)
             IN <<NDIRECT + 1 + d \div (PTRS * PTRS), (d \div PTRS) % PTRS, d % PTRS>>
NumberAt(q) == PTRS * (PTRS * (q[1] - NDIRECT - 1) + q[2]) + q[3]

LEMMA DeepPath ==
  ASSUME NEW n \in 0 .. MaxBlocks - 1, n >= NDIRECT, n - NDIRECT \notin 0 .. PTRS - 1
  PROVE  /\ Beyond(n) \in Nat /\ PlaceOf(n) = Deep(n)
         /\ Deep(n)[1] > NDIRECT /\ Deep(n)[2] # -1
         /\ Beyond(n) = NumberAt(Deep(n))
<1> DEFINE d == Beyond(n)
           a == d \div (PTRS * PTRS)
           b == (d \div PTRS) % PTRS
           c == d % PTRS
<1>1. d \in Nat
  BY Sizes DEF Beyond
<1>2. Path[n] = <<NDIRECT + 1 + a, b, c>>
  BY Sizes DEF Path, Beyond
<1>3. a \in Nat /\ b \in Nat /\ c \in Nat /\ d = PTRS * (PTRS * a + b) + c
  BY <1>1, Digits, Sizes
<1>4. Deep(n) = <<NDIRECT + 1 + a, b, c>>
  BY DEF Deep
<1> HIDE DEF d, a, b, c
<1>5. PlaceOf(n) = <<NDIRECT + 1 + a, b, c>>
  BY <1>2 DEF PlaceOf
<1>6. Deep(n)[1] - NDIRECT - 1 = a /\ Deep(n)[2] = b /\ Deep(n)[3] = c
  BY <1>3, <1>4, Sizes
<1>7. d = NumberAt(Deep(n))
  BY <1>3, <1>6 DEF NumberAt
<1> QED BY <1>1, <1>3, <1>4, <1>5, <1>7, Sizes DEF d

LEMMA ShallowPath ==
  ASSUME NEW n \in 0 .. MaxBlocks - 1
  PROVE  /\ n < NDIRECT => PlaceOf(n) = <<n, -1, -1>>
         /\ n >= NDIRECT /\ n - NDIRECT \in 0 .. PTRS - 1 => PlaceOf(n) = <<NDIRECT, n - NDIRECT, -1>>
<1>1. n < NDIRECT => PlaceOf(n) = <<n, -1, -1>>
  BY PlaceOfBlock
<1>2. ASSUME n >= NDIRECT, n - NDIRECT \in 0 .. PTRS - 1
      PROVE  PlaceOf(n) = <<NDIRECT, n - NDIRECT, -1>>
  <2>1. Path[n] = <<NDIRECT, n - NDIRECT>>
    BY <1>2, Sizes DEF Path
  <2>2. Len(Path[n]) = 2 /\ Path[n][2] = n - NDIRECT
    BY <2>1
  <2>3. PICK b \in 0 .. PTRS - 1 : Path[n] = <<NDIRECT, b>> /\ PlaceOf(n) = <<NDIRECT, b, -1>>
    <3>1. ASSUME NEW a, NEW b, NEW c, Path[n] = <<a, b, c>>
          PROVE  FALSE
      BY <2>2, <3>1
    <3> QED BY <1>2, <3>1, PathCases, Sizes
  <2> QED BY <2>2, <2>3
<1> QED BY <1>1, <1>2

(* The blocks of a file are at different places.                           *)
LEMMA PlacesApart ==
  ASSUME NEW k \in 0 .. MaxBlocks - 1, NEW l \in 0 .. MaxBlocks - 1, PlaceOf(k) = PlaceOf(l)
  PROVE  k = l
<1> DEFINE q == PlaceOf(k)
<1>1. ASSUME NEW n \in 0 .. MaxBlocks - 1, PlaceOf(n) = q
      PROVE  \/ n < NDIRECT /\ q[1] = n
             \/ q[1] = NDIRECT /\ q[2] = n - NDIRECT
             \/ q[1] > NDIRECT /\ Beyond(n) = NumberAt(q)
  <2>1. CASE n < NDIRECT
    BY <1>1, <2>1, ShallowPath
  <2>2. CASE n >= NDIRECT /\ n - NDIRECT \in 0 .. PTRS - 1
    BY <1>1, <2>2, ShallowPath
  <2>3. CASE n >= NDIRECT /\ n - NDIRECT \notin 0 .. PTRS - 1
    BY <1>1, <2>3, DeepPath
  <2> QED BY <2>1, <2>2, <2>3, Sizes
<1>2. /\ \/ k < NDIRECT /\ q[1] = k
         \/ q[1] = NDIRECT /\ q[2] = k - NDIRECT
         \/ q[1] > NDIRECT /\ Beyond(k) = NumberAt(q)
      /\ \/ l < NDIRECT /\ q[1] = l
         \/ q[1] = NDIRECT /\ q[2] = l - NDIRECT
         \/ q[1] > NDIRECT /\ Beyond(l) = NumberAt(q)
  BY <1>1
<1> HIDE DEF q
<1>3. Beyond(k) = Beyond(l) => k = l
  BY Sizes DEF Beyond
<1> QED BY <1>2, <1>3, Sizes

LEMMA PositionsApart ==
  ASSUME NEW d, NEW I, Forest(d, I), NEW i \in I, NEW p \in Nat, NEW r \in Nat,
         Covered(d, i, p), Covered(d, i, r), Home(d, i, p) = Home(d, i, r), Offset(p) = Offset(r)
  PROVE  p = r
<1> DEFINE j == p \div BLKSZ
           k == r \div BLKSZ
<1>1. /\ p = BLKSZ * j + Offset(p) /\ r = BLKSZ * k + Offset(r)
  BY BlockNumber
<1>2. /\ j \in 0 .. MaxBlocks - 1 /\ k \in 0 .. MaxBlocks - 1
      /\ At(d, i, PlaceOf(j)) = At(d, i, PlaceOf(k)) /\ At(d, i, PlaceOf(j)) # 0
  BY DEF Covered, Home
<1> HIDE DEF j, k
<1>3. PlaceOf(j) \in Place /\ PlaceOf(k) \in Place
  BY <1>2, PlaceOfBlock
<1>4. PlaceOf(j) = PlaceOf(k)
  BY <1>2, <1>3 DEF Forest, Apart
<1>5. j = k
  BY <1>2, <1>4, PlacesApart
<1> QED BY <1>1, <1>5

(* e is d with cell v written at the positions W of file i.                *)
Overwritten(d, e, i, W, v) ==
  \A p \in Nat : Covered(d, i, p) \/ p \in W =>
    /\ Covered(e, i, p)
    /\ CellOf(e, i, p) = IF p \in W THEN v ELSE CellOf(d, i, p)

LEMMA OverwrittenNot ==
  ASSUME NEW d, NEW i, NEW W, W = {}
  PROVE  \A v : Overwritten(d, d, i, W, v)
BY DEF Overwritten

LEMMA OverwrittenTwice ==
  ASSUME NEW d, NEW e, NEW f, NEW i, NEW W, NEW X, NEW v,
         Overwritten(d, e, i, W, v), Overwritten(e, f, i, X, v), NEW Y, Y = W \cup X
  PROVE  Overwritten(d, f, i, Y, v)
<1> SUFFICES ASSUME NEW p \in Nat, Covered(d, i, p) \/ p \in W \cup X
             PROVE  /\ Covered(f, i, p)
                    /\ CellOf(f, i, p) = IF p \in W \cup X THEN v ELSE CellOf(d, i, p)
  BY DEF Overwritten
<1>1. Covered(d, i, p) \/ p \in W =>
        /\ Covered(e, i, p)
        /\ CellOf(e, i, p) = IF p \in W THEN v ELSE CellOf(d, i, p)
  BY DEF Overwritten
<1>2. Covered(e, i, p) \/ p \in X =>
        /\ Covered(f, i, p)
        /\ CellOf(f, i, p) = IF p \in X THEN v ELSE CellOf(e, i, p)
  BY DEF Overwritten
<1> QED BY <1>1, <1>2, Zenon

(* A call that takes blocks only, for any file, writes nothing.            *)
LEMMA GrowsShows ==
  ASSUME NEW d, NEW e, NEW I, NEW j, Grows(d, e, I, j, I), NEW i \in I, NEW W, W = {}
  PROVE  \A v : Overwritten(d, e, i, W, v)
<1> SUFFICES ASSUME NEW p \in Nat, Covered(d, i, p)
             PROVE  Covered(e, i, p) /\ CellOf(e, i, p) = CellOf(d, i, p)
  BY DEF Overwritten
<1>1. Keeps(d, e, I, j, I)
  BY DEF Grows
<1>2. PlaceOf(p \div BLKSZ) \in Place
  BY PlaceOfBlock DEF Covered
<1>3. Covered(e, i, p)
  BY <1>1, <1>2 DEF Keeps, Covered, Home
<1>4. CellOf(e, i, p) = CellOf(d, i, p)
  BY <1>1, CellKept
<1> QED BY <1>3, <1>4

(* A cell written is at its position only.                                 *)
LEMMA WroteShows ==
  ASSUME NEW d, NEW e, NEW I, Forest(d, I), NEW i \in I, NEW pos \in Nat, NEW v,
         Covered(d, i, pos), Wrote(d, e, I, i, pos, v)
  PROVE  Overwritten(d, e, i, {pos}, v)
<1>1. ASSUME NEW p \in Nat, Covered(d, i, p)
      PROVE  Covered(e, i, p) /\ CellOf(e, i, p) = IF p = pos THEN v ELSE CellOf(d, i, p)
  <2> DEFINE q == PlaceOf(p \div BLKSZ)
             b == Home(d, i, p)
             o == Offset(p)
  <2>1. q \in Place /\ p \div BLKSZ \in 0 .. MaxBlocks - 1
    BY <1>1, PlaceOfBlock DEF Covered
  <2>2. Home(e, i, p) = b
    BY <2>1 DEF Home, Wrote
  <2>3. Covered(e, i, p)
    BY <1>1, <2>2 DEF Covered
  <2>4. CellOf(e, i, p) = e.blk[b][o] /\ CellOf(d, i, p) = d.blk[b][o]
    BY <2>1, <2>2, CellIs
  <2>5. b \in Block /\ o \in Cells
    <3>1. d \in Disk /\ i \in Inode
      BY DEF Forest
    <3> QED BY <2>1, <3>1, AtType, BlockNumber DEF Home
  <2>6. b = Home(d, i, pos) /\ o = Offset(pos) => p = pos
    BY <1>1, PositionsApart
  <2> HIDE DEF q, b, o
  <2>7. e.blk[b][o] = IF b = Home(d, i, pos) /\ o = Offset(pos) THEN v ELSE d.blk[b][o]
    BY <2>5 DEF Wrote
  <2>8. p = pos => b = Home(d, i, pos) /\ o = Offset(pos)
    BY DEF b, o
  <2> QED BY <2>3, <2>4, <2>6, <2>7, <2>8
<1> QED BY <1>1 DEF Overwritten

LEMMA PutShows ==
  ASSUME NEW s \in State, s.ok, NEW I, Forest(s.d, I), NEW i \in I,
         NEW pos \in Nat, NEW v \in Cell, NEW t, t = Put(s, i, pos, v)
  PROVE  Overwritten(s.d, t.d, i, IF t.ok THEN {pos} ELSE {}, v)
<1> DEFINE k == pos \div BLKSZ
           u == GetOrAlloc(s, i, k)
<1>1. k \in Nat
  BY Division, Sizes
<1> HIDE DEF k
<1>2. /\ u \in State /\ Forest(u.d, I) /\ Grows(s.d, u.d, I, i, I)
      /\ u.ok => k \in 0 .. MaxBlocks - 1 /\ At(u.d, i, PlaceOf(k)) # 0
  BY <1>1, GetOrAllocGrows
<1> DEFINE none == {}
<1>3. none = {}
  OBVIOUS
<1> HIDE DEF none
<1>4. Overwritten(s.d, u.d, i, none, v)
  BY <1>2, <1>3, GrowsShows
<1>5. CASE ~u.ok
  <2>1. t = u
    BY <1>5 DEF Put, k
  <2> QED BY <1>3, <1>4, <1>5, <2>1
<1>6. CASE u.ok
  <2> DEFINE e == SetCell(u.d, i, pos, v)
  <2>1. t = [u EXCEPT !.d = e]
    BY <1>6 DEF Put, k
  <2>2. Covered(u.d, i, pos) /\ Forest(u.d, I) /\ e = SetCell(u.d, i, pos, v)
    BY <1>2, <1>6 DEF k, Covered, Home
  <2> HIDE DEF u, e
  <2>3. Wrote(u.d, e, I, i, pos, v)
    BY <2>2, SetCellKeeps
  <2>4. Overwritten(u.d, e, i, {pos}, v)
    BY <2>2, <2>3, WroteShows
  <2>5. Overwritten(s.d, e, i, {pos}, v)
    BY <1>3, <1>4, <2>4, OverwrittenTwice
  <2>6. t.d = e /\ t.ok
    BY <1>2, <1>6, <2>1 DEF State
  <2> QED BY <2>5, <2>6
<1> QED BY <1>5, <1>6

(* A write that stops writes the positions before the one it stops at.     *)
LEMMA PutAllShows ==
  ASSUME NEW s \in State, s.ok, NEW I, Forest(s.d, I), NEW i \in I,
         NEW m \in Nat, NEW n \in Int, m <= n, NEW v \in Cell,
         NEW t, t = PutAll(s, i, m, n, v)
  PROVE  \E k \in m - 1 .. n : /\ IF t.ok THEN k = n ELSE k < n
                               /\ Overwritten(s.d, t.d, i, m .. k, v)
<1>1. PICK f : /\ f[m - 1] = s
               /\ \A p \in m .. n : f[p] = Put(f[p - 1], i, p, v)
               /\ t = f[n]
  BY PutAllDef
<1> DEFINE Stops(u, j) == \E k \in m - 1 .. j : /\ IF u.ok THEN k = j ELSE k < j
                                                /\ Overwritten(s.d, u.d, i, m .. k, v)
           S == {j \in Int : Step(s, f[j], I, i) /\ Stops(f[j], j)}
<1>2. m - 1 \in S
  <2>1. Step(s, s, I, i)
    BY GrowsNot DEF Step
  <2>2. m .. m - 1 = {}
    OBVIOUS
  <2>3. Overwritten(s.d, s.d, i, m .. m - 1, v)
    BY <2>2, OverwrittenNot
  <2> QED BY <1>1, <2>1, <2>3
<1>3. ASSUME NEW j \in m - 1 .. n - 1, j \in S
      PROVE  j + 1 \in S
  <2> DEFINE u == f[j]
             w == f[j + 1]
  <2>1. w = Put(u, i, j + 1, v)
    <3>1. j + 1 \in m .. n /\ (j + 1) - 1 = j
      BY <1>3
    <3> QED BY <1>1, <3>1
  <2>2. Step(s, u, I, i) /\ u \in State /\ Forest(u.d, I) /\ j + 1 \in Nat
    BY <1>3 DEF Step
  <2>3. PICK k \in m - 1 .. j : /\ IF u.ok THEN k = j ELSE k < j
                                /\ Overwritten(s.d, u.d, i, m .. k, v)
    BY <1>3
  <2>4. j \in Int /\ j + 1 \in Int /\ m - 1 <= j /\ (w = f[j + 1])
    BY <1>3
  <2>5. SUFFICES Step(s, w, I, i) /\ Stops(w, j + 1)
    BY <2>4
  <2> HIDE DEF u, w
  <2>6. CASE ~u.ok
    <3>1. w = u
      BY <2>1, <2>6 DEF Put
    <3>2. k \in m - 1 .. j + 1 /\ k < j + 1
      BY <2>4
    <3> QED BY <2>2, <2>3, <2>6, <3>1, <3>2
  <2>7. CASE u.ok
    <3>1. Step(s, w, I, i)
      <4>1. Step(u, w, I, i)
        BY <2>1, <2>2, <2>7, PutGrows
      <4> QED BY <2>2, <4>1, StepTwice
    <3>2. Overwritten(u.d, w.d, i, IF w.ok THEN {j + 1} ELSE {}, v)
      BY <2>1, <2>2, <2>7, PutShows
    <3>3. k = j
      BY <2>3, <2>7
    <3>4. (m .. j) \cup (IF w.ok THEN {j + 1} ELSE {}) = m .. IF w.ok THEN j + 1 ELSE j
      BY <2>4
    <3>5. Overwritten(s.d, w.d, i, m .. IF w.ok THEN j + 1 ELSE j, v)
      BY <2>3, <3>2, <3>3, <3>4, OverwrittenTwice
    <3>6. CASE w.ok
      <4>1. j + 1 \in m - 1 .. j + 1
        BY <2>4
      <4> QED BY <3>1, <3>5, <3>6, <4>1
    <3>7. CASE ~w.ok
      <4>1. j \in m - 1 .. j + 1 /\ j < j + 1
        BY <2>4
      <4> QED BY <3>1, <3>5, <3>7, <4>1
    <3> QED BY <3>6, <3>7
  <2> QED BY <2>6, <2>7
<1> HIDE DEF S
<1>4. m - 1 .. n \subseteq S
  BY <1>2, <1>3, Counting
<1>5. n \in S
  BY <1>4
<1> QED BY <1>1, <1>5 DEF S

(* The cells of a file.                                                    *)
CellsOf(d, i) == [k \in 1 .. d.inode[i].size |-> CellOf(d, i, k - 1)]

LEMMA CellsOfType ==
  ASSUME NEW d, NEW I, Forest(d, I), Sized(d, I), NEW i \in I
  PROVE  /\ CellsOf(d, i) \in Seq(Cell) /\ Len(CellsOf(d, i)) = d.inode[i].size
         /\ d.inode[i].size \in Nat
         /\ \A k \in 1 .. d.inode[i].size : /\ CellsOf(d, i)[k] = CellOf(d, i, k - 1)
                                            /\ Covered(d, i, k - 1) /\ k - 1 \in Nat
<1> DEFINE size == d.inode[i].size
<1>1. d \in Disk /\ i \in Inode
  BY DEF Forest
<1>2. size \in Nat /\ size <= KTFS_MAX_FILE_SIZE /\ HasBlocks(d, i, size)
  BY <1>1, SizeType DEF Sized, HasBlocks
<1> HIDE DEF size
<1>3. ASSUME NEW k \in 1 .. size
      PROVE  CellOf(d, i, k - 1) \in Cell /\ Covered(d, i, k - 1) /\ k - 1 \in Nat
  <2>1. k - 1 \in Nat /\ k - 1 < size /\ k - 1 < KTFS_MAX_FILE_SIZE
    BY <1>2, Sizes
  <2> QED BY <1>1, <1>2, <2>1, CellType, HasBlocksCovers
<1>4. CellsOf(d, i) = [k \in 1 .. size |-> CellOf(d, i, k - 1)]
  BY DEF CellsOf, size
<1>5. CellsOf(d, i) \in Seq(Cell) /\ Len(CellsOf(d, i)) = size
  BY <1>2, <1>3, <1>4
<1> QED BY <1>2, <1>3, <1>4, <1>5 DEF size

(* Another file's cells stay.                                              *)
LEMMA CellsKept ==
  ASSUME NEW d, NEW e, NEW I, Forest(d, I), Sized(d, I), NEW i, NEW J \in SUBSET I,
         Keeps(d, e, I, i, J), NEW k \in J, e.inode[k].size = d.inode[k].size
  PROVE  CellsOf(e, k) = CellsOf(d, k)
<1>1. ASSUME NEW p \in 1 .. d.inode[k].size
      PROVE  CellOf(e, k, p - 1) = CellOf(d, k, p - 1)
  BY CellsOfType, CellKept
<1> QED BY <1>1 DEF CellsOf

(* d with another size of file i.                                          *)
Longer(d, i, n) == [d EXCEPT !.inode[i].size = n]

LEMMA LongerShows ==
  ASSUME NEW d, NEW I, Forest(d, I), NEW i \in I, NEW n \in Nat
  PROVE  /\ Longer(d, i, n).inode[i].size = n
         /\ Keeps(d, Longer(d, i, n), I, i, I)
         /\ \A p \in Nat : Covered(d, i, p) => CellOf(Longer(d, i, n), i, p) = CellOf(d, i, p)
<1> DEFINE e == Longer(d, i, n)
<1>1. e = [d EXCEPT !.inode[i].size = n]
  BY Zenon DEF Longer
<1> HIDE DEF e
<1>2. Keeps(d, e, I, i, I) /\ e.inode[i].size = n
  BY <1>1, Resize
<1>3. \A p \in Nat : Covered(d, i, p) => CellOf(e, i, p) = CellOf(d, i, p)
  BY <1>2, CellKept
<1> QED BY <1>2, <1>3 DEF e

LEMMA PrefixIs ==
  ASSUME NEW S, NEW s \in Seq(S), NEW n \in Nat, n <= Len(s)
  PROVE  SubSeq(s, 1, n) = [k \in 1 .. n |-> s[k]]
OBVIOUS

(* A write inside the file, or that starts at its end, shows what it has   *)
(* written; one that stops half-way leaves the size as it was.             *)
WriteShows(d, u, i, pos, len, v) ==
  LET old == CellsOf(d, i)
      new == CellsOf(u.d, i)
  IN /\ u.ok => new = Abstract!Overwrite(old, pos, len, v)
     /\ ~u.ok => /\ \E k \in 0 .. len - 1 :
                      new = SubSeq(Abstract!Overwrite(old, pos, k, v), 1, Len(old))
                 /\ u.d.bmap = Block \/ pos + len > KTFS_MAX_FILE_SIZE

LEMMA WrittenShows ==
  ASSUME NEW I, Forest(disk, I), Sized(disk, I), NEW f, f.inode \in I, f.name \in Name,
         f.pos \in Nat, NEW len \in Nat \ {0}, f.pos <= disk.inode[f.inode].size
  PROVE  WriteShows(disk, Written(f, len), f.inode, f.pos, len, Data(f.name))
<1> DEFINE i    == f.inode
           pos  == f.pos
           v    == Data(f.name)
           size == disk.inode[i].size
           b    == Begin(disk)
           s    == PutAll(b, i, pos, pos + len - 1, v)
           u    == Written(f, len)
           old  == CellsOf(disk, i)
           max  == KTFS_MAX_FILE_SIZE
<1>1. /\ disk \in Disk /\ i \in Inode /\ i \in I /\ v \in Cell
      /\ b \in State /\ b.ok /\ b.d = disk /\ max \in Nat /\ pos \in Nat
  BY CellTypes, NodeTypes, Sizes DEF Forest
<1>2. size \in Nat /\ pos <= size /\ old \in Seq(Cell) /\ Len(old) = size
  BY <1>1, CellsOfType
<1>3. u = IF s.ok /\ pos + len > s.d.inode[i].size
            THEN [s EXCEPT !.d.inode[i].size = pos + len] ELSE s
  <2>1. ~(pos > b.d.inode[i].size)
    BY <1>1, <1>2
  <2>2. FillGap(b, i, pos) = b
    BY <2>1, Zenon DEF FillGap
  <2> QED BY <2>2, Zenon DEF Written
<1>4. Step(b, s, I, i)
  <2>1. pos + len - 1 \in Int
    BY <1>1
  <2> QED BY <1>1, <2>1, PutAllGrows
<1>5. PICK k \in pos - 1 .. pos + len - 1 :
        /\ IF s.ok THEN k = pos + len - 1 ELSE k < pos + len - 1
        /\ Overwritten(disk, s.d, i, pos .. k, v)
  <2>1. pos + len - 1 \in Int /\ pos <= pos + len - 1
    BY <1>1
  <2> QED BY <1>1, <2>1, PutAllShows
<1>6. ~s.ok => s.d.bmap = Block \/ pos + len > max
  <2>1. Blocked(b)
    BY DEF Blocked, Begin
  <2>2. pos + len <= max => pos + len - 1 < max /\ pos + len - 1 \in Int
    BY <1>1
  <2>3. pos + len <= max => Blocked(s)
    BY <1>1, <2>1, <2>2, PutAllBlocked
  <2> QED BY <1>1, <2>3 DEF Blocked
<1>7. s.d.inode[i].size = size /\ s \in State /\ Forest(s.d, I)
  BY <1>1, <1>4 DEF Step, Grows
<1>8. ASSUME NEW p \in Nat, p < size \/ p \in pos .. k
      PROVE  /\ Covered(s.d, i, p)
             /\ CellOf(s.d, i, p) = IF p \in pos .. k THEN v ELSE old[p + 1]
  <2>1. p < size => Covered(disk, i, p) /\ old[p + 1] = CellOf(disk, i, p)
    <3>1. p < size => p + 1 \in 1 .. size /\ (p + 1) - 1 = p
      <4> HIDE DEF size, old
      <4> QED BY <1>2
    <3> QED BY <1>1, <3>1, CellsOfType
  <2> HIDE DEF old
  <2> QED BY <1>5, <1>8, <2>1 DEF Overwritten
<1> HIDE DEF i, pos, v, s, u, old, max, size, b
<1>9. CASE ~s.ok
  <2>1. u = s
    BY <1>3, <1>9
  <2>2. CellsOf(u.d, i) = [j \in 1 .. size |-> CellOf(s.d, i, j - 1)]
    BY <1>7, <2>1 DEF CellsOf
  <2> DEFINE n   == k - pos + 1
             ovr == Abstract!Overwrite(old, pos, n, v)
  <2>3. n \in 0 .. len - 1
    BY <1>1, <1>5, <1>9
  <2>4. ovr = [j \in 1 .. (IF pos + n > size THEN pos + n ELSE size) |->
                 IF j \in pos + 1 .. pos + n THEN v ELSE old[j]]
    BY <1>2, Zenon DEF Abstract!Overwrite
  <2> HIDE DEF ovr
  <2>5. ovr \in Seq(Cell) /\ size <= Len(ovr)
    <3> DEFINE m == IF pos + n > size THEN pos + n ELSE size
    <3>1. m \in Nat /\ size <= m
      BY <1>1, <1>2, <2>3
    <3>2. ASSUME NEW j \in 1 .. m, j \notin pos + 1 .. pos + n
          PROVE  old[j] \in Cell
      <4>1. j \in 1 .. size
        BY <1>1, <1>2, <2>3, <3>2
      <4> QED BY <1>2, <4>1
    <3>3. ovr = [j \in 1 .. m |-> IF j \in pos + 1 .. pos + n THEN v ELSE old[j]]
      BY <2>4
    <3> HIDE DEF m, n
    <3>4. ovr \in [1 .. m -> Cell]
      BY <1>1, <3>2, <3>3
    <3> QED BY <3>1, <3>3, <3>4
  <2>6. SubSeq(ovr, 1, size) = [j \in 1 .. size |-> ovr[j]]
    BY <1>2, <2>5, PrefixIs
  <2>7. ASSUME NEW j \in 1 .. size
        PROVE  ovr[j] = CellOf(s.d, i, j - 1)
    <3>1. j \in 1 .. (IF pos + n > size THEN pos + n ELSE size)
      BY <1>1, <1>2, <2>3
    <3>2. ovr[j] = IF j \in pos + 1 .. pos + n THEN v ELSE old[j]
      BY <2>4, <3>1
    <3>3. j \in pos + 1 .. pos + n <=> j - 1 \in pos .. k
      BY <1>1, <1>2, <1>5
    <3>4. j - 1 \in Nat /\ j - 1 < size /\ (j - 1) + 1 = j
      BY <1>2
    <3>5. CellOf(s.d, i, j - 1) = IF j - 1 \in pos .. k THEN v ELSE old[(j - 1) + 1]
      BY <1>8, <3>4
    <3> QED BY <3>2, <3>3, <3>4, <3>5
  <2>8. CellsOf(u.d, i) = SubSeq(ovr, 1, size)
    BY <2>2, <2>6, <2>7
  <2>9. ~u.ok /\ (u.d.bmap = Block \/ pos + len > max)
    BY <1>6, <1>9, <2>1
  <2> QED BY <1>2, <2>3, <2>8, <2>9 DEF WriteShows, i, pos, v, u, old, max, ovr
<1>10. CASE s.ok
  <2> DEFINE n == IF pos + len > size THEN pos + len ELSE size
  <2>1. k = pos + len - 1 /\ n \in Nat /\ size <= n
    BY <1>1, <1>2, <1>5, <1>10
  <2>2. /\ u.ok /\ u.d.inode[i].size = n
        /\ \A p \in Nat : Covered(s.d, i, p) => CellOf(u.d, i, p) = CellOf(s.d, i, p)
    <3>1. CASE pos + len > size
      <4> DEFINE m == pos + len
                 e == [s.d EXCEPT !.inode[i].size = m]
      <4>1. u = [s EXCEPT !.d = e]
        BY <1>3, <1>7, <1>10, <3>1
      <4>2. n = m /\ m \in Nat
        BY <1>1, <3>1
      <4> HIDE DEF m, n
      <4>3. e = Longer(s.d, i, m)
        BY Zenon DEF Longer
      <4> HIDE DEF e
      <4>4. u.ok /\ u.d = e
        BY <1>7, <1>10, <4>1 DEF State
      <4>5. e.inode[i].size = m
            /\ \A p \in Nat : Covered(s.d, i, p) => CellOf(e, i, p) = CellOf(s.d, i, p)
        BY <1>1, <1>7, <4>2, <4>3, LongerShows
      <4> QED BY <4>2, <4>4, <4>5
    <3>2. CASE ~(pos + len > size)
      BY <1>3, <1>7, <1>10, <3>2
    <3> QED BY <3>1, <3>2
  <2>3. CellsOf(u.d, i) = [j \in 1 .. n |-> CellOf(u.d, i, j - 1)]
    BY <2>2 DEF CellsOf
  <2>4. ASSUME NEW j \in 1 .. n
        PROVE  CellOf(u.d, i, j - 1) = IF j \in pos + 1 .. pos + len THEN v ELSE old[j]
    <3>1. /\ j - 1 \in Nat /\ (j - 1) + 1 = j
          /\ j - 1 < size \/ j - 1 \in pos .. k
          /\ j \in pos + 1 .. pos + len <=> j - 1 \in pos .. k
      <4>1. /\ pos \in Nat /\ size \in Nat /\ len \in Nat /\ len > 0 /\ pos <= size
            /\ k = pos + len - 1
        BY <1>1, <1>2, <2>1
      <4>2. j \in Nat /\ j >= 1 /\ (j <= size \/ j <= pos + len)
        BY <4>1
      <4> HIDE DEF n
      <4> QED BY <4>1, <4>2
    <3>2. /\ Covered(s.d, i, j - 1)
          /\ CellOf(s.d, i, j - 1) = IF j - 1 \in pos .. k THEN v ELSE old[(j - 1) + 1]
      BY <1>8, <3>1
    <3>3. CellOf(u.d, i, j - 1) = CellOf(s.d, i, j - 1)
      BY <2>2, <3>1, <3>2
    <3> QED BY <3>1, <3>2, <3>3
  <2>5. Abstract!Overwrite(old, pos, len, v)
          = [j \in 1 .. n |-> IF j \in pos + 1 .. pos + len THEN v ELSE old[j]]
    BY <1>2, Zenon DEF Abstract!Overwrite
  <2> HIDE DEF n
  <2>6. CellsOf(u.d, i) = Abstract!Overwrite(old, pos, len, v)
    BY <2>3, <2>4, <2>5
  <2> QED BY <2>2, <2>6 DEF WriteShows, i, pos, v, u, old
<1> QED BY <1>9, <1>10

----------------------------------------------------------------------------
(* What the client sees of an image: the names in the directory and the    *)
(* cells of each file.                                                     *)
Names(d)      == [k \in 1 .. Count(d) |-> EntryAt(d, k - 1)[3]]
InodeAt(d, j) == EntryAt(d, j)[2]
Content(d, n) == IF Found(d, n) = {} THEN <<>>
                 ELSE CellsOf(d, InodeAt(d, CHOOSE j \in Found(d, n) : TRUE))

LEMMA NamesAre ==
  ASSUME NEW d, ImageOK(d)
  PROVE  /\ Names(d) \in Seq(Name) /\ Len(Names(d)) = Count(d) /\ Count(d) \in Nat
         /\ \A k \in 1 .. Count(d) : Names(d)[k] = EntryAt(d, k - 1)[3]
         /\ Entries(d) = 0 .. Count(d) - 1 /\ DOMAIN Names(d) = 1 .. Count(d)
<1>1. d \in Disk /\ DirOK(d)
  BY DEF ImageOK, Forest
<1>2. Count(d) \in Nat /\ Entries(d) = 0 .. Count(d) - 1
  BY <1>1, CountIs
<1> DEFINE c == Count(d)
           e(k) == EntryAt(d, k - 1)[3]
<1>3. ASSUME NEW k \in 1 .. c
      PROVE  e(k) \in Name
  BY <1>1, <1>2, EntryIs
<1>4. Names(d) = [k \in 1 .. c |-> e(k)]
  BY DEF Names
<1> HIDE DEF c, e
<1>5. Names(d) \in Seq(Name) /\ Len(Names(d)) = c
  BY <1>2, <1>3, <1>4 DEF c
<1>6. \A k \in 1 .. c : Names(d)[k] = e(k)
  BY <1>4
<1> QED BY <1>2, <1>4, <1>5, <1>6 DEF c, e

(* A file has one entry.                                                   *)
LEMMA ContentIs ==
  ASSUME NEW d, ImageOK(d), NEW n, NEW j \in Found(d, n)
  PROVE  /\ Content(d, n) = CellsOf(d, InodeAt(d, j)) /\ j \in Entries(d)
         /\ EntryAt(d, j) = Dentry(InodeAt(d, j), n) /\ InodeAt(d, j) \in d.imap \ {ROOT}
<1>1. d \in Disk /\ DirOK(d)
  BY DEF ImageOK, Forest
<1>2. \A l \in Found(d, n) : l = j
  BY <1>1 DEF DirOK, Found
<1>3. (CHOOSE l \in Found(d, n) : TRUE) = j
  BY <1>2
<1>4. j \in Entries(d) /\ EntryAt(d, j)[3] = n
  BY DEF Found
<1>5. EntryAt(d, j) = Dentry(InodeAt(d, j), n) /\ InodeAt(d, j) \in d.imap \ {ROOT}
  BY <1>1, <1>4, EntryIs DEF InodeAt
<1> QED BY <1>3, <1>4, <1>5 DEF Content

LEMMA NotFound ==
  ASSUME NEW d, NEW n, Found(d, n) = {}
  PROVE  Content(d, n) = <<>>
BY DEF Content

LEMMA ContentSame ==
  ASSUME NEW d, ImageOK(d), NEW e, ImageOK(e), NEW n,
         NEW j \in Found(d, n), NEW l \in Found(e, n), EntryAt(e, l) = EntryAt(d, j),
         CellsOf(e, InodeAt(d, j)) = CellsOf(d, InodeAt(d, j))
  PROVE  Content(e, n) = Content(d, n)
<1>1. InodeAt(e, l) = InodeAt(d, j)
  BY DEF InodeAt
<1> QED BY <1>1, ContentIs

(* e is d with other bits set, but the same files.                         *)
SameCells(d, e) == \A k \in d.imap \ {ROOT} : CellsOf(e, k) = CellsOf(d, k)

LEMMA SameDirNames ==
  ASSUME NEW d, ImageOK(d), NEW e, ImageOK(e), SameDir(d, e)
  PROVE  /\ Names(e) = Names(d) /\ \A n : Found(e, n) = Found(d, n)
<1>1. Count(e) = Count(d) /\ Entries(e) = Entries(d)
  BY DEF SameDir, Count, Entries
<1>2. \A k \in 1 .. Count(d) : k - 1 \in Entries(d)
  BY NamesAre
<1>3. \A j \in Entries(d) : EntryAt(e, j) = EntryAt(d, j)
  BY DEF SameDir
<1>4. Names(e) = Names(d)
  BY <1>1, <1>2, <1>3 DEF Names
<1>5. \A n : Found(e, n) = Found(d, n)
  BY <1>1, <1>3 DEF Found
<1> QED BY <1>4, <1>5

LEMMA SameContents ==
  ASSUME NEW d, ImageOK(d), NEW e, ImageOK(e), SameDir(d, e), SameCells(d, e)
  PROVE  Names(e) = Names(d) /\ \A n \in Name : Content(e, n) = Content(d, n)
<1>1. Names(e) = Names(d) /\ \A n : Found(e, n) = Found(d, n)
  BY SameDirNames
<1>2. ASSUME NEW n \in Name
      PROVE  Content(e, n) = Content(d, n)
  <2>1. CASE Found(d, n) = {}
    BY <1>1, <2>1, NotFound
  <2>2. CASE Found(d, n) # {}
    <3>1. PICK j \in Found(d, n) : TRUE
      BY <2>2
    <3>2. j \in Found(e, n) /\ j \in Entries(d) /\ InodeAt(d, j) \in d.imap \ {ROOT}
      BY <1>1, ContentIs
    <3>3. EntryAt(e, j) = EntryAt(d, j)
      BY <3>2 DEF SameDir
    <3>4. CellsOf(e, InodeAt(d, j)) = CellsOf(d, InodeAt(d, j))
      BY <3>2 DEF SameCells
    <3> QED BY <3>2, <3>3, <3>4, ContentSame
  <2> QED BY <2>1, <2>2
<1> QED BY <1>1, <1>2

(* A call that writes to file n changes its content only.                  *)
LEMMA WriteContents ==
  ASSUME NEW d, ImageOK(d), NEW e, ImageOK(e), NEW i \in d.imap \ {ROOT}, NEW n \in Name,
         NEW I, I = d.imap, Keeps(d, e, I, i, I \ {i}),
         NEW j \in Entries(d), EntryAt(d, j) = Dentry(i, n)
  PROVE  /\ Names(e) = Names(d)
         /\ \A m \in Name : Content(e, m) = IF m = n THEN CellsOf(e, i) ELSE Content(d, m)
         /\ Content(d, n) = CellsOf(d, i)
<1>1. Forest(d, I) /\ Sized(d, I) /\ ROOT \in I /\ i # ROOT /\ i \in Inode /\ I \subseteq Inode
  BY DEF ImageOK, DirOK, Forest
<1>2. SameDir(d, e)
  BY <1>1, DirKept
<1>3. Names(e) = Names(d) /\ \A m : Found(e, m) = Found(d, m)
  BY <1>2, SameDirNames
<1>4. j \in Found(d, n) /\ InodeAt(d, j) = i
  BY <1>1, DentryFields DEF Found, InodeAt
<1>5. Content(d, n) = CellsOf(d, i)
  BY <1>4, ContentIs
<1>6. EntryAt(e, j) = EntryAt(d, j)
  BY <1>2 DEF SameDir
<1>7. Content(e, n) = CellsOf(e, i)
  <2>1. j \in Found(e, n) /\ InodeAt(e, j) = i
    BY <1>3, <1>4, <1>6 DEF InodeAt
  <2> QED BY <2>1, ContentIs
<1>8. ASSUME NEW m \in Name, m # n
      PROVE  Content(e, m) = Content(d, m)
  <2>1. CASE Found(d, m) = {}
    BY <1>3, <2>1, NotFound
  <2>2. CASE Found(d, m) # {}
    <3>1. PICK l \in Found(d, m) : TRUE
      BY <2>2
    <3> DEFINE k == InodeAt(d, l)
    <3>2. /\ l \in Found(e, m) /\ l \in Entries(d) /\ k \in I \ {ROOT}
          /\ EntryAt(d, l) = Dentry(k, m)
      BY <1>3, ContentIs
    <3>3. EntryAt(e, l) = EntryAt(d, l)
      BY <1>2, <3>2 DEF SameDir
    <3>4. k # i
      <4>1. k = i => l = j
        BY <1>4, <3>2 DEF ImageOK, DirOK, InodeAt
      <4>2. l = j => m = n
        BY <1>4, <3>1 DEF Found
      <4> QED BY <1>8, <4>1, <4>2
    <3>5. k \in I \ {i} /\ e.inode[k] = d.inode[k]
      BY <1>1, <3>2, <3>4 DEF Keeps
    <3> HIDE DEF k
    <3>6. CellsOf(e, k) = CellsOf(d, k)
      <4> DEFINE J == I \ {i}
      <4>1. J \in SUBSET I /\ k \in J /\ Keeps(d, e, I, i, J)
        BY <3>5
      <4>2. e.inode[k].size = d.inode[k].size
        BY <3>5
      <4>3. Forest(d, I) /\ Sized(d, I)
        BY <1>1
      <4> HIDE DEF J
      <4> QED BY ONLY <4>1, <4>2, <4>3, CellsKept
    <3> QED BY <3>2, <3>3, <3>6, ContentSame DEF k
  <2> QED BY <2>1, <2>2
<1> QED BY <1>3, <1>5, <1>7, <1>8

(* e is d with file n, empty, in inode i; it is the last in the directory. *)
Created(d, e, i, n) ==
  /\ e.inode[ROOT].size = Count(d) * DENSZ + DENSZ
  /\ \A l \in 0 .. Count(d) :
       EntryAt(e, l) = IF l = Count(d) THEN Dentry(i, n) ELSE EntryAt(d, l)
  /\ e.inode[i].size = 0
  /\ SameCells(d, e)

LEMMA EmptyCells ==
  ASSUME NEW d, NEW i, d.inode[i].size = 0
  PROVE  CellsOf(d, i) = <<>>
<1>1. CellsOf(d, i) = [k \in 1 .. 0 |-> CellOf(d, i, k - 1)]
  BY DEF CellsOf
<1>2. CellsOf(d, i) \in Seq({}) /\ Len(CellsOf(d, i)) = 0
  BY <1>1
<1> QED BY <1>2

LEMMA CreatedContents ==
  ASSUME NEW d, ImageOK(d), NEW e, ImageOK(e), NEW i \in Inode, NEW n \in Name,
         Found(d, n) = {}, Created(d, e, i, n)
  PROVE  /\ Names(e) = Append(Names(d), n)
         /\ \A m \in Name : Content(e, m) = Content(d, m)
<1> DEFINE c == Count(d)
<1>1. c \in Nat /\ Entries(d) = 0 .. c - 1
  BY NamesAre
<1>2. Count(e) = c + 1 /\ Entries(e) = 0 .. c
  <2> DEFINE x == c + 1
  <2>1. e.inode[ROOT].size = x * DENSZ /\ x \in Nat
    BY <1>1, Sizes DEF Created
  <2> HIDE DEF x
  <2>2. Entries(e) = 0 .. x - 1
    BY <2>1, EntriesOf
  <2>3. Entries(e) = 0 .. Count(e) - 1 /\ Count(e) \in Nat
    BY NamesAre
  <2>4. Count(e) = x
    <3>1. x \in Entries(e) <=> x <= x - 1
      BY <2>1, <2>2
    <3>2. Count(e) \notin Entries(e)
      BY <2>3
    <3>3. x - 1 \in Nat => x - 1 \in Entries(e)
      BY <2>1, <2>2
    <3>4. Count(e) - 1 \in Nat => Count(e) - 1 \in Entries(e)
      BY <2>3
    <3> QED BY <2>1, <2>2, <2>3, <3>1, <3>2, <3>3, <3>4
  <2> QED BY <1>1, <2>2, <2>4 DEF x
<1>3. /\ \A l \in 0 .. c - 1 : EntryAt(e, l) = EntryAt(d, l)
      /\ EntryAt(e, c) = Dentry(i, n)
  BY <1>1 DEF Created
<1> HIDE DEF c
<1>4. Names(e) = Append(Names(d), n)
  <2>1. Len(Append(Names(d), n)) = c + 1 /\ Append(Names(d), n) \in Seq(Name)
    BY <1>1, NamesAre DEF c
  <2>2. Len(Names(e)) = c + 1 /\ Names(e) \in Seq(Name)
    BY <1>2, NamesAre
  <2>3. ASSUME NEW k \in 1 .. c + 1
        PROVE  Names(e)[k] = Append(Names(d), n)[k]
    <3>1. Names(e)[k] = EntryAt(e, k - 1)[3]
      BY <1>2, NamesAre
    <3>2. CASE k = c + 1
      <4>1. k - 1 = c
        BY <1>1, <3>2
      <4>2. Names(e)[k] = n
        BY <1>3, <3>1, <4>1, DentryFields
      <4>3. Append(Names(d), n)[k] = n
        BY <3>2, NamesAre DEF c
      <4> QED BY <4>2, <4>3
    <3>3. CASE k # c + 1
      <4>1. k \in 1 .. c /\ k - 1 \in 0 .. c - 1
        BY <1>1, <3>3
      <4>2. Names(d)[k] = EntryAt(d, k - 1)[3]
        BY <4>1, NamesAre DEF c
      <4>3. Append(Names(d), n)[k] = Names(d)[k]
        BY <4>1, NamesAre DEF c
      <4> QED BY <1>3, <3>1, <4>1, <4>2, <4>3
    <3> QED BY <3>2, <3>3
  <2> QED BY <2>1, <2>2, <2>3
<1>5. ASSUME NEW m \in Name, NEW l \in Found(d, m)
      PROVE  Content(e, m) = Content(d, m)
  <2>1. l \in Entries(d) /\ InodeAt(d, l) \in d.imap \ {ROOT} /\ EntryAt(d, l)[3] = m
    BY ContentIs DEF Found
  <2>2. EntryAt(e, l) = EntryAt(d, l)
    BY <1>1, <1>3, <2>1
  <2>3. l \in Found(e, m)
    BY <1>1, <1>2, <2>1, <2>2 DEF Found
  <2>4. CellsOf(e, InodeAt(d, l)) = CellsOf(d, InodeAt(d, l))
    BY <2>1 DEF Created, SameCells
  <2> QED BY <2>2, <2>3, <2>4, ContentSame
<1>6. Content(e, n) = Content(d, n)
  <2>1. c \in Found(e, n) /\ InodeAt(e, c) = i
    BY <1>1, <1>2, <1>3, DentryFields DEF Found, InodeAt
  <2>2. Content(e, n) = CellsOf(e, i)
    BY <2>1, ContentIs
  <2>3. CellsOf(e, i) = <<>>
    BY EmptyCells DEF Created
  <2> QED BY <2>2, <2>3, NotFound
<1>7. ASSUME NEW m \in Name, m # n, Found(d, m) = {}
      PROVE  Content(e, m) = Content(d, m)
  <2>1. Found(e, m) = {}
    <3>1. SUFFICES ASSUME NEW l \in Found(e, m)
                   PROVE  FALSE
      OBVIOUS
    <3>2. l \in 0 .. c /\ EntryAt(e, l)[3] = m
      BY <1>2 DEF Found
    <3>3. l # c
      BY <1>3, <1>7, <3>2, DentryFields
    <3>4. l \in 0 .. c - 1
      BY <1>1, <3>2, <3>3
    <3> QED BY <1>1, <1>3, <1>7, <3>2, <3>4 DEF Found
  <2> QED BY <1>7, <2>1, NotFound
<1>8. ASSUME NEW m \in Name
      PROVE  Content(e, m) = Content(d, m)
  BY <1>5, <1>6, <1>7
<1> QED BY <1>4, <1>8

(* e is d without entry j, whose place the last entry has taken.           *)
Removed(d, e, j) ==
  /\ e.inode[ROOT].size = (Count(d) - 1) * DENSZ
  /\ \A l \in 0 .. Count(d) - 2 :
       EntryAt(e, l) = EntryAt(d, IF l = j THEN Count(d) - 1 ELSE l)
  /\ SameCells(d, e)

LEMMA RemovedContents ==
  ASSUME NEW d, ImageOK(d), NEW e, ImageOK(e), NEW n \in Name, NEW j \in Found(d, n),
         Removed(d, e, j)
  PROVE  /\ Names(e) = SubSeq([Names(d) EXCEPT ![j + 1] = Names(d)[Count(d)]], 1, Count(d) - 1)
         /\ \A m \in Name : Content(e, m) = IF m = n THEN <<>> ELSE Content(d, m)
         /\ j + 1 \in 1 .. Count(d) /\ Names(d)[j + 1] = n
<1> DEFINE c == Count(d)
           from(l) == IF l = j THEN c - 1 ELSE l
<1>1. c \in Nat \ {0} /\ Entries(d) = 0 .. c - 1 /\ j \in 0 .. c - 1 /\ EntryAt(d, j)[3] = n
  BY NamesAre DEF Found
<1>2. Count(e) = c - 1 /\ Entries(e) = 0 .. c - 2
  <2> DEFINE x == c - 1
  <2>1. e.inode[ROOT].size = x * DENSZ /\ x \in Nat
    BY <1>1 DEF Removed
  <2> HIDE DEF x
  <2>2. Entries(e) = 0 .. x - 1
    BY <2>1, EntriesOf
  <2>3. Entries(e) = 0 .. Count(e) - 1 /\ Count(e) \in Nat
    BY NamesAre
  <2>4. Count(e) = x
    <3>1. x - 1 \in Nat => x - 1 \in Entries(e)
      BY <2>1, <2>2
    <3>2. Count(e) - 1 \in Nat => Count(e) - 1 \in Entries(e)
      BY <2>3
    <3> QED BY <2>1, <2>2, <2>3, <3>1, <3>2
  <2> QED BY <1>1, <2>2, <2>4 DEF x
<1>3. \A l \in 0 .. c - 2 : EntryAt(e, l) = EntryAt(d, from(l)) /\ from(l) \in 0 .. c - 1
  BY <1>1 DEF Removed
<1> HIDE DEF c
<1>4. j + 1 \in 1 .. c /\ Names(d)[j + 1] = n
  <2>1. j + 1 \in 1 .. c /\ (j + 1) - 1 = j
    BY <1>1
  <2> QED BY <1>1, <2>1, NamesAre DEF c
<1>5. Names(e) = SubSeq([Names(d) EXCEPT ![j + 1] = Names(d)[c]], 1, c - 1)
  <2> DEFINE s == [Names(d) EXCEPT ![j + 1] = Names(d)[c]]
  <2>1. Names(d) \in Seq(Name) /\ Len(Names(d)) = c /\ c \in 1 .. c
    BY <1>1, NamesAre DEF c
  <2>2. s \in Seq(Name) /\ Len(s) = c
    <3>1. Names(d) \in [1 .. c -> Name] /\ Names(d)[c] \in Name
      BY <2>1
    <3>2. s \in [1 .. c -> Name]
      BY <3>1
    <3> HIDE DEF s
    <3>3. c \in Nat
      BY <1>1
    <3> QED BY <3>2, <3>3
  <2>3. \A k \in 1 .. c : s[k] = IF k = j + 1 THEN Names(d)[c] ELSE Names(d)[k]
    BY <2>1
  <2> HIDE DEF s
  <2>4. SubSeq(s, 1, c - 1) = [k \in 1 .. c - 1 |-> s[k]]
    BY <1>1, <2>2, PrefixIs
  <2>5. ASSUME NEW k \in 1 .. c - 1
        PROVE  EntryAt(e, k - 1)[3] = s[k]
    <3>1. k - 1 \in 0 .. c - 2 /\ k \in 1 .. c /\ (k - 1 = j <=> k = j + 1)
      BY <1>1
    <3>2. EntryAt(e, k - 1) = EntryAt(d, from(k - 1))
      BY <1>3, <3>1
    <3>3. Names(d)[k] = EntryAt(d, k - 1)[3] /\ Names(d)[c] = EntryAt(d, c - 1)[3]
      BY <2>1, <3>1, NamesAre DEF c
    <3> QED BY <2>3, <3>1, <3>2, <3>3
  <2>6. Names(e) = [k \in 1 .. c - 1 |-> EntryAt(e, k - 1)[3]]
    BY <1>2 DEF Names
  <2> QED BY <2>4, <2>5, <2>6 DEF s
<1>6. ASSUME NEW m \in Name, m # n, NEW l \in Found(d, m)
      PROVE  Content(e, m) = Content(d, m)
  <2> DEFINE k == IF l = c - 1 THEN j ELSE l
  <2>1. /\ l \in Entries(d) /\ InodeAt(d, l) \in d.imap \ {ROOT} /\ EntryAt(d, l)[3] = m
    BY ContentIs DEF Found
  <2>2. l # j
    BY <1>1, <1>6, <2>1
  <2>3. k \in 0 .. c - 2 /\ from(k) = l
    BY <1>1, <2>1, <2>2
  <2> HIDE DEF k
  <2>4. EntryAt(e, k) = EntryAt(d, l)
    BY <1>3, <2>3
  <2>5. k \in Found(e, m)
    BY <1>2, <2>1, <2>3, <2>4 DEF Found
  <2>6. CellsOf(e, InodeAt(d, l)) = CellsOf(d, InodeAt(d, l))
    BY <2>1 DEF Removed, SameCells
  <2> QED BY <2>4, <2>5, <2>6, ContentSame
<1>7. ASSUME NEW m \in Name, NEW k \in Found(e, m)
      PROVE  m # n /\ Found(d, m) # {}
  <2>1. k \in 0 .. c - 2 /\ EntryAt(e, k)[3] = m
    BY <1>2, <1>7 DEF Found
  <2>2. EntryAt(d, from(k))[3] = m /\ from(k) \in Entries(d)
    BY <1>1, <1>3, <2>1
  <2>3. from(k) # j
    BY <1>1, <2>1
  <2>4. m # n
    BY <1>1, <2>2, <2>3 DEF ImageOK, DirOK
  <2> QED BY <2>2, <2>4 DEF Found
<1>8. ASSUME NEW m \in Name
      PROVE  Content(e, m) = IF m = n THEN <<>> ELSE Content(d, m)
  <2>1. CASE m = n
    <3>1. Found(e, m) = {}
      BY <1>7, <2>1
    <3> QED BY <2>1, <3>1, NotFound
  <2>2. CASE m # n /\ Found(d, m) = {}
    <3>1. Found(e, m) = {}
      BY <1>7, <2>2
    <3> QED BY <2>2, <3>1, NotFound
  <2>3. CASE m # n /\ Found(d, m) # {}
    BY <1>6, <2>3
  <2> QED BY <2>1, <2>2, <2>3
<1> QED BY <1>4, <1>5, <1>8 DEF c

(* The bitmaps are no part of what the client sees.                        *)
LEMMA SameFilesCells ==
  ASSUME NEW d, NEW e, SameFiles(d, e)
  PROVE  \A i : CellsOf(e, i) = CellsOf(d, i)
<1>1. \A i, p : CellOf(e, i, p) = CellOf(d, i, p)
  BY DEF SameFiles, CellOf, BlockOf, First, Second, Third
<1> QED BY <1>1 DEF CellsOf, SameFiles

(* The directory and the cells of its files are the same.                  *)
SameShown(d, e) == SameDir(d, e) /\ SameCells(d, e)

----------------------------------------------------------------------------
(* The calls.                                                              *)

(* What a call may make of the image: the open files are still in it.      *)
ImageStep(d, e) == ImageOK(e) /\ \A f : HandleOK(f, d) => HandleOK(f, e)

LEMMA HandleIs ==
  ASSUME KtfsInv, NEW h \in Handle, file[h] # Closed
  PROVE  /\ file[h].inode \in disk.imap \ {ROOT} /\ file[h].name \in Name
         /\ file[h].pos \in Nat /\ file[h].fileSize \in Nat
         /\ file[h].fileSize <= KTFS_MAX_FILE_SIZE /\ file[h].inode \in Inode
<1>1. /\ file[h].name \in Name \cup {"none"} /\ file[h].pos \in Nat /\ file[h].fileSize \in Nat
      /\ file[h].inode \in Inode
  BY DEF KtfsInv
<1>2. HandleOK(file[h], disk) /\ ImageOK(disk)
  BY DEF KtfsInv
<1>3. PICK j \in Entries(disk) : EntryAt(disk, j) = Dentry(file[h].inode, file[h].name)
  BY <1>2 DEF HandleOK
<1>4. PICK i \in disk.imap \ {ROOT}, n \in Name : EntryAt(disk, j) = Dentry(i, n)
  BY <1>2 DEF ImageOK, DirOK
<1>5. Dentry(i, n) = Dentry(file[h].inode, file[h].name)
  BY <1>3, <1>4
<1>6. i = file[h].inode /\ n = file[h].name
  BY <1>5 DEF Dentry
<1> QED BY <1>1, <1>2, <1>4, <1>6 DEF HandleOK

(* A call that writes to an open file leaves the rest of the image as it   *)
(* is.                                                                     *)
LEMMA WriteStep ==
  ASSUME NEW d, NEW e, ImageOK(d), NEW i \in d.imap \ {ROOT},
         Forest(e, d.imap), Sized(e, d.imap), Keeps(d, e, d.imap, i, d.imap \ {i})
  PROVE  ImageStep(d, e)
<1>1. Forest(d, d.imap) /\ Sized(d, d.imap) /\ DirOK(d) /\ ROOT \in d.imap
  BY DEF ImageOK, DirOK
<1>2. SameDir(d, e) /\ e.imap = d.imap
  BY <1>1, DirKept
<1>3. DirOK(e) /\ \A f : HandleOK(f, d) => HandleOK(f, e)
  BY <1>1, <1>2, SameDirOK
<1> QED BY <1>2, <1>3 DEF ImageStep, ImageOK

LEMMA FreeInodeIs ==
  ASSUME NEW d \in Disk, d.imap # Inode
  PROVE  FreeInode(d) \in Inode \ d.imap
<1> DEFINE T == Inode \ d.imap
<1>1. T \in SUBSET Nat /\ T # {}
  <2>1. d.imap \subseteq Inode
    BY DEF Disk
  <2>2. Inode \subseteq Nat
    BY DEF Inode
  <2> QED BY <2>1, <2>2, Zenon
<1> HIDE DEF T
<1>2. \E i \in T : \A j \in T : i <= j
  BY <1>1, LeastOf
<1>3. FreeInode(d) = CHOOSE i \in T : \A j \in T : i <= j
  BY DEF FreeInode, T
<1> QED BY <1>2, <1>3 DEF T

(* ktfs_create marks an inode, ...                                         *)
InUse(d, e, i) == /\ Forest(e, d.imap) /\ Sized(e, d.imap) /\ SameFiles(d, e)
                  /\ e.imap = d.imap \cup {i}

LEMMA InodeMarked ==
  ASSUME NEW d, ImageOK(d), NEW i \in Inode, NEW e, e = SetInodeStatus(d, i, TRUE)
  PROVE  InUse(d, e, i)
<1>1. d \in Disk /\ Forest(d, d.imap) /\ Sized(d, d.imap)
  BY DEF ImageOK, Forest
<1>2. /\ e \in Disk /\ e.imap = d.imap \cup {i} /\ e.bmap = d.bmap
      /\ e.inode = d.inode /\ e.blk = d.blk
  BY <1>1 DEF SetInodeStatus, Disk
<1>3. \A k, r : At(e, k, r) = At(d, k, r)
  BY <1>2, Zenon DEF At
<1>4. Marked(e, d.imap)
  BY <1>1, <1>2, <1>3, Zenon DEF Marked, Forest
<1>5. Apart(e, d.imap)
  <2>1. Apart(d, d.imap)
    BY <1>1 DEF Forest
  <2>2. \A k \in d.imap : \A r \in Place : At(e, k, r) = At(d, k, r)
    BY <1>3, Zenon
  <2> QED BY ONLY <2>1, <2>2, ApartSame
<1>6. Sized(e, d.imap)
  BY <1>1, <1>2, <1>3, Zenon DEF Sized, HasBlocks
<1>7. /\ d.imap \subseteq Inode /\ 0 \in d.bmap /\ d.blk[0] = ZeroBlock
  BY <1>1 DEF Forest
<1> QED BY <1>2, <1>4, <1>5, <1>6, <1>7, Zenon DEF Forest, InUse, SameFiles

(* ... adds the entry and clears the inode.                                *)
LEMMA CreateStep ==
  ASSUME DirFits, NEW d, ImageOK(d), d.imap # Inode, NEW n \in Name, Found(d, n) = {},
         NEW i, i = FreeInode(d), NEW t, t = AddDentry(SetInodeStatus(d, i, TRUE), i, n)
  PROVE  /\ t.ok => /\ ImageStep(d, [t.d EXCEPT !.inode[i] = EmptyInode])
                     /\ Created(d, [t.d EXCEPT !.inode[i] = EmptyInode], i, n)
         /\ ~t.ok => t.d = SetInodeStatus(d, i, TRUE)
<1> DEFINE I == d.imap
           m == SetInodeStatus(d, i, TRUE)
           c == Count(d)
           e == [t.d EXCEPT !.inode[i] = EmptyInode]
<1>1. d \in Disk /\ DirOK(d) /\ ROOT \in I /\ I \subseteq Inode
  BY DEF ImageOK, Forest, DirOK
<1>2. i \in Inode \ I /\ i # ROOT /\ i \in Inode
  BY <1>1, FreeInodeIs
<1>3. /\ c \in Nat /\ d.inode[ROOT].size = c * DENSZ /\ c + 1 <= NINO - 1
      /\ Entries(d) = 0 .. c - 1
  BY <1>1, CountIs, RoomForEntry
<1>4. m = SetInodeStatus(d, i, TRUE) /\ t = AddDentry(m, i, n)
  OBVIOUS
<1> HIDE DEF c, m
<1>5. /\ Forest(m, I) /\ Sized(m, I) /\ m.imap = I \cup {i} /\ SameFiles(d, m)
  BY <1>2, <1>4, InodeMarked, Zenon DEF InUse
<1>6. /\ t.ok => Added(m, t.d, I, c, Dentry(i, n))
      /\ ~t.ok => t.d = m
  <2>1. m.inode[ROOT].size = c * DENSZ
    BY <1>3, <1>5 DEF SameFiles
  <2>2. /\ Forest(m, I) /\ Sized(m, I) /\ ROOT \in I /\ c \in Nat /\ c + 1 <= NINO - 1
        /\ i \in Inode /\ t = AddDentry(m, i, n)
    BY <1>1, <1>2, <1>3, <1>4, <1>5, Zenon
  <2> HIDE DEF I
  <2>3. LET u == AddDentry(m, i, n)
        IN /\ u.ok => Added(m, u.d, I, c, Dentry(i, n))
           /\ ~u.ok => u.d = m
    BY <2>1, <2>2, AddDentryGrows
  <2> QED BY <2>2, <2>3, Zenon
<1>7. ASSUME t.ok
      PROVE  ImageStep(d, e) /\ Created(d, e, i, n)
  <2> DEFINE x == t.d
  <2>1. /\ Forest(x, I) /\ Sized(x, I) /\ Keeps(m, x, I, ROOT, I \ {ROOT})
        /\ x.inode[ROOT].size = c * DENSZ + DENSZ
        /\ \A l \in 0 .. c : EntryAt(x, l) = IF l = c THEN Dentry(i, n) ELSE EntryAt(m, l)
    BY <1>6, <1>7, Zenon DEF Added
  <2>2. e = [x EXCEPT !.inode[i] = EmptyInode]
    OBVIOUS
  <2> HIDE DEF x, e
  <2>3. NewFile(x, e, I, i)
    BY <1>2, <2>1, <2>2, InodeCleared
  <2>4. Forest(e, I \cup {i}) /\ Sized(e, I \cup {i}) /\ Keeps(x, e, I, i, I)
    BY <2>3 DEF NewFile
  <2>5. SameDir(x, e) /\ e.imap = x.imap
    <3>1. I \ {i} = I
      BY <1>2
    <3> QED BY <1>1, <1>2, <2>1, <2>4, <3>1, DirKept
  <2>6. x.imap = I \cup {i}
    BY <1>5, <2>1 DEF Keeps
  <2>7. DirOK(x) /\ \A f : HandleOK(f, d) => HandleOK(f, x)
    <3>1. \A l : EntryAt(m, l) = EntryAt(d, l)
      BY <1>5, SameEntries
    <3>2. \A l \in 0 .. c : EntryAt(x, l) = IF l = c THEN Dentry(i, n) ELSE EntryAt(d, l)
      BY <2>1, <3>1
    <3> QED BY <1>1, <1>2, <1>3, <2>1, <2>6, <3>2, DirGrew DEF c
  <2>8. DirOK(e) /\ \A f : HandleOK(f, x) => HandleOK(f, e)
    BY <2>5, <2>7, SameDirOK
  <2>9. ImageStep(d, e)
    BY <2>4, <2>5, <2>6, <2>7, <2>8 DEF ImageStep, ImageOK
  <2>10. SameCells(d, e)
    <3> SUFFICES ASSUME NEW k \in I \ {ROOT}
                 PROVE  CellsOf(e, k) = CellsOf(d, k)
      BY DEF SameCells
    <3> DEFINE J == I \ {ROOT}
    <3>1. CellsOf(m, k) = CellsOf(d, k)
      BY <1>5, SameFilesCells
    <3>2. CellsOf(x, k) = CellsOf(m, k)
      <4>1. J \in SUBSET I /\ k \in J /\ Keeps(m, x, I, ROOT, J) /\ x.inode[k].size = m.inode[k].size
        BY <1>1, <2>1 DEF Keeps
      <4>2. Forest(m, I) /\ Sized(m, I)
        BY <1>5
      <4> HIDE DEF J
      <4> QED BY ONLY <4>1, <4>2, CellsKept
    <3>3. CellsOf(e, k) = CellsOf(x, k)
      <4>1. I \in SUBSET I /\ k \in I /\ Keeps(x, e, I, i, I) /\ e.inode[k].size = x.inode[k].size
        BY <1>1, <1>2, <2>4 DEF Keeps
      <4>2. Forest(x, I) /\ Sized(x, I)
        BY <2>1
      <4> HIDE DEF I
      <4> QED BY ONLY <4>1, <4>2, CellsKept
    <3> QED BY <3>1, <3>2, <3>3
  <2>11. Created(d, e, i, n)
    <3>1. e.inode[i].size = 0 /\ e.inode[ROOT] = x.inode[ROOT]
      <4>1. x.inode \in [Inode -> Node]
        BY <2>1 DEF Forest, Disk
      <4> QED BY <1>2, <2>2, <2>5, <4>1 DEF EmptyInode, SameDir
    <3>2. Entries(x) = 0 .. c
      <4> DEFINE y == c + 1
      <4>1. x.inode[ROOT].size = y * DENSZ /\ y \in Nat /\ y - 1 = c
        BY <1>3, <2>1, Sizes
      <4> HIDE DEF y
      <4> QED BY <4>1, EntriesOf
    <3>3. \A l \in 0 .. c : EntryAt(e, l) = EntryAt(x, l)
      BY <2>5, <3>2 DEF SameDir
    <3>4. \A l : EntryAt(m, l) = EntryAt(d, l)
      BY <1>5, SameEntries
    <3>5. \A l \in 0 .. c : EntryAt(e, l) = IF l = c THEN Dentry(i, n) ELSE EntryAt(d, l)
      BY <2>1, <3>3, <3>4
    <3> QED BY <2>1, <2>10, <3>1, <3>5, Zenon DEF Created, c
  <2> QED BY <2>9, <2>11
<1> QED BY <1>4, <1>6, <1>7, Zenon

(* When there was no block for the entry only the inode is marked, and     *)
(* cleared.                                                                *)
LEMMA CreateNoBlockStep ==
  ASSUME NEW d, ImageOK(d), NEW i \in Inode \ d.imap, NEW m, m = SetInodeStatus(d, i, TRUE)
  PROVE  /\ SameFiles(d, m)
         /\ ImageStep(d, [m EXCEPT !.inode = [d.inode EXCEPT ![i] = EmptyInode], !.blk = d.blk])
         /\ SameShown(d, [m EXCEPT !.inode = [d.inode EXCEPT ![i] = EmptyInode], !.blk = d.blk])
         /\ m.bmap = d.bmap
<1> DEFINE I == d.imap
           e == [m EXCEPT !.inode = [d.inode EXCEPT ![i] = EmptyInode], !.blk = d.blk]
<1>1. d \in Disk /\ DirOK(d) /\ ROOT \in I /\ i \in Inode /\ i # ROOT /\ I \ {i} = I
  BY DEF ImageOK, Forest, DirOK
<1>2. /\ Forest(m, I) /\ Sized(m, I) /\ m.imap = I \cup {i} /\ SameFiles(d, m)
  BY <1>1, InodeMarked, Zenon DEF InUse
<1>3. e = [m EXCEPT !.inode[i] = EmptyInode]
  BY <1>2, Zenon DEF Forest, Disk, SameFiles
<1> HIDE DEF e
<1>4. Forest(e, I \cup {i}) /\ Sized(e, I \cup {i}) /\ Keeps(m, e, I, i, I)
  BY <1>2, <1>3, InodeCleared, Zenon DEF NewFile
<1>5. SameDir(m, e) /\ e.imap = m.imap
  <2>1. Keeps(m, e, I, i, I \ {i})
    BY <1>1, <1>4, Zenon
  <2> HIDE DEF I
  <2> QED BY <1>1, <1>2, <2>1, DirKept, Zenon
<1>6. \A l : EntryAt(m, l) = EntryAt(d, l)
  BY <1>2, SameEntries, Zenon
<1>7. SameDir(d, m)
  BY <1>2, <1>6, Zenon DEF SameDir, SameFiles
<1>8. DirOK(m) /\ \A f : HandleOK(f, d) => HandleOK(f, m)
  BY <1>1, <1>7, SameDirOK, Zenon
<1>9. DirOK(e) /\ \A f : HandleOK(f, m) => HandleOK(f, e)
  BY <1>5, <1>8, SameDirOK, Zenon
<1>10. SameDir(d, e)
  <2>1. /\ e.inode[ROOT] = d.inode[ROOT]
        /\ \A j \in Entries(d) : EntryAt(e, j) = EntryAt(d, j)
    BY <1>5, <1>6, <1>7, Zenon DEF SameDir, Entries
  <2>2. d.imap \subseteq e.imap
    BY <1>5, <1>7 DEF SameDir
  <2> QED BY <2>1, <2>2 DEF SameDir
<1>11. SameCells(d, e)
  <2> SUFFICES ASSUME NEW k \in I \ {ROOT}
               PROVE  CellsOf(e, k) = CellsOf(d, k)
    BY DEF SameCells
  <2>1. CellsOf(m, k) = CellsOf(d, k)
    BY <1>2, SameFilesCells
  <2>2. I \in SUBSET I /\ k \in I /\ Keeps(m, e, I, i, I) /\ e.inode[k].size = m.inode[k].size
    <3>1. e.inode[k] = m.inode[k]
      BY <1>1, <1>2, <1>4 DEF Keeps, Forest
    <3> HIDE DEF I
    <3> QED BY <1>4, <3>1
  <2>3. Forest(m, I) /\ Sized(m, I)
    BY <1>2
  <2> HIDE DEF I
  <2>4. CellsOf(e, k) = CellsOf(m, k)
    BY ONLY <2>2, <2>3, CellsKept
  <2> QED BY <2>1, <2>4
<1>12. m.bmap = d.bmap
  BY DEF SetInodeStatus
<1>13. SameShown(d, e)
  BY <1>10, <1>11 DEF SameShown
<1> QED BY <1>2, <1>4, <1>5, <1>8, <1>9, <1>12, <1>13, Zenon DEF ImageStep, ImageOK, e

(* ktfs_delete: the file is not open.                                      *)
OthersOK(d, g, n) == \A f : f.name # n /\ HandleOK(f, d) => HandleOK(f, g)

LEMMA DeleteStep ==
  ASSUME DirFits, NEW d, ImageOK(d), NEW n, NEW j \in Found(d, n),
         NEW i, i = EntryAt(d, j)[2], NEW e, e = DeleteDentry(d, j), NEW g,
         g = SetDataBlockStatus(SetInodeStatus(e, i, FALSE), NeededBlocks(e, i), FALSE)
  PROVE  ImageOK(g) /\ OthersOK(d, g, n) /\ Removed(d, g, j)
<1> DEFINE I == d.imap
           c == Count(d)
<1>1. /\ d \in Disk /\ DirOK(d) /\ ROOT \in I /\ Forest(d, I) /\ Sized(d, I)
      /\ j \in Entries(d) /\ EntryAt(d, j)[3] = n
  BY DEF ImageOK, Forest, DirOK, Found
<1>2. i \in I \ {ROOT}
  BY <1>1, EntryIs
<1> HIDE DEF I
<1>3. Dropped(d, e, I, j)
  BY <1>1, DentryDeleted
<1>4. /\ Forest(e, I) /\ Sized(e, I) /\ Keeps(d, e, I, ROOT, I \ {ROOT})
      /\ e.inode[ROOT].size = (c - 1) * DENSZ
      /\ \A l \in 0 .. c - 2 : EntryAt(e, l) = EntryAt(d, IF l = j THEN c - 1 ELSE l)
  BY <1>3 DEF Dropped
<1> HIDE DEF c
<1>5. Freed(e, g, I, i)
  BY <1>2, <1>4, FileFreed, Zenon
<1>6. /\ Forest(g, I \ {i}) /\ Sized(g, I \ {i}) /\ SameFiles(e, g) /\ g.imap = e.imap \ {i}
  BY <1>5, Zenon DEF Freed, SameFiles
<1>7. e.imap = I
  BY <1>4 DEF Keeps, I
<1>8. \A l : EntryAt(g, l) = EntryAt(e, l)
  <2>1. SameFiles(e, g)
    BY <1>6, Zenon
  <2> QED BY ONLY <2>1, SameEntries, Zenon
<1>9. g.inode[ROOT].size = (c - 1) * DENSZ
  BY <1>4, <1>6, Zenon DEF SameFiles
<1>10. \A l \in 0 .. c - 2 : EntryAt(g, l) = EntryAt(d, IF l = j THEN c - 1 ELSE l)
  BY <1>4, <1>8, Zenon
<1>11. g.imap = d.imap \ {EntryAt(d, j)[2]}
  BY <1>6, <1>7, Zenon DEF I
<1>12. /\ DirOK(g)
       /\ \A f : f.name # EntryAt(d, j)[3] /\ HandleOK(f, d) => HandleOK(f, g)
  BY <1>1, <1>9, <1>10, <1>11, DirShrank, Zenon DEF c
<1>13. g.imap = I \ {i}
  BY <1>6, <1>7, Zenon
<1>14. OthersOK(d, g, n)
  BY <1>1, <1>12, Zenon DEF OthersOK
<1>15. SameCells(d, g)
  <2> SUFFICES ASSUME NEW k \in I \ {ROOT}
               PROVE  CellsOf(g, k) = CellsOf(d, k)
    BY DEF SameCells, I
  <2> DEFINE J == I \ {ROOT}
  <2>1. J \in SUBSET I /\ k \in J /\ Keeps(d, e, I, ROOT, J) /\ e.inode[k].size = d.inode[k].size
    <3>1. k \in Inode /\ k # ROOT
      BY <1>1 DEF Forest
    <3> QED BY <1>4, <3>1 DEF Keeps
  <2>2. Forest(d, I) /\ Sized(d, I)
    BY <1>1
  <2> HIDE DEF J
  <2>3. CellsOf(e, k) = CellsOf(d, k)
    BY ONLY <2>1, <2>2, CellsKept
  <2>4. CellsOf(g, k) = CellsOf(e, k)
    <3>1. SameFiles(e, g)
      BY <1>6, Zenon
    <3> QED BY ONLY <3>1, SameFilesCells, Zenon
  <2> QED BY <2>3, <2>4
<1>16. Removed(d, g, j)
  BY <1>9, <1>10, <1>15, Zenon DEF Removed, c
<1> QED BY <1>6, <1>12, <1>13, <1>14, <1>16, Zenon DEF ImageOK

----------------------------------------------------------------------------
(* The invariant.                                                          *)

LEMMA EmptyImage ==
  ASSUME Init
  PROVE  KtfsInv
<1> DEFINE d == disk
<1>1. /\ d = [imap |-> {ROOT}, bmap |-> {0}, inode |-> [i \in Inode |-> EmptyInode],
              blk |-> [b \in Block |-> ZeroBlock]]
      /\ file = [h \in Handle |-> Closed] /\ listing = NoListing
      /\ ret = [rc |-> 0, out |-> <<>>]
  BY DEF Init
<1>2. EmptyInode \in Node /\ EmptyInode.size = 0
  BY Sizes DEF EmptyInode, Node
<1>3. /\ d \in Disk /\ d.imap = {ROOT} /\ d.bmap = {0} /\ d.blk[0] = ZeroBlock
      /\ d.inode[ROOT] = EmptyInode
      /\ d.inode = [i \in Inode |-> EmptyInode]
  <2> HIDE DEF EmptyInode, ZeroBlock
  <2> QED BY <1>1, <1>2, Sizes, CellTypes DEF Disk
<1>4. d = [d EXCEPT !.inode[ROOT] = EmptyInode]
  <2> DEFINE m == [d.inode EXCEPT ![ROOT] = EmptyInode]
  <2>1. m = d.inode
    BY <1>3, Sizes
  <2>2. [d EXCEPT !.inode[ROOT] = EmptyInode] = [d EXCEPT !.inode = m]
    BY <1>3 DEF Disk
  <2>3. [d EXCEPT !.inode = d.inode] = d
    BY <1>3 DEF Disk
  <2> QED BY <2>1, <2>2, <2>3
<1>5. Forest(d, {}) /\ Sized(d, {})
  BY <1>3 DEF Forest, Sized, Marked, Apart
<1>6. Forest(d, {ROOT}) /\ Sized(d, {ROOT})
  <2>1. ROOT \in Inode \ {}
    BY Sizes
  <2>2. NewFile(d, d, {}, ROOT)
    BY <1>4, <1>5, <2>1, InodeCleared
  <2> QED BY <2>2 DEF NewFile
<1>7. DirOK(d)
  <2>1. d.inode[ROOT].size = 0 /\ 0 * DENSZ = 0 /\ 0 <= NINO - 1
    BY <1>2, <1>3, Sizes
  <2>2. /\ Entries(d) = {} /\ d.inode[ROOT].size % DENSZ = 0
        /\ d.inode[ROOT].size <= (NINO - 1) * DENSZ
    <3>1. 0 .. 0 - 1 = {} /\ 0 \in Nat
      OBVIOUS
    <3>2. d.inode[ROOT].size = 0 * DENSZ
      BY <2>1
    <3>3. /\ Entries(d) = 0 .. 0 - 1 /\ d.inode[ROOT].size % DENSZ = 0
          /\ d.inode[ROOT].size <= (NINO - 1) * DENSZ
      BY <2>1, <3>1, <3>2, EntriesOf
    <3> QED BY <3>1, <3>3
  <2> QED BY <1>3, <2>2 DEF DirOK
<1>8. ImageOK(disk)
  BY <1>3, <1>6, <1>7 DEF ImageOK
<1>9. Closed \in [name : Name \cup {"none"}, inode : Inode, fileSize : Nat, pos : Nat]
  BY Sizes DEF Closed
<1>10. \A h \in Handle : HandleOK(file[h], disk)
  BY <1>1 DEF HandleOK
<1>11. file \in [Handle -> [name : Name \cup {"none"}, inode : Inode, fileSize : Nat, pos : Nat]]
  BY <1>1, <1>9
<1>12. ret.rc \in Int /\ ret.out \in Seq(Cell \cup Name)
  BY <1>1
<1> QED BY <1>1, <1>8, <1>10, <1>11, <1>12, Zenon DEF KtfsInv

(* What the open files and results are.                                    *)
FileType == [name : Name \cup {"none"}, inode : Inode, fileSize : Nat, pos : Nat]

LEMMA InvIs ==
  KtfsInv <=> /\ ImageOK(disk)
              /\ file \in [Handle -> FileType] /\ listing \in Nat \cup {NoListing}
              /\ ret.rc \in Int /\ ret.out \in Seq(Cell \cup Name)
              /\ \A h \in Handle : HandleOK(file[h], disk)
BY DEF KtfsInv, FileType

LEMMA Quiet ==
  ASSUME NEW rc \in Int, Result(rc, <<>>)
  PROVE  ret'.rc \in Int /\ ret'.out \in Seq(Cell \cup Name)
BY DEF Result

(* A call that leaves the image alone.                                     *)
LEMMA HandleStep ==
  ASSUME KtfsInv, UNCHANGED <<disk, listing>>, NEW h \in Handle, NEW f \in FileType,
         HandleOK(f, disk), file' = [file EXCEPT ![h] = f],
         ret'.rc \in Int, ret'.out \in Seq(Cell \cup Name)
  PROVE  KtfsInv'
<1>1. file' \in [Handle -> FileType]
  BY InvIs
<1>2. \A k \in Handle : HandleOK(file'[k], disk)
  BY InvIs
<1>3. disk' = disk /\ listing' = listing
  OBVIOUS
<1> QED BY <1>1, <1>2, <1>3, InvIs DEF KtfsInv, FileType

LEMMA NothingStep ==
  ASSUME KtfsInv, UNCHANGED <<disk, file, listing>>,
         ret'.rc \in Int, ret'.out \in Seq(Cell \cup Name)
  PROVE  KtfsInv'
BY DEF KtfsInv

(* A call that changes the image, and one open file at most.               *)
LEMMA DiskStep ==
  ASSUME KtfsInv, UNCHANGED listing, ImageStep(disk, disk'),
         NEW h \in Handle, NEW f \in FileType,
         file' = file \/ (HandleOK(f, disk') /\ file' = [file EXCEPT ![h] = f]),
         ret'.rc \in Int, ret'.out \in Seq(Cell \cup Name)
  PROVE  KtfsInv'
<1>1. file' \in [Handle -> FileType]
  BY InvIs
<1>2. \A k \in Handle : HandleOK(file[k], disk')
  BY InvIs DEF ImageStep
<1>3. \A k \in Handle : HandleOK(file'[k], disk')
  BY <1>2, InvIs
<1>4. ImageOK(disk') /\ listing' = listing
  BY DEF ImageStep
<1> QED BY <1>1, <1>3, <1>4, InvIs DEF KtfsInv, FileType

LEMMA ImageOnlyStep ==
  ASSUME KtfsInv, UNCHANGED <<file, listing>>, ImageStep(disk, disk'),
         ret'.rc \in Int, ret'.out \in Seq(Cell \cup Name)
  PROVE  KtfsInv'
<1>1. \A k \in Handle : HandleOK(file[k], disk')
  BY DEF KtfsInv, ImageStep
<1>2. ImageOK(disk')
  BY DEF ImageStep
<1> QED BY <1>1, <1>2 DEF KtfsInv

LEMMA CreateKeeps ==
  ASSUME DirFits, KtfsInv, NEW n \in Name, Create(n)
  PROVE  KtfsInv'
<1> DEFINE i == FreeInode(disk)
           t == AddDentry(SetInodeStatus(disk, i, TRUE), i, n)
<1>1. /\ Found(disk, n) = {} /\ disk.imap # Inode /\ t.ok
      /\ disk' = [t.d EXCEPT !.inode[i] = EmptyInode]
      /\ UNCHANGED <<file, listing>> /\ Result(0, <<>>)
  BY Zenon DEF Create
<1>2. ImageOK(disk)
  BY DEF KtfsInv
<1>3. i = FreeInode(disk) /\ t = AddDentry(SetInodeStatus(disk, i, TRUE), i, n)
  OBVIOUS
<1> HIDE DEF i, t
<1>4. ImageStep(disk, disk')
  <2>1. ImageStep(disk, [t.d EXCEPT !.inode[i] = EmptyInode])
    BY <1>1, <1>2, <1>3, CreateStep, Zenon
  <2> QED BY <1>1, <2>1
<1>5. ret'.rc \in Int /\ ret'.out \in Seq(Cell \cup Name)
  BY <1>1, Quiet
<1> QED BY <1>1, <1>4, <1>5, ImageOnlyStep

LEMMA CreateNoBlockKeeps ==
  ASSUME DirFits, KtfsInv, NEW n \in Name, CreateNoBlock(n)
  PROVE  KtfsInv'
<1> DEFINE i == FreeInode(disk)
           m == SetInodeStatus(disk, i, TRUE)
           t == AddDentry(m, i, n)
<1>1. PICK kept \in {disk, t.d} :
        /\ Found(disk, n) = {} /\ disk.imap # Inode /\ ~t.ok
        /\ disk' = [t.d EXCEPT !.inode = [kept.inode EXCEPT ![i] = EmptyInode],
                               !.blk = kept.blk]
        /\ UNCHANGED <<file, listing>> /\ Result(0, <<>>)
  BY Zenon DEF CreateNoBlock
<1>2. ImageOK(disk) /\ disk \in Disk
  BY DEF KtfsInv, ImageOK, Forest
<1>3. i = FreeInode(disk) /\ t = AddDentry(SetInodeStatus(disk, i, TRUE), i, n)
      /\ m = SetInodeStatus(disk, i, TRUE)
  OBVIOUS
<1> HIDE DEF i, m, t
<1>4. t.d = m
  BY <1>1, <1>2, <1>3, CreateStep, Zenon
<1>5. i \in Inode \ disk.imap
  BY <1>1, <1>2, <1>3, FreeInodeIs
<1>6. /\ SameFiles(disk, m)
      /\ ImageStep(disk, [m EXCEPT !.inode = [disk.inode EXCEPT ![i] = EmptyInode],
                                   !.blk = disk.blk])
  BY <1>2, <1>3, <1>5, CreateNoBlockStep, Zenon
<1>7. kept.inode = disk.inode /\ kept.blk = disk.blk
  BY <1>1, <1>4, <1>6 DEF SameFiles
<1>8. ImageStep(disk, disk')
  BY <1>1, <1>4, <1>6, <1>7
<1>9. ret'.rc \in Int /\ ret'.out \in Seq(Cell \cup Name)
  BY <1>1, Quiet
<1> QED BY <1>1, <1>8, <1>9, ImageOnlyStep

LEMMA DeleteKeeps ==
  ASSUME DirFits, KtfsInv, NEW n \in Name, Delete(n)
  PROVE  KtfsInv'
<1>1. PICK j \in Found(disk, n) :
        LET i == EntryAt(disk, j)[2]
            d == DeleteDentry(disk, j)
        IN disk' = SetDataBlockStatus(SetInodeStatus(d, i, FALSE), NeededBlocks(d, i), FALSE)
  BY Zenon DEF Delete
<1>2. ~IsOpen(n) /\ UNCHANGED <<file, listing>> /\ Result(0, <<>>)
  BY DEF Delete
<1> DEFINE i == EntryAt(disk, j)[2]
           d == DeleteDentry(disk, j)
<1>3. /\ i = EntryAt(disk, j)[2] /\ d = DeleteDentry(disk, j)
      /\ disk' = SetDataBlockStatus(SetInodeStatus(d, i, FALSE), NeededBlocks(d, i), FALSE)
  BY <1>1
<1> HIDE DEF i, d
<1>4. ImageOK(disk)
  BY DEF KtfsInv
<1>5. ImageOK(disk') /\ OthersOK(disk, disk', n)
  <2>1. ASSUME NEW g, g = SetDataBlockStatus(SetInodeStatus(d, i, FALSE), NeededBlocks(d, i), FALSE)
        PROVE  ImageOK(g) /\ OthersOK(disk, g, n)
    BY <1>3, <1>4, <2>1, DeleteStep, Zenon
  <2> QED BY <1>3, <2>1, Zenon
<1>6. \A h \in Handle : HandleOK(file[h], disk')
  <2>1. \A h \in Handle : file[h].name # n /\ HandleOK(file[h], disk)
    BY <1>2 DEF IsOpen, KtfsInv
  <2> QED BY <1>5, <2>1 DEF OthersOK
<1>7. ret'.rc \in Int /\ ret'.out \in Seq(Cell \cup Name)
  BY <1>2, Quiet
<1> QED BY <1>2, <1>5, <1>6, <1>7 DEF KtfsInv

LEMMA OpenKeeps ==
  ASSUME KtfsInv, NEW h \in Handle, NEW n \in Name, Open(h, n)
  PROVE  KtfsInv'
<1>1. PICK j \in Found(disk, n) :
        file' = [file EXCEPT ![h] = [name |-> n, inode |-> EntryAt(disk, j)[2], pos |-> 0,
                                     fileSize |-> disk.inode[EntryAt(disk, j)[2]].size]]
  BY Zenon DEF Open
<1>2. Result(0, <<>>) /\ UNCHANGED <<disk, listing>>
  BY DEF Open
<1> DEFINE i == EntryAt(disk, j)[2]
           f == [name |-> n, inode |-> i, pos |-> 0, fileSize |-> disk.inode[i].size]
<1>3. ImageOK(disk) /\ disk \in Disk /\ DirOK(disk)
  BY DEF KtfsInv, ImageOK, Forest
<1>4. j \in Entries(disk) /\ EntryAt(disk, j)[3] = n
  BY DEF Found
<1>5. i \in disk.imap /\ i \in Inode /\ EntryAt(disk, j) = Dentry(i, n)
  BY <1>3, <1>4, EntryIs
<1>6. file' = [file EXCEPT ![h] = f]
  BY <1>1
<1> HIDE DEF i
<1>7. disk.inode[i].size \in Nat /\ disk.inode[i].size <= KTFS_MAX_FILE_SIZE
  <2>1. HasBlocks(disk, i, disk.inode[i].size)
    BY <1>3, <1>5 DEF ImageOK, Sized
  <2> QED BY <1>3, <1>5, <2>1, SizeType DEF HasBlocks
<1>8. f \in FileType
  BY <1>5, <1>7 DEF FileType
<1>9. HandleOK(f, disk)
  BY <1>4, <1>5, <1>7 DEF HandleOK
<1>10. ret'.rc \in Int /\ ret'.out \in Seq(Cell \cup Name)
  BY <1>2, Quiet
<1> HIDE DEF f
<1> QED BY <1>2, <1>6, <1>8, <1>9, <1>10, HandleStep, Zenon

LEMMA CloseKeeps ==
  ASSUME KtfsInv, NEW h \in Handle, Close(h)
  PROVE  KtfsInv'
<1>1. /\ file' = [file EXCEPT ![h] = Closed] /\ Result(0, <<>>)
      /\ UNCHANGED <<disk, listing>>
  BY DEF Close
<1>2. Closed \in FileType /\ HandleOK(Closed, disk)
  BY Sizes DEF Closed, FileType, HandleOK
<1>3. ret'.rc \in Int /\ ret'.out \in Seq(Cell \cup Name)
  BY <1>1, Quiet
<1> QED BY <1>1, <1>2, <1>3, HandleStep, Zenon

(* A handle with another position, or with a new size too.                 *)
Moved(f, pos, size) == [f EXCEPT !.pos = pos, !.fileSize = size]

LEMMA HandleMoved ==
  ASSUME NEW f \in FileType, NEW d, NEW pos \in Nat, NEW size \in Nat, f # Closed,
         HandleOK(f, d), size <= KTFS_MAX_FILE_SIZE, NEW g, g = Moved(f, pos, size)
  PROVE  g \in FileType /\ HandleOK(g, d)
<1>1. g \in FileType /\ g.fileSize = size /\ g.inode = f.inode /\ g.name = f.name
  BY Zenon DEF FileType, Moved
<1> QED BY <1>1 DEF HandleOK

LEMMA FetchKeeps ==
  ASSUME KtfsInv, NEW h \in Handle, NEW len \in Nat, Fetch(h, len)
  PROVE  KtfsInv'
<1> DEFINE f == file[h]
           n == IF f.pos >= f.fileSize THEN 0 ELSE Lesser(len, f.fileSize - f.pos)
           out == [k \in 1 .. n |-> CellOf(disk, f.inode, f.pos + k - 1)]
           g == [f EXCEPT !.pos = f.pos + n, !.fileSize = f.fileSize]
<1>1. /\ file[h] # Closed /\ file' = [file EXCEPT ![h].pos = @ + n]
      /\ Result(n, out) /\ UNCHANGED <<disk, listing>>
  BY DEF Fetch
<1>2. /\ f \in FileType /\ HandleOK(f, disk) /\ file \in [Handle -> FileType]
      /\ disk \in Disk
  BY InvIs DEF ImageOK, Forest
<1>3. /\ f.pos \in Nat /\ f.fileSize \in Nat /\ f.inode \in Inode
      /\ f.fileSize <= KTFS_MAX_FILE_SIZE
  BY <1>1, HandleIs
<1>4. n \in Nat /\ (n > 0 => f.pos + n <= f.fileSize)
  BY <1>3 DEF Lesser
<1>5. file' = [file EXCEPT ![h] = g]
  <2>1. [file EXCEPT ![h].pos = f.pos + n] = [file EXCEPT ![h] = [f EXCEPT !.pos = f.pos + n]]
    BY <1>2
  <2>2. g = [f EXCEPT !.pos = f.pos + n]
    BY <1>2, Zenon DEF FileType
  <2> QED BY <1>1, <2>1, <2>2, Zenon
<1> HIDE DEF n
<1>6. \A k \in 1 .. n : CellOf(disk, f.inode, f.pos + k - 1) \in Cell
  <2>1. ASSUME NEW k \in 1 .. n
        PROVE  f.pos + k - 1 \in Nat /\ f.pos + k - 1 < KTFS_MAX_FILE_SIZE
    BY <1>3, <1>4, Sizes
  <2> QED BY <1>2, <1>3, <2>1, CellType
<1>7. out \in Seq(Cell \cup Name)
  <2>1. out \in [1 .. n -> Cell \cup Name]
    BY <1>6
  <2> HIDE DEF out
  <2> QED BY <1>4, <2>1
<1>8. ret'.rc \in Int /\ ret'.out \in Seq(Cell \cup Name)
  BY <1>1, <1>4, <1>7 DEF Result
<1>9. g \in FileType /\ HandleOK(g, disk)
  <2>1. f.pos + n \in Nat /\ f # Closed
    BY <1>1, <1>3, <1>4
  <2>2. g = Moved(f, f.pos + n, f.fileSize)
    BY DEF Moved
  <2> HIDE DEF f, g
  <2> QED BY <1>2, <1>3, <2>1, <2>2, HandleMoved
<1> HIDE DEF g
<1> QED BY <1>1, <1>5, <1>8, <1>9, HandleStep, Zenon

(* What a write makes of the image and of the size of the file.            *)
LEMMA WrittenStep ==
  ASSUME KtfsInv, NEW h \in Handle, file[h] # Closed, NEW len \in Nat \ {0},
         NEW e, e = Written(file[h], len).d
  PROVE  /\ ImageStep(disk, e) /\ e.inode[file[h].inode].size \in Nat
         /\ e.inode[file[h].inode].size <= KTFS_MAX_FILE_SIZE
<1> DEFINE f == file[h]
           i == f.inode
           I == disk.imap
<1>1. /\ i \in I \ {ROOT} /\ f.name \in Name /\ f.pos \in Nat /\ i \in Inode
      /\ ImageOK(disk) /\ Forest(disk, I) /\ Sized(disk, I)
  BY HandleIs DEF KtfsInv, ImageOK
<1>2. e = Written(f, len).d
  OBVIOUS
<1> HIDE DEF f, I
<1>3. Write(disk, Written(f, len), I, i)
  BY <1>1, WrittenGrows
<1> HIDE DEF i
<1>4. Forest(e, I) /\ Sized(e, I) /\ Keeps(disk, e, I, i, I \ {i})
  BY <1>2, <1>3 DEF Write
<1>5. ImageStep(disk, e)
  BY <1>1, <1>4, WriteStep DEF I
<1>6. e.inode[i].size \in Nat /\ e.inode[i].size <= KTFS_MAX_FILE_SIZE
  <2>1. e.inode[i].size \in Nat
    BY <1>1, <1>4, SizeType DEF Forest
  <2> QED BY <1>1, <1>4, <2>1 DEF Sized, HasBlocks
<1> QED BY <1>5, <1>6 DEF f, i

LEMMA StoreKeeps ==
  ASSUME KtfsInv, NEW h \in Handle, NEW len \in Nat, Store(h, len)
  PROVE  KtfsInv'
<1> DEFINE e == Written(file[h], len).d
           size == e.inode[file[h].inode].size
           pos == file[h].pos + len
           g == Moved(file[h], pos, size)
<1>1. /\ file[h] # Closed /\ len > 0 /\ disk' = e
      /\ file' = [file EXCEPT ![h].pos = pos, ![h].fileSize = size]
      /\ Result(len, <<>>) /\ UNCHANGED listing
  BY DEF Store
<1>2. len \in Nat \ {0}
  BY <1>1
<1>3. ImageStep(disk, e) /\ size \in Nat /\ size <= KTFS_MAX_FILE_SIZE
  BY <1>1, <1>2, WrittenStep
<1>4. pos \in Nat /\ file[h] \in FileType /\ HandleOK(file[h], disk)
      /\ file \in [Handle -> FileType]
  BY <1>1, HandleIs, InvIs
<1>5. HandleOK(file[h], e)
  BY <1>3, <1>4 DEF ImageStep
<1> HIDE DEF e, size, pos
<1>6. g \in FileType /\ HandleOK(g, e)
  BY <1>1, <1>3, <1>4, <1>5, HandleMoved
<1>7. file' = [file EXCEPT ![h] = g]
  <2>1. g = [file[h] EXCEPT !.pos = pos, !.fileSize = size]
    BY DEF Moved
  <2> HIDE DEF g
  <2> QED BY <1>1, <1>4, <2>1, Zenon DEF FileType
<1>8. ret'.rc \in Int /\ ret'.out \in Seq(Cell \cup Name)
  BY <1>1, Quiet
<1> HIDE DEF g
<1> QED BY <1>1, <1>3, <1>6, <1>7, <1>8, DiskStep, Zenon

LEMMA StoreNoBlockKeeps ==
  ASSUME KtfsInv, NEW h \in Handle, NEW len \in Nat, StoreNoBlock(h, len)
  PROVE  KtfsInv'
<1> DEFINE e == Written(file[h], len).d
<1>1. /\ file[h] # Closed /\ len > 0 /\ disk' = e
      /\ Result(ERR, <<>>) /\ UNCHANGED <<file, listing>>
  BY DEF StoreNoBlock
<1>2. len \in Nat \ {0}
  BY <1>1
<1>3. ImageStep(disk, e)
  BY <1>1, <1>2, WrittenStep
<1>4. ret'.rc \in Int /\ ret'.out \in Seq(Cell \cup Name)
  BY <1>1, Quiet DEF ERR
<1> HIDE DEF e
<1> QED BY <1>1, <1>3, <1>4, ImageOnlyStep

LEMMA SetPosKeeps ==
  ASSUME KtfsInv, NEW h \in Handle, NEW pos \in Nat, SetPos(h, pos)
  PROVE  KtfsInv'
<1>1. file[h] # Closed /\ UNCHANGED <<disk, listing>>
  BY DEF SetPos
<1>2. /\ file[h].fileSize \in Nat /\ file[h].fileSize <= KTFS_MAX_FILE_SIZE
      /\ file[h] \in FileType /\ HandleOK(file[h], disk) /\ file \in [Handle -> FileType]
  BY <1>1, HandleIs, InvIs
<1>3. CASE pos <= file[h].fileSize
  <2> DEFINE g == Moved(file[h], pos, file[h].fileSize)
  <2>1. file' = [file EXCEPT ![h].pos = pos] /\ Result(0, <<>>)
    BY <1>3 DEF SetPos
  <2>2. g \in FileType /\ HandleOK(g, disk)
    BY <1>1, <1>2, HandleMoved
  <2>3. file' = [file EXCEPT ![h] = g]
    <3>1. g = [file[h] EXCEPT !.pos = pos]
      BY <1>2, Zenon DEF Moved, FileType
    <3> HIDE DEF g
    <3> QED BY <1>2, <2>1, <3>1 DEF FileType
  <2>4. ret'.rc \in Int /\ ret'.out \in Seq(Cell \cup Name)
    BY <2>1, Quiet
  <2> HIDE DEF g
  <2> QED BY <1>1, <2>2, <2>3, <2>4, HandleStep, Zenon
<1>4. CASE ~(pos <= file[h].fileSize)
  <2>1. Result(ERR, <<>>) /\ UNCHANGED file
    BY <1>4 DEF SetPos
  <2>2. ret'.rc \in Int /\ ret'.out \in Seq(Cell \cup Name)
    BY <2>1, Quiet DEF ERR
  <2> QED BY <1>1, <2>1, <2>2, NothingStep
<1> QED BY <1>3, <1>4

LEMMA ResizedStep ==
  ASSUME KtfsInv, NEW h \in Handle, file[h] # Closed, NEW size \in Nat,
         size <= KTFS_MAX_FILE_SIZE
  PROVE  LET s == Resized(h, size)
         IN /\ s.ok => ImageStep(disk, [s.d EXCEPT !.inode[file[h].inode].size = size])
            /\ ImageStep(disk, [s.d EXCEPT !.inode = disk.inode])
<1> DEFINE i == file[h].inode
           I == disk.imap
           s == Resized(h, size)
<1>1. /\ i \in I \ {ROOT} /\ i \in Inode /\ I \subseteq Inode
      /\ ImageOK(disk) /\ Forest(disk, I) /\ Sized(disk, I)
  BY HandleIs DEF KtfsInv, ImageOK, Forest
<1> HIDE DEF I
<1>2. /\ Write(disk, s, I, i)
      /\ s.ok => HasBlocks(s.d, i, size)
  BY <1>1, ResizedGrows
<1>3. Step(Begin(disk), s, I, i)
  <2> DEFINE old == disk.inode[i].size
  <2>1. s = GetOrAllocAll(Begin(disk), i, Blocks(old), Blocks(size) - 1)
    BY DEF Resized
  <2> HIDE DEF s
  <2>2. Begin(disk) \in State /\ Begin(disk).d = disk
    BY <1>1, NodeTypes DEF Forest
  <2>3. old \in Nat
    BY <1>1, SizeType DEF Forest
  <2> HIDE DEF old, i
  <2>4. Blocks(old) \in Nat /\ Blocks(size) - 1 \in Int
    BY <2>3, BlocksIs
  <2>5. Forest(Begin(disk).d, I) /\ i \in I
    BY <1>1, <2>2
  <2> QED BY <2>1, <2>2, <2>4, <2>5, GetOrAllocAllGrows
<1>4. Forest(s.d, I) /\ Grows(disk, s.d, I, i, I \ {i})
  <2>1. Begin(disk).d = disk
    BY DEF Begin
  <2> QED BY <1>3, <2>1 DEF Step
<1> HIDE DEF i, s
<1>5. ASSUME s.ok
      PROVE  ImageStep(disk, [s.d EXCEPT !.inode[i].size = size])
  <2> DEFINE e == [s.d EXCEPT !.inode[i].size = size]
             u == WithSize(s, i, size)
  <2>1. Write(disk, u, I, i)
    BY <1>1, <1>2, <1>5, SetSize
  <2>2. u.d = e
    BY <1>2 DEF WithSize, Write, State
  <2> HIDE DEF u, e
  <2>3. Forest(e, I) /\ Sized(e, I) /\ Keeps(disk, e, I, i, I \ {i})
    BY <2>1, <2>2 DEF Write
  <2> QED BY <1>1, <2>3, WriteStep DEF I, e
<1>6. ImageStep(disk, [s.d EXCEPT !.inode = disk.inode])
  <2> DEFINE e == [s.d EXCEPT !.inode = disk.inode]
             x == s.d
  <2>1. e = [x EXCEPT !.inode = disk.inode]
    OBVIOUS
  <2> HIDE DEF e
  <2>2. Forest(x, I) /\ Grows(disk, x, I, i, I \ {i})
    BY <1>4
  <2> HIDE DEF x
  <2>3. Forest(e, I) /\ Sized(e, I) /\ Grows(disk, e, I, i, I \ {i})
    BY <1>1, <2>1, <2>2, InodeNotWritten
  <2>4. Keeps(disk, e, I, i, I \ {i})
    BY <2>3 DEF Grows
  <2> QED BY <1>1, <2>3, <2>4, WriteStep DEF I, e, x
<1> QED BY <1>5, <1>6 DEF i, s

LEMMA SetEndKeeps ==
  ASSUME KtfsInv, NEW h \in Handle, NEW size \in Nat, SetEnd(h, size)
  PROVE  KtfsInv'
<1> DEFINE s == Resized(h, size)
           e == [s.d EXCEPT !.inode[file[h].inode].size = size]
           pos == Lesser(file[h].pos, size)
           g == Moved(file[h], pos, size)
<1>1. /\ file[h] # Closed /\ size <= KTFS_MAX_FILE_SIZE /\ s.ok /\ disk' = e
      /\ file' = [file EXCEPT ![h].fileSize = size, ![h].pos = Lesser(@, size)]
      /\ Result(0, <<>>) /\ UNCHANGED listing
  BY DEF SetEnd
<1>2. ImageStep(disk, e)
  BY <1>1, ResizedStep, Zenon
<1> HIDE DEF e, s
<1>3. /\ file[h] \in FileType /\ HandleOK(file[h], disk) /\ file \in [Handle -> FileType]
      /\ file[h].pos \in Nat
  BY <1>1, HandleIs, InvIs
<1>4. pos \in Nat
  BY <1>3 DEF Lesser
<1>5. HandleOK(file[h], e)
  BY <1>2, <1>3 DEF ImageStep
<1>6. file' = [file EXCEPT ![h] = g]
  <2>1. g = [file[h] EXCEPT !.fileSize = size, !.pos = Lesser(file[h].pos, size)]
    BY <1>3, Zenon DEF Moved, FileType
  <2> HIDE DEF g
  <2> QED BY <1>1, <1>3, <2>1, Zenon DEF FileType
<1> HIDE DEF pos
<1>7. g \in FileType /\ HandleOK(g, e)
  BY <1>1, <1>3, <1>4, <1>5, HandleMoved
<1>8. ret'.rc \in Int /\ ret'.out \in Seq(Cell \cup Name)
  BY <1>1, Quiet
<1> HIDE DEF g
<1> QED BY <1>1, <1>2, <1>6, <1>7, <1>8, DiskStep, Zenon

LEMMA SetEndNoBlockKeeps ==
  ASSUME KtfsInv, NEW h \in Handle, NEW size \in Nat, SetEndNoBlock(h, size)
  PROVE  KtfsInv'
<1> DEFINE e == [Resized(h, size).d EXCEPT !.inode = disk.inode]
<1>1. /\ file[h] # Closed /\ size <= KTFS_MAX_FILE_SIZE /\ disk' = e
      /\ Result(ERR, <<>>) /\ UNCHANGED <<file, listing>>
  BY DEF SetEndNoBlock
<1>2. ImageStep(disk, e)
  BY <1>1, ResizedStep, Zenon
<1>3. ret'.rc \in Int /\ ret'.out \in Seq(Cell \cup Name)
  BY <1>1, Quiet DEF ERR
<1> HIDE DEF e
<1> QED BY <1>1, <1>2, <1>3, ImageOnlyStep

LEMMA ReadListingKeeps ==
  ASSUME KtfsInv, ReadListing
  PROVE  KtfsInv'
<1>1. UNCHANGED <<disk, file>> /\ listing # NoListing /\ listing \in Nat
  BY DEF ReadListing, KtfsInv
<1>2. CASE listing \in Entries(disk)
  <2>1. Result(1, <<EntryAt(disk, listing)[3]>>) /\ listing' = listing + 1
    BY <1>2 DEF ReadListing
  <2>2. EntryAt(disk, listing)[3] \in Name
    BY <1>2, EntryIs DEF KtfsInv, ImageOK, Forest
  <2>3. ret'.rc \in Int /\ ret'.out \in Seq(Cell \cup Name)
    BY <2>1, <2>2 DEF Result
  <2>4. listing' \in Nat
    BY <1>1, <2>1
  <2> QED BY <1>1, <2>3, <2>4 DEF KtfsInv
<1>3. CASE listing \notin Entries(disk)
  <2>1. Result(0, <<>>) /\ UNCHANGED listing
    BY <1>3 DEF ReadListing
  <2>2. ret'.rc \in Int /\ ret'.out \in Seq(Cell \cup Name)
    BY <2>1, Quiet
  <2> QED BY <1>1, <2>1, <2>2, NothingStep
<1> QED BY <1>2, <1>3

LEMMA ListingStep ==
  ASSUME KtfsInv, UNCHANGED <<disk, file>>, Result(0, <<>>), listing' \in {0, NoListing}
  PROVE  KtfsInv'
<1>1. ret'.rc \in Int /\ ret'.out \in Seq(Cell \cup Name)
  BY Quiet
<1> QED BY <1>1 DEF KtfsInv

(* The calls that change nothing.                                          *)
LEMMA StillKeeps ==
  ASSUME KtfsInv, NEW rc \in Int, Result(rc, <<>>), UNCHANGED <<disk, file, listing>>
  PROVE  KtfsInv'
BY Quiet, NothingStep

LEMMA KtfsStep ==
  ASSUME DirFits, KtfsInv, [Next]_vars
  PROVE  KtfsInv'
<1>1. ASSUME NEW n \in Name, Create(n) \/ CreateNoBlock(n) \/ Delete(n)
      PROVE  KtfsInv'
  BY <1>1, CreateKeeps, CreateNoBlockKeeps, DeleteKeeps
<1>2. ASSUME NEW n \in Name, CreateRefused(n) \/ NoEntry(n)
      PROVE  KtfsInv'
  <2>1. Result(ERR, <<>>) /\ UNCHANGED <<disk, file, listing>> /\ ERR \in Int
    BY <1>2 DEF CreateRefused, NoEntry, ERR
  <2> QED BY <2>1, StillKeeps
<1>3. ASSUME NEW h \in Handle, NEW n \in Name, Open(h, n)
      PROVE  KtfsInv'
  BY <1>3, OpenKeeps
<1>4. ASSUME NEW h \in Handle, NEW len \in Reqs,
             Fetch(h, len) \/ Store(h, len) \/ StoreNoBlock(h, len)
      PROVE  KtfsInv'
  <2>1. len \in Nat
    BY KtfsAssumption
  <2> QED BY <1>4, <2>1, FetchKeeps, StoreKeeps, StoreNoBlockKeeps
<1>5. ASSUME NEW h \in Handle, NEW p \in Ends,
             SetPos(h, p) \/ SetEnd(h, p) \/ SetEndNoBlock(h, p)
      PROVE  KtfsInv'
  <2>1. p \in Nat
    BY KtfsAssumption
  <2> QED BY <1>5, <2>1, SetPosKeeps, SetEndKeeps, SetEndNoBlockKeeps
<1>6. ASSUME NEW h \in Handle, NEW p \in Ends, SetEndTooLong(h, p)
      PROVE  KtfsInv'
  <2>1. Result(ERR, <<>>) /\ UNCHANGED <<disk, file, listing>> /\ ERR \in Int
    BY <1>6 DEF SetEndTooLong, ERR
  <2> QED BY <2>1, StillKeeps
<1>7. ASSUME NEW h \in Handle, StoreNothing(h)
      PROVE  KtfsInv'
  <2>1. Result(0, <<>>) /\ UNCHANGED <<disk, file, listing>>
    BY <1>7 DEF StoreNothing
  <2> QED BY <2>1, StillKeeps
<1>8. ASSUME NEW h \in Handle, GetEnd(h) \/ GetPos(h)
      PROVE  KtfsInv'
  <2>1. /\ Result(file[h].fileSize, <<>>) \/ Result(file[h].pos, <<>>)
        /\ UNCHANGED <<disk, file, listing>> /\ file[h] # Closed
    BY <1>8 DEF GetEnd, GetPos
  <2>2. file[h].fileSize \in Int /\ file[h].pos \in Int
    BY <2>1, HandleIs
  <2> QED BY <2>1, <2>2, StillKeeps
<1>9. ASSUME NEW h \in Handle, Close(h)
      PROVE  KtfsInv'
  BY <1>9, CloseKeeps
<1>10. ASSUME OpenListing \/ CloseListing
       PROVE  KtfsInv'
  <2>1. UNCHANGED <<disk, file>> /\ Result(0, <<>>) /\ listing' \in {0, NoListing}
    BY <1>10 DEF OpenListing, CloseListing
  <2> QED BY <2>1, ListingStep
<1>11. ASSUME ReadListing
       PROVE  KtfsInv'
  BY <1>11, ReadListingKeeps
<1>12. CASE UNCHANGED vars
  BY <1>12 DEF vars, KtfsInv
<1>13. CASE Next
  BY <1>1, <1>2, <1>3, <1>4, <1>5, <1>6, <1>7, <1>8, <1>9, <1>10, <1>11, <1>13 DEF Next
<1> QED BY <1>12, <1>13

LEMMA KtfsInvHolds == DirFits => (Spec => []KtfsInv)
<1> SUFFICES ASSUME DirFits
             PROVE  Spec => []KtfsInv
  OBVIOUS
<1>1. KtfsInv /\ [Next]_vars => KtfsInv'
  BY KtfsStep
<1>2. Init => KtfsInv
  BY EmptyImage
<1> QED BY <1>1, <1>2, PTL DEF Spec

(* The directory entries, inodes, blocks, handles and results keep their   *)
(* types.                                                                  *)
THEOREM KtfsTyping == DirFits => (Spec => []TypeOK)
<1>1. KtfsInv => TypeOK
  BY DEF KtfsInv, ImageOK, Forest, Disk, Node, Cells, TypeOK
<1> QED BY <1>1, KtfsInvHolds, PTL

(* The directory names each file and each inode once.                      *)
THEOREM DirectoryStays == DirFits => (Spec => []DirectoryConsistent)
<1>1. KtfsInv => DirectoryConsistent
  <2> SUFFICES ASSUME KtfsInv, NEW j \in Entries(disk)
               PROVE  /\ EntryAt(disk, j)[2] \in disk.imap \ {ROOT}
                      /\ \A l \in Entries(disk) :
                           (\E part \in {2, 3} : EntryAt(disk, l)[part] = EntryAt(disk, j)[part])
                             => l = j
    BY DEF DirectoryConsistent
  <2>1. DirOK(disk) /\ disk \in Disk
    BY DEF KtfsInv, ImageOK, Forest
  <2>2. EntryAt(disk, j)[2] \in disk.imap \ {ROOT}
    BY <2>1, EntryIs
  <2>3. \A l \in Entries(disk) :
          EntryAt(disk, l)[2] = EntryAt(disk, j)[2] \/ EntryAt(disk, l)[3] = EntryAt(disk, j)[3]
            => l = j
    BY <2>1 DEF DirOK
  <2> QED BY <2>2, <2>3
<1> QED BY <1>1, KtfsInvHolds, PTL
----------------------------------------------------------------------------
(* No block is used twice.                                                 *)

(* Every pointer of an inode in use is at a place of its tree.             *)
Located(i, l) == \E q \in Place : /\ l = <<NodeOf(disk, i, q), Index(q)>>
                                  /\ PointerAt(disk, l[1], l[2]) = At(disk, i, q)

LEMMA LocatedIs ==
  ASSUME NEW i, NEW q \in Place
  PROVE  Located(i, <<NodeOf(disk, i, q), Index(q)>>)
BY PointerIs DEF Located

LEMMA InBlocksIs ==
  ASSUME NEW bs, NEW l \in InBlocks(bs)
  PROVE  \E x \in bs, b \in 0 .. PTRS - 1 : l = <<InBlock(x), b>>
BY DEF InBlocks

LEMMA PointersLocated ==
  ASSUME NEW i
  PROVE  \A l \in Pointers(i) : Located(i, l)
<1> DEFINE top    == {InInode(i)} \X Top
           slots  == 0 .. PTRS - 1
           single == InBlocks(Targets({InInode(i)} \X {NDIRECT}))
           upper  == {InInode(i)} \X (NDIRECT + 1 .. NDIRECT + NDINDIRECT)
           double == InBlocks(Targets(upper))
           lower  == InBlocks(Targets(double))
<1>1. Pointers(i) = top \cup single \cup double \cup lower
  BY DEF Pointers
<1>2. -1 \in Slot /\ slots \subseteq Slot /\ -1 \notin slots
  BY Sizes DEF Slot
<1>3. ASSUME NEW a \in Top
      PROVE  LET q == <<a, -1, -1>>
             IN /\ q \in Place /\ NodeOf(disk, i, q) = InInode(i) /\ Index(q) = a
                /\ PointerAt(disk, InInode(i), a) = At(disk, i, q)
  <2> DEFINE q == <<a, -1, -1>>
  <2>1. q \in Place /\ NodeOf(disk, i, q) = InInode(i) /\ Index(q) = a
    BY <1>2 DEF Place, NodeOf, Index
  <2>2. PointerAt(disk, NodeOf(disk, i, q), Index(q)) = At(disk, i, q)
    BY <2>1, PointerIs
  <2> QED BY <2>1, <2>2
<1>4. ASSUME NEW a \in Top, a >= NDIRECT, NEW b \in slots
      PROVE  LET q == <<a, b, -1>>
                 n == InBlock(PointerAt(disk, InInode(i), a))
             IN /\ q \in Place /\ NodeOf(disk, i, q) = n /\ Index(q) = b
                /\ PointerAt(disk, n, b) = At(disk, i, q)
  <2> DEFINE q == <<a, b, -1>>
             n == InBlock(PointerAt(disk, InInode(i), a))
  <2>1. b # -1 /\ b \in Slot
    BY <1>2
  <2>2. q \in Place /\ Index(q) = b
    BY <1>2, <1>4, <2>1 DEF Place, Index
  <2>3. Up(q) = <<a, -1, -1>> /\ q[2] # -1
    BY <2>1 DEF Up
  <2>4. NodeOf(disk, i, q) = n
    <3>1. PointerAt(disk, InInode(i), a) = At(disk, i, Up(q))
      BY <1>3, <2>3
    <3> QED BY <2>3, <3>1 DEF NodeOf
  <2>5. PointerAt(disk, NodeOf(disk, i, q), Index(q)) = At(disk, i, q)
    BY <2>2, PointerIs
  <2> QED BY <2>2, <2>4, <2>5
<1>5. ASSUME NEW a \in NDIRECT + 1 .. NDIRECT + NDINDIRECT, NEW b \in slots, NEW c \in slots
      PROVE  LET q == <<a, b, c>>
                 n == InBlock(PointerAt(disk, InBlock(PointerAt(disk, InInode(i), a)), b))
             IN q \in Place /\ NodeOf(disk, i, q) = n /\ Index(q) = c
  <2> DEFINE q == <<a, b, c>>
             n == InBlock(PointerAt(disk, InBlock(PointerAt(disk, InInode(i), a)), b))
  <2>1. b # -1 /\ b \in Slot /\ c # -1 /\ c \in Slot /\ a \in Top /\ a > NDIRECT /\ a >= NDIRECT
    BY <1>2, Sizes DEF Top
  <2>2. q \in Place /\ Index(q) = c
    BY <1>2, <2>1 DEF Place, Index
  <2>3. Up(q) = <<a, b, -1>> /\ q[2] # -1
    BY <2>1 DEF Up
  <2>4. PointerAt(disk, InBlock(PointerAt(disk, InInode(i), a)), b) = At(disk, i, Up(q))
    BY <1>4, <2>1, <2>3
  <2> QED BY <2>2, <2>3, <2>4 DEF NodeOf
<1>6. ASSUME NEW l \in top
      PROVE  Located(i, l)
  <2>1. PICK a \in Top : l = <<InInode(i), a>>
    OBVIOUS
  <2> DEFINE q == <<a, -1, -1>>
  <2>2. q \in Place /\ NodeOf(disk, i, q) = InInode(i) /\ Index(q) = a
    BY <1>3
  <2> HIDE DEF q
  <2> QED BY <2>1, <2>2, LocatedIs
<1>7. ASSUME NEW l \in single \cup double
      PROVE  \E a \in Top, b \in slots :
               /\ a >= NDIRECT /\ l = <<InBlock(PointerAt(disk, InInode(i), a)), b>>
               /\ l \in double => a \in NDIRECT + 1 .. NDIRECT + NDINDIRECT
  <2>1. CASE l \in double
    <3>1. PICK x \in Targets(upper), b \in slots : l = <<InBlock(x), b>>
      <4> HIDE DEF upper
      <4> QED BY <2>1, InBlocksIs
    <3>2. PICK m \in upper : x = PointerAt(disk, m[1], m[2])
      BY <3>1 DEF Targets
    <3>3. PICK a \in NDIRECT + 1 .. NDIRECT + NDINDIRECT : m = <<InInode(i), a>>
      BY <3>2
    <3>4. a \in Top /\ a >= NDIRECT /\ x = PointerAt(disk, InInode(i), a)
      BY <3>2, <3>3, Sizes DEF Top
    <3> QED BY <3>1, <3>3, <3>4
  <2>2. CASE l \in single /\ l \notin double
    <3>1. PICK x \in Targets({InInode(i)} \X {NDIRECT}), b \in slots : l = <<InBlock(x), b>>
      BY <2>2 DEF InBlocks
    <3>2. x = PointerAt(disk, InInode(i), NDIRECT)
      BY <3>1 DEF Targets
    <3>3. NDIRECT \in Top /\ NDIRECT >= NDIRECT
      BY TopSlots, Sizes
    <3> HIDE DEF double
    <3> QED BY <2>2, <3>1, <3>2, <3>3
  <2> QED BY <2>1, <2>2
<1>8. ASSUME NEW l \in single \cup double
      PROVE  Located(i, l)
  <2>1. PICK a \in Top, b \in slots :
          a >= NDIRECT /\ l = <<InBlock(PointerAt(disk, InInode(i), a)), b>>
    <3> HIDE DEF single, double
    <3> QED BY <1>7
  <2> DEFINE q == <<a, b, -1>>
  <2>2. q \in Place /\ l = <<NodeOf(disk, i, q), Index(q)>>
    BY <1>4, <2>1
  <2> HIDE DEF q
  <2> QED BY <2>2, LocatedIs
<1>9. ASSUME NEW l \in lower
      PROVE  Located(i, l)
  <2> HIDE DEF double
  <2>1. PICK x \in Targets(double), c \in slots : l = <<InBlock(x), c>>
    BY DEF InBlocks
  <2>2. PICK m \in double : x = PointerAt(disk, m[1], m[2])
    BY <2>1 DEF Targets
  <2>3. PICK a \in NDIRECT + 1 .. NDIRECT + NDINDIRECT, b \in slots :
          m = <<InBlock(PointerAt(disk, InInode(i), a)), b>>
    BY <1>7, <2>2
  <2> DEFINE q == <<a, b, c>>
  <2>4. q \in Place /\ l = <<NodeOf(disk, i, q), Index(q)>>
    BY <1>5, <2>1, <2>2, <2>3
  <2> HIDE DEF q
  <2> QED BY <2>4, LocatedIs
<1> HIDE DEF top, single, double, lower
<1> QED BY <1>1, <1>6, <1>8, <1>9

LEMMA NotShared ==
  ASSUME KtfsInv
  PROVE  NoSharing
<1> DEFINE d == disk
           I == disk.imap
           live == {l \in UNION {Pointers(i) : i \in I} : PointerAt(disk, l[1], l[2]) # 0}
           T == Targets(live)
           f == [l \in live |-> PointerAt(disk, l[1], l[2])]
<1>1. /\ d \in Disk /\ Marked(d, I) /\ Apart(d, I) /\ I \subseteq Inode
  BY DEF KtfsInv, ImageOK, Forest
<1>2. T = {PointerAt(disk, l[1], l[2]) : l \in live}
  BY DEF Targets
<1>3. ASSUME NEW l \in live
      PROVE  \E i \in I, q \in Place :
               /\ l = <<NodeOf(d, i, q), Index(q)>>
               /\ PointerAt(disk, l[1], l[2]) = At(d, i, q) /\ At(d, i, q) # 0
  <2>1. PICK i \in I : l \in Pointers(i)
    OBVIOUS
  <2>2. Located(i, l)
    BY <2>1, PointersLocated
  <2>3. PointerAt(disk, l[1], l[2]) # 0
    OBVIOUS
  <2> HIDE DEF live
  <2> QED BY <2>2, <2>3 DEF Located
<1> HIDE DEF live
<1>4. T \subseteq d.bmap \ {0}
  <2>1. ASSUME NEW l \in live
        PROVE  PointerAt(disk, l[1], l[2]) \in d.bmap \ {0}
    <3>1. PICK i \in I, q \in Place :
            PointerAt(disk, l[1], l[2]) = At(d, i, q) /\ At(d, i, q) # 0
      BY <1>3
    <3> QED BY <1>1, <3>1 DEF Marked
  <2> QED BY <1>2, <2>1
<1>5. f \in [live -> T]
  BY <1>2
<1>6. ASSUME NEW l \in live, NEW m \in live, f[l] = f[m]
      PROVE  l = m
  <2>1. PICK i \in I, q \in Place :
          /\ l = <<NodeOf(d, i, q), Index(q)>>
          /\ PointerAt(disk, l[1], l[2]) = At(d, i, q) /\ At(d, i, q) # 0
    BY <1>3
  <2>2. PICK k \in I, r \in Place :
          /\ m = <<NodeOf(d, k, r), Index(r)>>
          /\ PointerAt(disk, m[1], m[2]) = At(d, k, r) /\ At(d, k, r) # 0
    BY <1>3
  <2>3. At(d, i, q) = At(d, k, r)
    BY <1>6, <2>1, <2>2
  <2>4. i = k /\ q = r
    BY <1>1, <2>1, <2>3 DEF Apart
  <2> QED BY <2>1, <2>2, <2>4
<1>7. \A t \in T : \E l \in live : f[l] = t
  BY <1>2
<1>8. IsFiniteSet(T)
  <2>1. IsFiniteSet(Block)
    BY Sizes, FS_Interval DEF Block
  <2>2. T \in SUBSET Block
    BY <1>1, <1>4 DEF Disk
  <2> QED BY <2>1, <2>2, FS_Subset
<1> HIDE DEF f, T
<1>9. f \in Injection(live, T) /\ f \in Surjection(live, T)
  BY <1>5, <1>6, <1>7 DEF Injection, IsInjective, Surjection
<1>10. Cardinality(live) = Cardinality(T)
  BY <1>8, <1>9, FS_Injection
<1> QED BY <1>4, <1>10 DEF NoSharing, T, live

(* Two pointers of files in use never lead to the same block, and the      *)
(* block they lead to is marked and not block 0.                           *)
THEOREM BlocksNotShared == DirFits => (Spec => []NoSharing)
<1>1. KtfsInv => NoSharing
  BY NotShared
<1> QED BY <1>1, KtfsInvHolds, PTL
----------------------------------------------------------------------------
(* What the client sees.                                                   *)

(* A handle knows the size of its file, and its position is in the file.   *)
Shows(f, d) == f # Closed => f.fileSize = Len(Content(d, f.name)) /\ f.pos <= f.fileSize

FilesInv ==
  /\ KtfsInv
  /\ \A h \in Handle : Shows(file[h], disk)
  /\ \A h, l \in Handle : file[h] # Closed /\ file[h].name = file[l].name => h = l

View(f) == [name |-> f.name, pos |-> f.pos]

LEMMA EntriesCount ==
  ASSUME NEW d, ImageOK(d)
  PROVE  Cardinality(Entries(d)) = Count(d)
<1>1. Count(d) \in Nat /\ Entries(d) = 0 .. Count(d) - 1
  BY NamesAre
<1>2. Cardinality(0 .. Count(d) - 1) = Count(d)
  BY <1>1, FS_Interval
<1> QED BY <1>1, <1>2

LEMMA ShownIs ==
  ASSUME KtfsInv
  PROVE  /\ Listed = Names(disk) /\ Contents = [n \in Name |-> Content(disk, n)]
         /\ OpenFiles = [h \in Handle |-> View(file[h])]
<1>1. Cardinality(Entries(disk)) = Count(disk)
  BY EntriesCount DEF KtfsInv
<1>2. Listed = Names(disk)
  BY <1>1, Zenon DEF Listed, Names
<1>3. \A n : ContentOf(n) = Content(disk, n)
  BY Zenon DEF ContentOf, Content, CellsOf, InodeAt
<1>4. Contents = [n \in Name |-> Content(disk, n)]
  BY <1>3, Zenon DEF Contents
<1> QED BY <1>2, <1>4, Zenon DEF OpenFiles, View

LEMMA ShownNext ==
  ASSUME KtfsInv'
  PROVE  /\ Listed' = Names(disk') /\ Contents' = [n \in Name |-> Content(disk', n)]
         /\ OpenFiles' = [h \in Handle |-> View(file'[h])]
<1>1. Cardinality(Entries(disk')) = Count(disk')
  BY EntriesCount DEF KtfsInv
<1>2. Listed' = Names(disk')
  BY <1>1, Zenon DEF Listed, Names
<1>3. \A n : ContentOf(n)' = Content(disk', n)
  BY Zenon DEF ContentOf, Content, CellsOf, InodeAt
<1>4. Contents' = [n \in Name |-> Content(disk', n)]
  BY <1>3, Zenon DEF Contents
<1> QED BY <1>2, <1>4, Zenon DEF OpenFiles, View

LEMMA ExistsIs ==
  ASSUME KtfsInv, NEW n
  PROVE  Abstract!Exists(n) <=> Found(disk, n) # {}
<1>1. ImageOK(disk) /\ Listed = Names(disk)
  BY ShownIs DEF KtfsInv
<1>2. /\ DOMAIN Names(disk) = 1 .. Count(disk) /\ Count(disk) \in Nat
      /\ Entries(disk) = 0 .. Count(disk) - 1
      /\ \A k \in 1 .. Count(disk) : Names(disk)[k] = EntryAt(disk, k - 1)[3]
  BY <1>1, NamesAre
<1>3. Abstract!Exists(n) <=> \E k \in 1 .. Count(disk) : Names(disk)[k] = n
  BY <1>1, <1>2 DEF Abstract!Exists, Abstract!Range
<1>4. ASSUME NEW k \in 1 .. Count(disk), Names(disk)[k] = n
      PROVE  Found(disk, n) # {}
  <2>1. k - 1 \in Entries(disk) /\ EntryAt(disk, k - 1)[3] = n
    BY <1>2, <1>4
  <2> QED BY <2>1 DEF Found
<1>5. ASSUME NEW j \in Found(disk, n)
      PROVE  \E k \in 1 .. Count(disk) : Names(disk)[k] = n
  <2>1. j \in Entries(disk) /\ EntryAt(disk, j)[3] = n
    BY DEF Found
  <2>2. j + 1 \in 1 .. Count(disk) /\ (j + 1) - 1 = j
    BY <1>2, <2>1
  <2> QED BY <1>2, <2>1, <2>2
<1> QED BY <1>3, <1>4, <1>5

(* The handles as the client sees them.                                    *)
LEMMA OpenIs ==
  ASSUME KtfsInv, NEW h \in Handle
  PROVE  /\ OpenFiles[h] = View(file[h]) /\ file[h] \in FileType
         /\ OpenFiles[h].name = file[h].name /\ OpenFiles[h].pos = file[h].pos
         /\ OpenFiles[h] = Abstract!NotOpen <=> file[h] = Closed
         /\ OpenFiles = [l \in Handle |-> View(file[l])]
<1>1. OpenFiles = [l \in Handle |-> View(file[l])] /\ file[h] \in FileType
  BY ShownIs, InvIs
<1>2. OpenFiles[h] = View(file[h])
  BY <1>1
<1>3. file[h] = Closed => View(file[h]) = Abstract!NotOpen
  BY DEF Closed, View, Abstract!NotOpen
<1>4. View(file[h]) = Abstract!NotOpen => file[h].name = "none"
  BY DEF View, Abstract!NotOpen
<1>5. file[h] # Closed => file[h].name # "none"
  <2>1. "none" \notin Name
    BY KtfsAssumption
  <2> QED BY <2>1, HandleIs
<1>6. View(file[h]).name = file[h].name /\ View(file[h]).pos = file[h].pos
  BY DEF View
<1> QED BY <1>1, <1>2, <1>3, <1>4, <1>5, <1>6

(* An open file is in the directory.                                       *)
LEMMA OpenContent ==
  ASSUME KtfsInv, NEW h \in Handle, file[h] # Closed
  PROVE  /\ Content(disk, file[h].name) = CellsOf(disk, file[h].inode)
         /\ file[h].name \in Name
         /\ \E j \in Entries(disk) : EntryAt(disk, j) = Dentry(file[h].inode, file[h].name)
         /\ Found(disk, file[h].name) # {}
<1>1. ImageOK(disk) /\ HandleOK(file[h], disk)
  BY DEF KtfsInv
<1>2. PICK j \in Entries(disk) : EntryAt(disk, j) = Dentry(file[h].inode, file[h].name)
  BY <1>1 DEF HandleOK
<1>3. file[h].name \in Name /\ file[h].inode \in Inode
  BY HandleIs
<1>4. j \in Found(disk, file[h].name) /\ InodeAt(disk, j) = file[h].inode
  BY <1>2, <1>3, DentryFields DEF Found, InodeAt
<1>5. Content(disk, file[h].name) = CellsOf(disk, file[h].inode)
  BY <1>1, <1>4, ContentIs
<1> QED BY <1>2, <1>3, <1>4, <1>5

(* What a call on one file must keep for the handles to know their files.  *)
LEMMA FilesKept ==
  ASSUME FilesInv, KtfsInv', NEW h \in Handle, NEW g, file' = [file EXCEPT ![h] = g],
         Shows(g, disk'), g # Closed => \A l \in Handle \ {h} : file[l].name # g.name,
         \A l \in Handle \ {h} :
           file[l] # Closed => Content(disk', file[l].name) = Content(disk, file[l].name)
  PROVE  FilesInv' /\ OpenFiles' = [OpenFiles EXCEPT ![h] = View(g)]
<1>1. /\ KtfsInv /\ file \in [Handle -> FileType]
      /\ \A l \in Handle : Shows(file[l], disk)
      /\ \A k, l \in Handle : file[k] # Closed /\ file[k].name = file[l].name => k = l
  BY InvIs DEF FilesInv
<1>2. \A l \in Handle : file'[l] = IF l = h THEN g ELSE file[l]
  BY <1>1
<1>3. ASSUME NEW l \in Handle
      PROVE  Shows(file'[l], disk')
  <2>1. CASE l = h
    BY <1>2, <2>1
  <2>2. CASE l # h
    BY <1>1, <1>2, <2>2 DEF Shows
  <2> QED BY <2>1, <2>2
<1>4. ASSUME NEW k \in Handle, NEW l \in Handle, file'[k] # Closed, file'[k].name = file'[l].name
      PROVE  k = l
  <2>1. CASE k # h /\ l # h
    BY <1>1, <1>2, <1>4, <2>1
  <2>2. CASE k = h /\ l # h
    BY <1>2, <1>4, <2>2
  <2>3. CASE k # h /\ l = h
    <3>1. file[k] # Closed /\ file[k].name = g.name
      BY <1>2, <1>4, <2>3
    <3>2. g # Closed
      <4>1. file[k].name # "none"
        BY <1>1, <3>1, OpenContent, KtfsAssumption
      <4> QED BY <3>1, <4>1 DEF Closed
    <3> QED BY <2>3, <3>1, <3>2
  <2> QED BY <2>1, <2>2, <2>3
<1>5. FilesInv'
  BY <1>3, <1>4 DEF FilesInv, Shows
<1>6. OpenFiles' = [OpenFiles EXCEPT ![h] = View(g)]
  <2>1. OpenFiles = [l \in Handle |-> View(file[l])]
    BY <1>1, ShownIs
  <2>2. OpenFiles' = [l \in Handle |-> View(file'[l])]
    BY ShownNext
  <2> QED BY <1>2, <2>1, <2>2
<1> QED BY <1>5, <1>6

(* A call that changes no handle.                                          *)
LEMMA HandlesKept ==
  ASSUME FilesInv, KtfsInv', file' = file,
         \A l \in Handle :
           file[l] # Closed => Content(disk', file[l].name) = Content(disk, file[l].name)
  PROVE  FilesInv' /\ OpenFiles' = OpenFiles
<1>1. /\ \A l \in Handle : Shows(file[l], disk)
      /\ \A k, l \in Handle : file[k] # Closed /\ file[k].name = file[l].name => k = l
  BY DEF FilesInv
<1>2. \A l \in Handle : Shows(file[l], disk')
  BY <1>1 DEF Shows
<1>3. FilesInv'
  BY <1>1, <1>2 DEF FilesInv, Shows
<1>4. OpenFiles' = OpenFiles
  BY Zenon DEF OpenFiles
<1> QED BY <1>3, <1>4

(* The image is not changed.                                               *)
LEMMA DiskStill ==
  ASSUME disk' = disk
  PROVE  Listed' = Listed /\ Contents' = Contents /\ Full' = Full
<1>1. Listed' = Listed
  BY Zenon DEF Listed
<1>2. Contents' = Contents
  <2>1. \A n : ContentOf(n)' = ContentOf(n)
    BY Zenon DEF ContentOf
  <2> QED BY <2>1, Zenon DEF Contents
<1>3. Full' = Full
  BY Zenon DEF Full
<1> QED BY <1>1, <1>2, <1>3

LEMMA AllStill ==
  ASSUME FilesInv, KtfsInv', disk' = disk, file' = file
  PROVE  FilesInv' /\ Listed' = Listed /\ Contents' = Contents /\ OpenFiles' = OpenFiles
         /\ Full' = Full
BY HandlesKept, DiskStill

(* A handle changes, its file stays.                                       *)
LEMMA HandleMoves ==
  ASSUME FilesInv, KtfsInv', disk' = disk, NEW h \in Handle, NEW g,
         file' = [file EXCEPT ![h] = g], Shows(g, disk),
         g # Closed => \A l \in Handle \ {h} : file[l].name # g.name
  PROVE  /\ FilesInv' /\ Listed' = Listed /\ Contents' = Contents
         /\ OpenFiles' = [OpenFiles EXCEPT ![h] = View(g)]
<1>1. Shows(g, disk')
  BY Zenon
<1> QED BY <1>1, FilesKept, DiskStill

LEMMA Alone ==
  ASSUME FilesInv, NEW h \in Handle, file[h] # Closed
  PROVE  \A l \in Handle \ {h} : file[l].name # file[h].name
BY DEF FilesInv

(* One file is written: its name stays where it is.                        *)
LEMMA FileWritten ==
  ASSUME FilesInv, KtfsInv', NEW h \in Handle, file[h] # Closed, NEW g,
         file' = [file EXCEPT ![h] = g], g.name = file[h].name, NEW c,
         Names(disk') = Names(disk),
         \A m \in Name : Content(disk', m) = IF m = file[h].name THEN c ELSE Content(disk, m),
         g.fileSize = Len(c), g.pos <= g.fileSize
  PROVE  /\ FilesInv' /\ Listed' = Listed
         /\ Contents' = [Contents EXCEPT ![file[h].name] = c]
         /\ OpenFiles' = [OpenFiles EXCEPT ![h] = View(g)]
<1> DEFINE n == file[h].name
<1>1. KtfsInv /\ n \in Name /\ \A l \in Handle \ {h} : file[l].name # n
  BY OpenContent, Alone DEF FilesInv
<1>2. Shows(g, disk')
  BY <1>1 DEF Shows
<1>3. \A l \in Handle \ {h} :
        file[l] # Closed => Content(disk', file[l].name) = Content(disk, file[l].name)
  <2>1. \A l \in Handle : file[l] # Closed => file[l].name \in Name
    BY <1>1, OpenContent
  <2> QED BY <1>1, <2>1
<1>4. \A l \in Handle \ {h} : file[l].name # g.name
  BY <1>1
<1>5. FilesInv' /\ OpenFiles' = [OpenFiles EXCEPT ![h] = View(g)]
  BY <1>2, <1>3, <1>4, FilesKept
<1>6. /\ Listed = Names(disk) /\ Contents = [m \in Name |-> Content(disk, m)]
      /\ Listed' = Names(disk') /\ Contents' = [m \in Name |-> Content(disk', m)]
  BY <1>1, ShownIs, ShownNext
<1> HIDE DEF n
<1>7. Contents' = [Contents EXCEPT ![n] = c]
  BY <1>1, <1>6 DEF n
<1> QED BY <1>5, <1>6, <1>7 DEF n

----------------------------------------------------------------------------
(* The calls, as the client sees them.                                     *)

LEMMA OpenShows ==
  ASSUME FilesInv, KtfsInv', Exclusive, NEW h \in Handle, NEW n \in Name, Open(h, n)
  PROVE  Abstract!Open(h, n) /\ FilesInv'
<1>1. /\ call' = <<"open", h, n>> /\ file[h] = Closed /\ ~IsOpen(n)
      /\ Result(0, <<>>) /\ disk' = disk /\ listing' = listing
  BY DEF Open
<1>2. PICK j \in Found(disk, n) :
        file' = [file EXCEPT ![h] = [name |-> n, inode |-> InodeAt(disk, j), pos |-> 0,
                                     fileSize |-> disk.inode[InodeAt(disk, j)].size]]
  BY Zenon DEF Open, InodeAt
<1> DEFINE i == InodeAt(disk, j)
           g == [name |-> n, inode |-> i, pos |-> 0, fileSize |-> disk.inode[i].size]
<1>3. KtfsInv /\ ImageOK(disk) /\ Forest(disk, disk.imap) /\ Sized(disk, disk.imap)
  BY DEF FilesInv, KtfsInv, ImageOK
<1>4. Content(disk, n) = CellsOf(disk, i) /\ i \in disk.imap
  BY <1>3, ContentIs
<1>5. Len(CellsOf(disk, i)) = disk.inode[i].size /\ disk.inode[i].size \in Nat
  BY <1>3, <1>4, CellsOfType
<1>6. file' = [file EXCEPT ![h] = g] /\ g.name = n /\ View(g) = [name |-> n, pos |-> 0]
  BY <1>2 DEF View
<1>7. Shows(g, disk)
  BY <1>4, <1>5 DEF Shows
<1>8. \A l \in Handle \ {h} : file[l].name # g.name
  BY <1>1 DEF IsOpen
<1> HIDE DEF g
<1>9. /\ FilesInv' /\ Listed' = Listed /\ Contents' = Contents
      /\ OpenFiles' = [OpenFiles EXCEPT ![h] = View(g)]
  BY <1>1, <1>6, <1>7, <1>8, HandleMoves
<1>10. OpenFiles[h] = Abstract!NotOpen
  BY <1>1, <1>3, OpenIs
<1>11. Abstract!Exists(n)
  BY <1>3, ExistsIs
<1>12. Abstract!Result(0, <<>>)
  BY <1>1 DEF Result, Abstract!Result
<1> QED BY <1>1, <1>6, <1>9, <1>10, <1>11, <1>12, Zenon DEF Abstract!Open

LEMMA CloseShows ==
  ASSUME FilesInv, KtfsInv', NEW h \in Handle, Close(h)
  PROVE  Abstract!Close(h) /\ FilesInv'
<1>1. /\ call' = <<"close", h>> /\ file[h] # Closed /\ file' = [file EXCEPT ![h] = Closed]
      /\ Result(0, <<>>) /\ disk' = disk /\ listing' = listing
  BY DEF Close
<1>2. Shows(Closed, disk) /\ View(Closed) = Abstract!NotOpen
  BY DEF Shows, View, Closed, Abstract!NotOpen
<1>3. /\ FilesInv' /\ Listed' = Listed /\ Contents' = Contents
      /\ OpenFiles' = [OpenFiles EXCEPT ![h] = View(Closed)]
  BY <1>1, <1>2, HandleMoves
<1>4. OpenFiles[h] # Abstract!NotOpen
  BY <1>1, OpenIs DEF FilesInv
<1>5. Abstract!Result(0, <<>>)
  BY <1>1 DEF Result, Abstract!Result
<1> QED BY <1>1, <1>2, <1>3, <1>4, <1>5, Zenon DEF Abstract!Close

(* The size of an open file is the length of what the client sees.         *)
LEMMA CellsSeen ==
  ASSUME FilesInv, NEW h \in Handle, file[h] # Closed
  PROVE  /\ Abstract!Cells(h) = CellsOf(disk, file[h].inode)
         /\ Abstract!Cells(h) = Content(disk, file[h].name)
         /\ Contents[file[h].name] = Content(disk, file[h].name)
         /\ Abstract!Cells(h) \in Seq(Cell) /\ Len(Abstract!Cells(h)) = file[h].fileSize
         /\ OpenFiles[h].name = file[h].name /\ OpenFiles[h].pos = file[h].pos
         /\ OpenFiles[h] # Abstract!NotOpen /\ OpenFiles[h] = View(file[h])
         /\ file[h].pos \in Nat /\ file[h].fileSize \in Nat /\ file[h].pos <= file[h].fileSize
         /\ file[h].fileSize = disk.inode[file[h].inode].size
         /\ file[h].name \in Name
<1>1. KtfsInv /\ Shows(file[h], disk) /\ Forest(disk, disk.imap) /\ Sized(disk, disk.imap)
  BY DEF FilesInv, KtfsInv, ImageOK
<1>2. /\ Content(disk, file[h].name) = CellsOf(disk, file[h].inode)
      /\ file[h].name \in Name /\ file[h].inode \in disk.imap
      /\ file[h].pos \in Nat /\ file[h].fileSize \in Nat
  BY <1>1, HandleIs, OpenContent
<1>3. /\ OpenFiles[h].name = file[h].name /\ OpenFiles[h].pos = file[h].pos
      /\ OpenFiles[h] # Abstract!NotOpen /\ OpenFiles[h] = View(file[h])
      /\ Contents = [n \in Name |-> Content(disk, n)]
  BY <1>1, OpenIs, ShownIs
<1>4. /\ Abstract!Cells(h) = Content(disk, file[h].name)
      /\ Contents[file[h].name] = Content(disk, file[h].name)
  BY <1>2, <1>3 DEF Abstract!Cells
<1>5. /\ CellsOf(disk, file[h].inode) \in Seq(Cell)
      /\ Len(CellsOf(disk, file[h].inode)) = disk.inode[file[h].inode].size
  BY <1>1, <1>2, CellsOfType
<1>6. file[h].fileSize = Len(Content(disk, file[h].name)) /\ file[h].pos <= file[h].fileSize
  BY <1>1 DEF Shows
<1> QED BY <1>2, <1>3, <1>4, <1>5, <1>6

LEMMA GetEndShows ==
  ASSUME FilesInv, KtfsInv', NEW h \in Handle, GetEnd(h)
  PROVE  Abstract!GetEnd(h) /\ FilesInv'
<1>1. /\ call' = <<"getend", h>> /\ file[h] # Closed /\ Result(file[h].fileSize, <<>>)
      /\ disk' = disk /\ file' = file /\ listing' = listing
  BY DEF GetEnd
<1>2. FilesInv' /\ Listed' = Listed /\ Contents' = Contents /\ OpenFiles' = OpenFiles
  BY <1>1, AllStill
<1>3. OpenFiles[h] # Abstract!NotOpen /\ Len(Abstract!Cells(h)) = file[h].fileSize
  BY <1>1, CellsSeen
<1>4. Abstract!Result(Len(Abstract!Cells(h)), <<>>)
  BY <1>1, <1>3, Zenon DEF Result, Abstract!Result
<1> QED BY <1>1, <1>2, <1>3, <1>4, Zenon DEF Abstract!GetEnd

LEMMA GetPosShows ==
  ASSUME FilesInv, KtfsInv', NEW h \in Handle, GetPos(h)
  PROVE  Abstract!GetPos(h) /\ FilesInv'
<1>1. /\ call' = <<"getpos", h>> /\ file[h] # Closed /\ Result(file[h].pos, <<>>)
      /\ disk' = disk /\ file' = file /\ listing' = listing
  BY DEF GetPos
<1>2. FilesInv' /\ Listed' = Listed /\ Contents' = Contents /\ OpenFiles' = OpenFiles
  BY <1>1, AllStill
<1>3. OpenFiles[h] # Abstract!NotOpen /\ OpenFiles[h].pos = file[h].pos
  BY <1>1, CellsSeen
<1>4. Abstract!Result(OpenFiles[h].pos, <<>>)
  BY <1>1, <1>3, Zenon DEF Result, Abstract!Result
<1> QED BY <1>1, <1>2, <1>3, <1>4, Zenon DEF Abstract!GetPos

(* A handle with another position.                                         *)
LEMMA PositionMoves ==
  ASSUME FilesInv, KtfsInv', disk' = disk, NEW h \in Handle, file[h] # Closed,
         NEW p \in Nat, p <= file[h].fileSize, file' = [file EXCEPT ![h].pos = p]
  PROVE  /\ FilesInv' /\ Listed' = Listed /\ Contents' = Contents
         /\ OpenFiles' = [OpenFiles EXCEPT ![h].pos = p]
<1> DEFINE g == [file[h] EXCEPT !.pos = p]
<1>1. /\ KtfsInv /\ file[h] \in FileType /\ Shows(file[h], disk)
      /\ OpenFiles[h] = View(file[h]) /\ OpenFiles = [l \in Handle |-> View(file[l])]
      /\ file \in [Handle -> FileType]
  BY OpenIs, InvIs DEF FilesInv
<1>2. /\ g.name = file[h].name /\ g.pos = p /\ g.fileSize = file[h].fileSize
  BY <1>1 DEF FileType
<1>3. file' = [file EXCEPT ![h] = g]
  BY Zenon
<1> HIDE DEF g
<1>4. Shows(g, disk)
  BY <1>1, <1>2 DEF Shows
<1>5. \A l \in Handle \ {h} : file[l].name # g.name
  BY <1>2, Alone
<1>6. /\ FilesInv' /\ Listed' = Listed /\ Contents' = Contents
      /\ OpenFiles' = [OpenFiles EXCEPT ![h] = View(g)]
  BY <1>3, <1>4, <1>5, HandleMoves
<1>7. View(g) = [OpenFiles[h] EXCEPT !.pos = p]
  BY <1>1, <1>2 DEF View
<1>8. OpenFiles' = [OpenFiles EXCEPT ![h].pos = p]
  BY <1>6, <1>7, Zenon
<1> QED BY <1>6, <1>8

LEMMA PartIs ==
  ASSUME NEW S, NEW s \in Seq(S), NEW p \in Nat, NEW q \in Nat, p <= q, q <= Len(s)
  PROVE  SubSeq(s, p + 1, q) = [k \in 1 .. q - p |-> s[p + k]]
<1> DEFINE o == SubSeq(s, p + 1, q)
<1>1. o \in Seq(S) /\ Len(o) = q - p
  OBVIOUS
<1>2. \A k \in 1 .. q - p : o[k] = s[p + k]
  OBVIOUS
<1>3. DOMAIN o = 1 .. q - p /\ o = [k \in DOMAIN o |-> o[k]]
  BY <1>1
<1> QED BY <1>2, <1>3

LEMMA FetchShows ==
  ASSUME FilesInv, KtfsInv', NEW h \in Handle, NEW len \in Nat, Fetch(h, len)
  PROVE  Abstract!Fetch(h, len) /\ FilesInv'
<1> DEFINE p   == file[h].pos
           z   == file[h].fileSize
           i   == file[h].inode
           n   == IF p >= z THEN 0 ELSE Lesser(len, z - p)
           s   == Abstract!Cells(h)
           q   == IF p + len < Len(s) THEN p + len ELSE Len(s)
           r   == p + n
           out == [k \in 1 .. n |-> CellOf(disk, i, p + k - 1)]
<1>1. /\ call' = <<"fetch", h, len>> /\ file[h] # Closed /\ disk' = disk /\ listing' = listing
      /\ file' = [file EXCEPT ![h].pos = r] /\ Result(n, out)
  BY Zenon DEF Fetch
<1>2. /\ s = CellsOf(disk, i) /\ s \in Seq(Cell) /\ Len(s) = z
      /\ p \in Nat /\ z \in Nat /\ p <= z /\ z = disk.inode[i].size
      /\ OpenFiles[h] # Abstract!NotOpen /\ OpenFiles[h].pos = p
  BY <1>1, CellsSeen
<1>3. /\ Forest(disk, disk.imap) /\ Sized(disk, disk.imap) /\ i \in disk.imap
      /\ p = file[h].pos /\ z = file[h].fileSize
  BY <1>1, HandleIs DEF FilesInv, KtfsInv, ImageOK
<1> HIDE DEF p, z, i, s
<1>4. \A k \in 1 .. z : s[k] = CellOf(disk, i, k - 1)
  BY <1>2, <1>3, CellsOfType
<1>5. /\ n \in Nat /\ n = q - p /\ q \in Nat /\ p <= q /\ q <= Len(s)
      /\ r \in Nat /\ r <= z
  <2>1. q = IF p + len < z THEN p + len ELSE z
    BY <1>2
  <2>2. n = IF p >= z THEN 0 ELSE IF len <= z - p THEN len ELSE z - p
    BY DEF Lesser
  <2>3. p \in Nat /\ z \in Nat /\ p <= z /\ Len(s) = z /\ r = p + n
    BY <1>2
  <2> HIDE DEF n, q, r
  <2>4. n \in Nat /\ n = q - p /\ q \in Nat /\ p <= q /\ q <= z
    BY <2>1, <2>2, <2>3
  <2> QED BY <2>3, <2>4
<1>6. /\ r = p + n /\ out = [k \in 1 .. n |-> CellOf(disk, i, p + k - 1)]
      /\ q = IF p + len < Len(s) THEN p + len ELSE Len(s)
  OBVIOUS
<1> HIDE DEF n, q, r, out
<1>7. SubSeq(s, p + 1, q) = out /\ Len(SubSeq(s, p + 1, q)) = n
  <2>1. SubSeq(s, p + 1, q) = [k \in 1 .. q - p |-> s[p + k]]
    BY <1>2, <1>5, PartIs
  <2>2. ASSUME NEW k \in 1 .. n
        PROVE  s[p + k] = CellOf(disk, i, p + k - 1)
    <3>1. p + k \in 1 .. z
      BY <1>2, <1>5
    <3>2. PICK x \in 1 .. z : x = p + k
      BY <3>1
    <3>3. s[x] = CellOf(disk, i, x - 1)
      BY <1>4
    <3>4. x - 1 = p + k - 1
      BY <1>2, <1>5, <3>2
    <3> QED BY ONLY <3>2, <3>3, <3>4, Zenon
  <2>3. SubSeq(s, p + 1, q) = out
    BY <1>5, <1>6, <2>1, <2>2
  <2>4. Len(SubSeq(s, p + 1, q)) = q - p
    BY <1>2, <1>5
  <2> QED BY <1>5, <2>3, <2>4
<1>8. /\ FilesInv' /\ Listed' = Listed /\ Contents' = Contents
      /\ OpenFiles' = [OpenFiles EXCEPT ![h].pos = r]
  BY <1>1, <1>3, <1>5, PositionMoves
<1>9. OpenFiles' = [OpenFiles EXCEPT ![h].pos = @ + n]
  BY <1>2, <1>6, <1>8
<1>10. Abstract!Result(n, out)
  BY <1>1, Zenon DEF Result, Abstract!Result
<1> DEFINE o == SubSeq(s, OpenFiles[h].pos + 1,
                       IF OpenFiles[h].pos + len < Len(s) THEN OpenFiles[h].pos + len ELSE Len(s))
<1>11. o = out /\ Len(o) = n
  BY <1>2, <1>6, <1>7
<1> HIDE DEF o
<1>12. Abstract!Result(Len(o), o) /\ OpenFiles' = [OpenFiles EXCEPT ![h].pos = @ + Len(o)]
  BY <1>9, <1>10, <1>11
<1> QED BY <1>1, <1>2, <1>8, <1>12, Zenon DEF Abstract!Fetch, o, s

LEMMA SetPosShows ==
  ASSUME FilesInv, KtfsInv', NEW h \in Handle, NEW pos \in Nat, SetPos(h, pos)
  PROVE  Abstract!SetPos(h, pos) /\ FilesInv'
<1>1. /\ call' = <<"setpos", h, pos>> /\ file[h] # Closed /\ disk' = disk /\ listing' = listing
  BY DEF SetPos
<1>2. /\ OpenFiles[h] # Abstract!NotOpen /\ Len(Abstract!Cells(h)) = file[h].fileSize
  BY <1>1, CellsSeen
<1>3. CASE pos <= file[h].fileSize
  <2>1. file' = [file EXCEPT ![h].pos = pos] /\ Result(0, <<>>)
    BY <1>3 DEF SetPos
  <2>2. /\ FilesInv' /\ Listed' = Listed /\ Contents' = Contents
        /\ OpenFiles' = [OpenFiles EXCEPT ![h].pos = pos]
    BY <1>1, <1>3, <2>1, PositionMoves
  <2>3. Abstract!Result(0, <<>>)
    BY <2>1 DEF Result, Abstract!Result
  <2>4. pos <= Len(Abstract!Cells(h))
    BY <1>2, <1>3
  <2> QED BY <1>1, <1>2, <2>2, <2>3, <2>4, Zenon DEF Abstract!SetPos
<1>4. CASE ~(pos <= file[h].fileSize)
  <2>1. file' = file /\ Result(ERR, <<>>)
    BY <1>4 DEF SetPos
  <2>2. FilesInv' /\ Listed' = Listed /\ Contents' = Contents /\ OpenFiles' = OpenFiles
    BY <1>1, <2>1, AllStill
  <2>3. Abstract!Result(Abstract!ERR, <<>>)
    BY <2>1 DEF Result, Abstract!Result, ERR, Abstract!ERR
  <2>4. ~(pos <= Len(Abstract!Cells(h)))
    BY <1>2, <1>4
  <2> QED BY <1>1, <1>2, <2>2, <2>3, <2>4, Zenon DEF Abstract!SetPos
<1> QED BY <1>3, <1>4

LEMMA NoEntryShows ==
  ASSUME FilesInv, KtfsInv', NEW n \in Name, NoEntry(n)
  PROVE  Abstract!NoEntry(n) /\ FilesInv'
<1>1. /\ Found(disk, n) = {} /\ Result(ERR, <<>>)
      /\ disk' = disk /\ file' = file /\ listing' = listing
  BY DEF NoEntry
<1>2. \/ call' = <<"delete", n>>
      \/ \E h \in Handle : OpenFiles[h] = Abstract!NotOpen /\ call' = <<"open", h, n>>
  BY OpenIs DEF NoEntry, FilesInv
<1>3. FilesInv' /\ Listed' = Listed /\ Contents' = Contents /\ OpenFiles' = OpenFiles
  BY <1>1, AllStill
<1>4. ~Abstract!Exists(n)
  BY <1>1, ExistsIs DEF FilesInv
<1>5. Abstract!Result(Abstract!ERR, <<>>)
  BY <1>1 DEF Result, Abstract!Result, ERR, Abstract!ERR
<1> QED BY <1>1, <1>2, <1>3, <1>4, <1>5, Zenon DEF Abstract!NoEntry

LEMMA CreateRefusedShows ==
  ASSUME FilesInv, KtfsInv', NEW n \in Name, CreateRefused(n)
  PROVE  Abstract!CreateFails(n) /\ FilesInv'
<1>1. /\ call' = <<"create", n>> /\ Result(ERR, <<>>)
      /\ Found(disk, n) # {} \/ disk.imap = Inode
      /\ disk' = disk /\ file' = file /\ listing' = listing
  BY DEF CreateRefused
<1>2. /\ FilesInv' /\ Listed' = Listed /\ Contents' = Contents /\ OpenFiles' = OpenFiles
      /\ Full' = Full
  BY <1>1, AllStill
<1>3. Abstract!Exists(n) <=> Found(disk, n) # {}
  BY ExistsIs DEF FilesInv
<1>4. Abstract!Result(Abstract!ERR, <<>>)
  BY <1>1 DEF Result, Abstract!Result, ERR, Abstract!ERR
<1>5. disk.imap = Inode => Full'
  BY <1>2 DEF Full
<1>6. \/ Abstract!Exists(n) /\ Abstract!Result(Abstract!ERR, <<>>)
      \/ /\ Full' /\ ~Abstract!Exists(n)
         /\ \E rc \in {0, Abstract!ERR} : Abstract!Result(rc, <<>>)
  BY <1>1, <1>3, <1>4, <1>5
<1> QED BY <1>1, <1>2, <1>6, Zenon DEF Abstract!CreateFails

LEMMA SetEndTooLongShows ==
  ASSUME FilesInv, KtfsInv', NEW h \in Handle, NEW size \in Nat, SetEndTooLong(h, size)
  PROVE  Abstract!SetEndFails(h, size) /\ FilesInv'
<1>1. /\ call' = <<"setend", h, size>> /\ file[h] # Closed /\ size > KTFS_MAX_FILE_SIZE
      /\ Result(ERR, <<>>) /\ disk' = disk /\ file' = file /\ listing' = listing
  BY DEF SetEndTooLong
<1>2. FilesInv' /\ Listed' = Listed /\ Contents' = Contents /\ OpenFiles' = OpenFiles
  BY <1>1, AllStill
<1>3. OpenFiles[h] # Abstract!NotOpen
  BY <1>1, CellsSeen
<1>4. Abstract!Result(Abstract!ERR, <<>>)
  BY <1>1 DEF Result, Abstract!Result, ERR, Abstract!ERR
<1> QED BY <1>1, <1>2, <1>3, <1>4, Zenon DEF Abstract!SetEndFails

LEMMA ListingShows ==
  ASSUME FilesInv, KtfsInv'
  PROVE  /\ OpenListing => Abstract!OpenListing /\ FilesInv'
         /\ ReadListing => Abstract!ReadListing /\ FilesInv'
         /\ CloseListing => Abstract!CloseListing /\ FilesInv'
<1>1. ASSUME OpenListing
      PROVE  Abstract!OpenListing /\ FilesInv'
  <2>1. /\ FilesInv' /\ Listed' = Listed /\ Contents' = Contents /\ OpenFiles' = OpenFiles
    BY <1>1, AllStill DEF OpenListing
  <2> QED BY <1>1, <2>1 DEF OpenListing, Abstract!OpenListing, Result, Abstract!Result,
                            NoListing, Abstract!NoListing
<1>2. ASSUME CloseListing
      PROVE  Abstract!CloseListing /\ FilesInv'
  <2>1. /\ FilesInv' /\ Listed' = Listed /\ Contents' = Contents /\ OpenFiles' = OpenFiles
    BY <1>2, AllStill DEF CloseListing
  <2> QED BY <1>2, <2>1 DEF CloseListing, Abstract!CloseListing, Result, Abstract!Result,
                            NoListing, Abstract!NoListing
<1>3. ASSUME ReadListing
      PROVE  Abstract!ReadListing /\ FilesInv'
  <2>1. /\ FilesInv' /\ Listed' = Listed /\ Contents' = Contents /\ OpenFiles' = OpenFiles
    BY <1>3, AllStill DEF ReadListing
  <2>2. /\ ImageOK(disk) /\ Listed = Names(disk) /\ listing \in Nat
        /\ listing # Abstract!NoListing /\ call' = <<"readlisting">>
    BY <1>3, ShownIs DEF FilesInv, KtfsInv, ReadListing, NoListing, Abstract!NoListing
  <2>3. /\ Len(Listed) = Count(disk) /\ Count(disk) \in Nat
        /\ \A k \in 1 .. Count(disk) : Listed[k] = EntryAt(disk, k - 1)[3]
        /\ Entries(disk) = 0 .. Count(disk) - 1
    BY <2>2, NamesAre
  <2>4. CASE listing \in Entries(disk)
    <3>1. Result(1, <<EntryAt(disk, listing)[3]>>) /\ listing' = listing + 1
      BY <1>3, <2>4 DEF ReadListing
    <3>2. listing < Len(Listed) /\ listing + 1 \in 1 .. Count(disk) /\ (listing + 1) - 1 = listing
      BY <2>2, <2>3, <2>4
    <3>3. Listed[listing + 1] = EntryAt(disk, listing)[3]
      BY <2>3, <3>2
    <3>4. Abstract!Result(1, <<Listed[listing + 1]>>)
      BY <3>1, <3>3, Zenon DEF Result, Abstract!Result
    <3> QED BY <2>1, <2>2, <3>1, <3>2, <3>4, Zenon DEF Abstract!ReadListing
  <2>5. CASE listing \notin Entries(disk)
    <3>1. Result(0, <<>>) /\ listing' = listing
      BY <1>3, <2>5 DEF ReadListing
    <3>2. ~(listing < Len(Listed))
      BY <2>2, <2>3, <2>5
    <3>3. Abstract!Result(0, <<>>)
      BY <3>1 DEF Result, Abstract!Result
    <3> QED BY <2>1, <2>2, <3>1, <3>2, <3>3, Zenon DEF Abstract!ReadListing
  <2> QED BY <2>4, <2>5
<1> QED BY <1>1, <1>2, <1>3

(* The image after a call that writes to an open file.                     *)
LEMMA ImageWritten ==
  ASSUME FilesInv, KtfsInv', NEW h \in Handle, file[h] # Closed, NEW I, I = disk.imap,
         Keeps(disk, disk', I, file[h].inode, I \ {file[h].inode})
  PROVE  /\ Names(disk') = Names(disk)
         /\ \A m \in Name :
              Content(disk', m) = IF m = file[h].name THEN CellsOf(disk', file[h].inode)
                                  ELSE Content(disk, m)
         /\ CellsOf(disk', file[h].inode) \in Seq(Cell)
         /\ Len(CellsOf(disk', file[h].inode)) = disk'.inode[file[h].inode].size
<1> DEFINE i == file[h].inode
           n == file[h].name
<1>1. /\ KtfsInv /\ ImageOK(disk) /\ ImageOK(disk') /\ i \in disk.imap \ {ROOT} /\ n \in Name
      /\ Forest(disk', disk'.imap) /\ Sized(disk', disk'.imap)
  BY HandleIs DEF FilesInv, KtfsInv, ImageOK
<1>2. PICK j \in Entries(disk) : EntryAt(disk, j) = Dentry(i, n)
  BY <1>1, OpenContent
<1>3. Keeps(disk, disk', I, i, I \ {i})
  OBVIOUS
<1>4. i \in disk'.imap
  BY <1>1 DEF Keeps
<1>5. /\ CellsOf(disk', i) \in Seq(Cell) /\ Len(CellsOf(disk', i)) = disk'.inode[i].size
  BY <1>1, <1>4, CellsOfType
<1> HIDE DEF i, n
<1>6. /\ Names(disk') = Names(disk)
      /\ \A m \in Name : Content(disk', m) = IF m = n THEN CellsOf(disk', i) ELSE Content(disk, m)
  BY <1>1, <1>2, <1>3, WriteContents
<1> QED BY <1>5, <1>6 DEF i, n

LEMMA OverwriteIs ==
  ASSUME NEW s \in Seq(Cell), NEW p \in Nat, NEW n \in Nat, p <= Len(s), NEW v \in Cell
  PROVE  /\ Abstract!Overwrite(s, p, n, v) \in Seq(Cell)
         /\ Len(s) <= Len(Abstract!Overwrite(s, p, n, v))
         /\ p + n <= Len(Abstract!Overwrite(s, p, n, v))
<1> DEFINE o == Abstract!Overwrite(s, p, n, v)
           m == IF p + n > Len(s) THEN p + n ELSE Len(s)
<1>1. m \in Nat /\ Len(s) <= m /\ p + n <= m
  OBVIOUS
<1>2. o = [k \in 1 .. m |-> IF k \in p + 1 .. p + n THEN v ELSE s[k]]
  BY Zenon DEF Abstract!Overwrite
<1>3. ASSUME NEW k \in 1 .. m, k \notin p + 1 .. p + n
      PROVE  s[k] \in Cell
  <2>1. k \in 1 .. Len(s)
    BY <1>3
  <2> QED BY <2>1
<1> HIDE DEF m, o
<1>4. o \in [1 .. m -> Cell]
  BY <1>2, <1>3
<1>5. o \in Seq(Cell) /\ Len(o) = m
  BY <1>1, <1>4
<1> QED BY <1>1, <1>5 DEF o

LEMMA StoreShows ==
  ASSUME FilesInv, KtfsInv', NEW h \in Handle, NEW len \in Nat, Store(h, len)
  PROVE  Abstract!Store(h, len) /\ FilesInv'
<1> DEFINE f == file[h]
           i == f.inode
           I == disk.imap
           u == Written(f, len)
           v == Data(f.name)
           c == CellsOf(disk', i)
           size == disk'.inode[i].size
           pos  == f.pos + len
           g == [f EXCEPT !.pos = pos, !.fileSize = size]
<1>1. /\ call' = <<"store", h, len>> /\ f # Closed /\ len > 0 /\ u.ok /\ disk' = u.d
      /\ file' = [file EXCEPT ![h].pos = pos, ![h].fileSize = size]
      /\ Result(len, <<>>) /\ listing' = listing
  BY Zenon DEF Store
<1>2. /\ KtfsInv /\ Forest(disk, I) /\ Sized(disk, I) /\ i \in I /\ f.name \in Name
      /\ f.pos \in Nat /\ len \in Nat \ {0} /\ f.pos <= disk.inode[i].size
      /\ f \in FileType /\ file \in [Handle -> FileType]
      /\ OpenFiles = [l \in Handle |-> View(file[l])] /\ OpenFiles[h] = View(f)
  <2>1. KtfsInv /\ file \in [Handle -> FileType]
    BY InvIs DEF FilesInv
  <2>2. Forest(disk, I) /\ Sized(disk, I) /\ i \in I
    BY <1>1, <2>1, HandleIs DEF KtfsInv, ImageOK
  <2>3. /\ f.name \in Name /\ f.pos \in Nat /\ f.pos <= disk.inode[i].size /\ OpenFiles[h] = View(f)
    BY <1>1, CellsSeen
  <2>4. OpenFiles = [l \in Handle |-> View(file[l])]
    BY <2>1, OpenIs
  <2>5. len \in Nat \ {0} /\ f \in FileType
    BY <1>1, <2>1
  <2> QED BY <2>1, <2>2, <2>3, <2>4, <2>5
<1>3. /\ Abstract!Cells(h) = CellsOf(disk, i) /\ CellsOf(disk, i) \in Seq(Cell)
      /\ Contents[f.name] = CellsOf(disk, i)
      /\ OpenFiles[h] # Abstract!NotOpen /\ OpenFiles[h].name = f.name
      /\ OpenFiles[h].pos = f.pos /\ Len(CellsOf(disk, i)) = disk.inode[i].size
  BY <1>1, CellsSeen
<1>4. WriteShows(disk, u, i, f.pos, len, v) /\ Write(disk, u, I, i)
  <2> HIDE DEF f
  <2> QED BY <1>2, WrittenShows, WrittenGrows
<1>5. Keeps(disk, disk', I, i, I \ {i})
  BY <1>1, <1>4 DEF Write
<1>6. c = Abstract!Overwrite(CellsOf(disk, i), f.pos, len, v)
  BY <1>1, <1>4 DEF WriteShows
<1>7. /\ Names(disk') = Names(disk)
      /\ \A m \in Name : Content(disk', m) = IF m = f.name THEN c ELSE Content(disk, m)
      /\ c \in Seq(Cell) /\ Len(c) = size
  BY <1>1, <1>5, ImageWritten
<1>8. pos <= size
  <2>1. v \in Cell /\ f.pos <= Len(CellsOf(disk, i)) /\ len \in Nat
    BY <1>2, <1>3, CellTypes
  <2>2. pos <= Len(Abstract!Overwrite(CellsOf(disk, i), f.pos, len, v))
    <3>1. f.pos \in Nat /\ CellsOf(disk, i) \in Seq(Cell)
      BY <1>2, <1>3
    <3> HIDE DEF f, i, v
    <3> QED BY <2>1, <3>1, OverwriteIs
  <2> QED BY <1>6, <1>7, <2>2, Zenon
<1>9. g.name = f.name /\ g.pos = pos /\ g.fileSize = size
  BY <1>2 DEF FileType
<1>10. file' = [file EXCEPT ![h] = g]
  BY <1>1, Zenon
<1> HIDE DEF g, c, size
<1>11. /\ FilesInv' /\ Listed' = Listed
       /\ Contents' = [Contents EXCEPT ![f.name] = c]
       /\ OpenFiles' = [OpenFiles EXCEPT ![h] = View(g)]
  <2>1. /\ file[h] # Closed /\ g.name = file[h].name /\ g.fileSize = Len(c)
        /\ g.pos <= g.fileSize /\ Names(disk') = Names(disk)
        /\ \A m \in Name : Content(disk', m) = IF m = file[h].name THEN c ELSE Content(disk, m)
    <3> HIDE DEF pos
    <3> QED BY <1>1, <1>7, <1>8, <1>9, Zenon
  <2> QED BY <1>10, <2>1, FileWritten
<1>12. OpenFiles' = [OpenFiles EXCEPT ![h].pos = @ + len]
  <2>1. View(g) = [OpenFiles[h] EXCEPT !.pos = pos]
    BY <1>2, <1>9 DEF View
  <2>2. OpenFiles[h].pos + len = pos
    BY <1>3
  <2> QED BY <1>11, <2>1, <2>2, Zenon
<1>13. Contents' = [Contents EXCEPT ![OpenFiles[h].name] =
                      Abstract!Overwrite(@, OpenFiles[h].pos, len,
                                         Abstract!Data(OpenFiles[h].name))]
  <2>1. Abstract!Data(OpenFiles[h].name) = v
    BY <1>3 DEF Abstract!Data, Data
  <2>2. Abstract!Overwrite(Contents[OpenFiles[h].name], OpenFiles[h].pos, len,
                           Abstract!Data(OpenFiles[h].name)) = c
    BY <1>3, <1>6, <2>1
  <2> QED BY <1>3, <1>11, <2>2
<1>14. Abstract!Result(len, <<>>)
  BY <1>1 DEF Result, Abstract!Result
<1> HIDE DEF f
<1> QED BY <1>1, <1>3, <1>11, <1>12, <1>13, <1>14, Zenon DEF Abstract!Store

LEMMA StoreNothingShows ==
  ASSUME FilesInv, KtfsInv', NEW h \in Handle, StoreNothing(h), NEW zero, zero = 0
  PROVE  Abstract!Store(h, zero) /\ FilesInv'
<1> DEFINE n == file[h].name
           s == Content(disk, n)
           p == file[h].pos
<1>1. /\ call' = <<"store", h, zero>> /\ file[h] # Closed /\ Result(zero, <<>>)
      /\ disk' = disk /\ file' = file /\ listing' = listing
  BY DEF StoreNothing
<1>2. /\ FilesInv' /\ Listed' = Listed /\ Contents' = Contents /\ OpenFiles' = OpenFiles
  BY <1>1, AllStill
<1>3. /\ n \in Name /\ Contents[n] = s /\ s \in Seq(Cell) /\ p \in Nat /\ p <= Len(s)
      /\ OpenFiles[h] # Abstract!NotOpen /\ OpenFiles[h].name = n /\ OpenFiles[h].pos = p
      /\ OpenFiles[h] = View(file[h]) /\ OpenFiles = [l \in Handle |-> View(file[l])]
      /\ Contents = [m \in Name |-> Content(disk, m)]
  BY <1>1, CellsSeen, OpenIs, ShownIs DEF FilesInv
<1> HIDE DEF n, s, p
<1>4. \A v : Abstract!Overwrite(s, p, zero, v) = s
  <2> TAKE v
  <2>1. Abstract!Overwrite(s, p, zero, v)
          = [k \in 1 .. (IF p + zero > Len(s) THEN p + zero ELSE Len(s)) |->
               IF k \in p + 1 .. p + zero THEN v ELSE s[k]]
    BY Zenon DEF Abstract!Overwrite
  <2>2. (IF p + zero > Len(s) THEN p + zero ELSE Len(s)) = Len(s) /\ p + 1 .. p + zero = {}
    BY <1>3
  <2>3. Abstract!Overwrite(s, p, zero, v) = [k \in 1 .. Len(s) |-> s[k]]
    BY <2>1, <2>2
  <2>4. s = [k \in 1 .. Len(s) |-> s[k]]
    BY <1>3
  <2> QED BY <2>3, <2>4
<1>5. Contents' = [Contents EXCEPT ![OpenFiles[h].name] =
                     Abstract!Overwrite(@, OpenFiles[h].pos, zero,
                                        Abstract!Data(OpenFiles[h].name))]
  <2>1. Contents' = [Contents EXCEPT ![n] = s]
    BY <1>2, <1>3
  <2> QED BY <1>3, <1>4, <2>1
<1>6. OpenFiles' = [OpenFiles EXCEPT ![h].pos = @ + zero]
  <2>1. View(file[h]) = [name |-> file[h].name, pos |-> file[h].pos] /\ p + zero = p
    BY <1>3 DEF View
  <2>2. [OpenFiles[h] EXCEPT !.pos = p + zero] = View(file[h])
    BY <1>3, <2>1 DEF p
  <2>3. [OpenFiles EXCEPT ![h] = View(file[h])] = OpenFiles
    BY <1>3
  <2> QED BY <1>2, <1>3, <2>2, <2>3, Zenon
<1>7. Abstract!Result(zero, <<>>)
  BY <1>1 DEF Result, Abstract!Result
<1> QED BY <1>1, <1>2, <1>3, <1>5, <1>6, <1>7, Zenon DEF Abstract!Store

(* A call that fails leaves the handle as it was.                          *)
LEMMA StoreNoBlockShows ==
  ASSUME FilesInv, KtfsInv', NEW h \in Handle, NEW len \in Nat, StoreNoBlock(h, len)
  PROVE  Abstract!StoreFails(h, len) /\ FilesInv'
<1> DEFINE f   == file[h]
           i   == f.inode
           I   == disk.imap
           u   == Written(f, len)
           v   == Data(f.name)
           c   == CellsOf(disk', i)
           old == CellsOf(disk, i)
<1>1. /\ call' = <<"store", h, len>> /\ f # Closed /\ len > 0 /\ ~u.ok /\ disk' = u.d
      /\ Result(ERR, <<>>) /\ listing' = listing /\ file' = file
  BY Zenon DEF StoreNoBlock
<1>2. /\ f.name \in Name /\ f.pos \in Nat /\ old \in Seq(Cell) /\ Len(old) = f.fileSize
      /\ f.pos <= f.fileSize /\ f.fileSize = disk.inode[i].size /\ f.fileSize \in Nat
      /\ OpenFiles[h] # Abstract!NotOpen /\ OpenFiles[h].name = f.name /\ OpenFiles[h].pos = f.pos
      /\ Contents[f.name] = old
  BY <1>1, CellsSeen
<1>3. KtfsInv /\ file \in [Handle -> FileType]
  BY InvIs DEF FilesInv
<1>4. Forest(disk, I) /\ Sized(disk, I) /\ i \in I /\ len \in Nat \ {0}
  BY <1>1, <1>3, HandleIs DEF KtfsInv, ImageOK
<1>5. WriteShows(disk, u, i, f.pos, len, v) /\ Write(disk, u, I, i)
  <2> HIDE DEF f
  <2> QED BY <1>2, <1>4, WrittenShows, WrittenGrows
<1>6. Keeps(disk, disk', I, i, I \ {i})
  BY <1>1, <1>5 DEF Write
<1>7. PICK k \in 0 .. len - 1 : c = SubSeq(Abstract!Overwrite(old, f.pos, k, v), 1, Len(old))
  BY <1>1, <1>5 DEF WriteShows
<1>8. Full' \/ f.pos + len > KTFS_MAX_FILE_SIZE
  BY <1>1, <1>5 DEF WriteShows, Full
<1>9. /\ Names(disk') = Names(disk)
      /\ \A m \in Name : Content(disk', m) = IF m = f.name THEN c ELSE Content(disk, m)
  BY <1>1, <1>6, ImageWritten
<1>10. Len(c) = f.fileSize
  <2> DEFINE o == Abstract!Overwrite(old, f.pos, k, v)
  <2>1. v \in Cell /\ k \in Nat
    BY <1>2, CellTypes
  <2>2. o \in Seq(Cell) /\ Len(old) <= Len(o)
    <3>1. f.pos \in Nat /\ f.pos <= Len(old) /\ old \in Seq(Cell)
      BY <1>2
    <3> HIDE DEF f, old, v
    <3> QED BY <2>1, <3>1, OverwriteIs
  <2>3. Len(old) \in Nat
    BY <1>2
  <2> HIDE DEF o
  <2>4. Len(SubSeq(o, 1, Len(old))) = Len(old)
    BY <2>2, <2>3
  <2> QED BY <1>2, <1>7, <2>4 DEF o
<1>11. file' = [file EXCEPT ![h] = f]
  BY <1>1, <1>3
<1> HIDE DEF c, f
<1>12. /\ FilesInv' /\ Listed' = Listed /\ Contents' = [Contents EXCEPT ![file[h].name] = c]
  <2>1. /\ file[h] # Closed /\ f.name = file[h].name /\ f.fileSize = Len(c) /\ f.pos <= f.fileSize
        /\ \A m \in Name : Content(disk', m) = IF m = file[h].name THEN c ELSE Content(disk, m)
    BY <1>1, <1>2, <1>9, <1>10, Zenon DEF f
  <2> QED BY <1>9, <1>11, <2>1, FileWritten
<1>13. OpenFiles' = OpenFiles
  BY <1>1, Zenon DEF OpenFiles
<1>14. \E n \in 0 .. len - 1 :
         Contents' = [Contents EXCEPT ![OpenFiles[h].name] =
           SubSeq(Abstract!Overwrite(@, OpenFiles[h].pos, n, Abstract!Data(OpenFiles[h].name)),
                  1, Len(@))]
  <2>1. Abstract!Data(OpenFiles[h].name) = v
    BY <1>2 DEF Abstract!Data, Data
  <2>2. Contents' = [Contents EXCEPT ![f.name] = c]
    BY <1>12 DEF f
  <2> HIDE DEF v, old
  <2> QED BY <1>2, <1>7, <2>1, <2>2
<1>15. Abstract!Result(Abstract!ERR, <<>>)
  BY <1>1 DEF Result, Abstract!Result, ERR, Abstract!ERR
<1>16. Full' \/ OpenFiles[h].pos + len > KTFS_MAX_FILE_SIZE
  BY <1>2, <1>8
<1> QED BY <1>1, <1>2, <1>12, <1>13, <1>14, <1>15, <1>16, Zenon DEF Abstract!StoreFails

(* A call that changes the image and no handle: the content of a file that *)
(* is not n stays.                                                         *)
LEMMA ImageShows ==
  ASSUME FilesInv, KtfsInv', file' = file, NEW n, ~IsOpen(n), NEW c,
         \A m \in Name : Content(disk', m) = IF m = n THEN c ELSE Content(disk, m)
  PROVE  /\ FilesInv' /\ OpenFiles' = OpenFiles /\ Contents' = [Contents EXCEPT ![n] = c]
         /\ Listed = Names(disk) /\ Listed' = Names(disk')
<1>1. KtfsInv
  BY DEF FilesInv
<1>2. ASSUME NEW l \in Handle, file[l] # Closed
      PROVE  Content(disk', file[l].name) = Content(disk, file[l].name)
  <2>1. file[l].name \in Name /\ file[l].name # n
    BY <1>1, <1>2, OpenContent DEF IsOpen
  <2> QED BY <2>1
<1>3. FilesInv' /\ OpenFiles' = OpenFiles
  BY <1>2, HandlesKept
<1>4. /\ Listed = Names(disk) /\ Contents = [m \in Name |-> Content(disk, m)]
      /\ Listed' = Names(disk') /\ Contents' = [m \in Name |-> Content(disk', m)]
  BY <1>1, ShownIs, ShownNext
<1>5. Contents' = [Contents EXCEPT ![n] = c]
  BY <1>4
<1> QED BY <1>3, <1>4, <1>5

(* The same for a call that changes no content.                            *)
LEMMA NothingShows ==
  ASSUME FilesInv, KtfsInv', file' = file,
         \A m \in Name : Content(disk', m) = Content(disk, m)
  PROVE  /\ FilesInv' /\ OpenFiles' = OpenFiles /\ Contents' = Contents
         /\ Listed = Names(disk) /\ Listed' = Names(disk')
<1>1. KtfsInv
  BY DEF FilesInv
<1>2. \A l \in Handle : file[l] # Closed => file[l].name \in Name
  BY <1>1, OpenContent
<1>3. FilesInv' /\ OpenFiles' = OpenFiles
  BY <1>2, HandlesKept
<1>4. /\ Listed = Names(disk) /\ Contents = [m \in Name |-> Content(disk, m)]
      /\ Listed' = Names(disk') /\ Contents' = [m \in Name |-> Content(disk', m)]
  BY <1>1, ShownIs, ShownNext
<1>5. Contents' = Contents
  BY <1>4
<1> QED BY <1>3, <1>4, <1>5

LEMMA CreateShows ==
  ASSUME DirFits, FilesInv, KtfsInv', NEW n \in Name, Create(n)
  PROVE  Abstract!Create(n) /\ FilesInv'
<1> DEFINE i == FreeInode(disk)
           t == AddDentry(SetInodeStatus(disk, i, TRUE), i, n)
<1>1. /\ call' = <<"create", n>> /\ Found(disk, n) = {} /\ disk.imap # Inode /\ t.ok
      /\ disk' = [t.d EXCEPT !.inode[i] = EmptyInode]
      /\ file' = file /\ listing' = listing /\ Result(0, <<>>)
  BY Zenon DEF Create
<1>2. KtfsInv /\ ImageOK(disk) /\ ImageOK(disk') /\ disk \in Disk
  BY DEF FilesInv, KtfsInv, ImageOK, Forest
<1>3. i = FreeInode(disk) /\ t = AddDentry(SetInodeStatus(disk, i, TRUE), i, n)
  OBVIOUS
<1> HIDE DEF i, t
<1>4. i \in Inode \ disk.imap
  BY <1>1, <1>2, <1>3, FreeInodeIs
<1>5. Created(disk, disk', i, n)
  <2>1. Created(disk, [t.d EXCEPT !.inode[i] = EmptyInode], i, n)
    BY <1>1, <1>2, <1>3, CreateStep, Zenon
  <2> QED BY <1>1, <2>1
<1>6. /\ Names(disk') = Append(Names(disk), n)
      /\ \A m \in Name : Content(disk', m) = Content(disk, m)
  BY <1>1, <1>2, <1>4, <1>5, CreatedContents
<1>7. /\ FilesInv' /\ OpenFiles' = OpenFiles /\ Contents' = Contents
      /\ Listed = Names(disk) /\ Listed' = Names(disk')
  BY <1>1, <1>6, NothingShows
<1>8. ~Abstract!Exists(n)
  BY <1>1, <1>2, ExistsIs
<1>9. Abstract!Result(0, <<>>)
  BY <1>1 DEF Result, Abstract!Result
<1>10. Listed' = Append(Listed, n)
  BY <1>6, <1>7
<1> QED BY <1>1, <1>7, <1>8, <1>9, <1>10, Zenon DEF Abstract!Create

(* The creation of a file that gets no entry: the disk is full.            *)
LEMMA CreateNoBlockShows ==
  ASSUME DirFits, FilesInv, KtfsInv', NEW n \in Name, CreateNoBlock(n)
  PROVE  Abstract!CreateFails(n) /\ FilesInv'
<1> DEFINE i == FreeInode(disk)
           m == SetInodeStatus(disk, i, TRUE)
           t == AddDentry(m, i, n)
<1>1. PICK kept \in {disk, t.d} :
        /\ call' = <<"create", n>> /\ Found(disk, n) = {} /\ disk.imap # Inode /\ ~t.ok
        /\ disk' = [t.d EXCEPT !.inode = [kept.inode EXCEPT ![i] = EmptyInode],
                               !.blk = kept.blk]
        /\ file' = file /\ listing' = listing /\ Result(0, <<>>)
  BY Zenon DEF CreateNoBlock
<1>2. KtfsInv /\ ImageOK(disk) /\ ImageOK(disk') /\ disk \in Disk /\ DirOK(disk)
  BY DEF FilesInv, KtfsInv, ImageOK, Forest
<1>3. i = FreeInode(disk) /\ t = AddDentry(SetInodeStatus(disk, i, TRUE), i, n)
      /\ m = SetInodeStatus(disk, i, TRUE) /\ t = AddDentry(m, i, n)
  OBVIOUS
<1> HIDE DEF i, m, t
<1>4. t.d = m
  BY <1>1, <1>2, <1>3, CreateStep, Zenon
<1>5. i \in Inode \ disk.imap
  BY <1>1, <1>2, <1>3, FreeInodeIs
<1>6. /\ SameFiles(disk, m) /\ m.bmap = disk.bmap
      /\ SameShown(disk, [m EXCEPT !.inode = [disk.inode EXCEPT ![i] = EmptyInode],
                                   !.blk = disk.blk])
  BY <1>2, <1>3, <1>5, CreateNoBlockStep, Zenon
<1>7. kept.inode = disk.inode /\ kept.blk = disk.blk
  BY <1>1, <1>4, <1>6 DEF SameFiles
<1>8. /\ disk' = [m EXCEPT !.inode = [disk.inode EXCEPT ![i] = EmptyInode], !.blk = disk.blk]
      /\ SameShown(disk, disk')
  BY <1>1, <1>4, <1>6, <1>7
<1>9. Names(disk') = Names(disk) /\ \A k \in Name : Content(disk', k) = Content(disk, k)
  BY <1>2, <1>8, SameContents DEF SameShown
<1>10. /\ FilesInv' /\ OpenFiles' = OpenFiles /\ Contents' = Contents
       /\ Listed = Names(disk) /\ Listed' = Names(disk')
  BY <1>1, <1>9, NothingShows
<1>11. Full'
  <2> DEFINE size == disk.inode[ROOT].size
             c    == Count(disk)
  <2>1. c \in Nat /\ size = c * DENSZ /\ c + 1 <= NINO - 1
    BY <1>1, <1>2, CountIs, RoomForEntry
  <2>2. m.inode[ROOT].size = size
    BY <1>6 DEF SameFiles
  <2> HIDE DEF size, c
  <2>3. /\ c * DENSZ \in Nat /\ c * DENSZ + DENSZ <= NDIRECT * BLKSZ
        /\ NDIRECT * BLKSZ <= KTFS_MAX_FILE_SIZE
    BY <2>1, DirPosition
  <2>4. size \in Nat /\ size < KTFS_MAX_FILE_SIZE
    BY <2>1, <2>3, Sizes
  <2>5. ~AddDentry(m, i, n).ok
    BY <1>1, <1>3
  <2>6. AddDentry(m, i, n).d.bmap = Block
    BY <2>2, <2>4, <2>5, AddDentryBlocked
  <2>7. t.d.bmap = Block
    BY <1>3, <2>6
  <2>8. disk'.bmap = t.d.bmap
    BY <1>1, <1>8, <1>2, <1>4, <1>3 DEF Disk, SetInodeStatus
  <2> QED BY <2>7, <2>8 DEF Full
<1>12. ~Abstract!Exists(n)
  BY <1>1, <1>2, ExistsIs
<1>13. Abstract!Result(0, <<>>)
  BY <1>1 DEF Result, Abstract!Result
<1>14. \E rc \in {0, Abstract!ERR} : Abstract!Result(rc, <<>>)
  BY <1>13
<1>15. Listed' = Listed
  BY <1>9, <1>10
<1> QED BY <1>1, <1>10, <1>11, <1>12, <1>14, <1>15, Zenon DEF Abstract!CreateFails

LEMMA DeleteShows ==
  ASSUME DirFits, FilesInv, KtfsInv', NEW n \in Name, Delete(n)
  PROVE  Abstract!Delete(n) /\ FilesInv'
<1>1. PICK j \in Found(disk, n) :
        LET i == EntryAt(disk, j)[2]
            d == DeleteDentry(disk, j)
        IN disk' = SetDataBlockStatus(SetInodeStatus(d, i, FALSE), NeededBlocks(d, i), FALSE)
  BY Zenon DEF Delete
<1>2. /\ call' = <<"delete", n>> /\ ~IsOpen(n)
      /\ file' = file /\ listing' = listing /\ Result(0, <<>>)
  BY DEF Delete
<1> DEFINE i == EntryAt(disk, j)[2]
           d == DeleteDentry(disk, j)
<1>3. /\ i = EntryAt(disk, j)[2] /\ d = DeleteDentry(disk, j)
      /\ disk' = SetDataBlockStatus(SetInodeStatus(d, i, FALSE), NeededBlocks(d, i), FALSE)
  BY <1>1
<1> HIDE DEF i, d
<1>4. KtfsInv /\ ImageOK(disk) /\ ImageOK(disk')
  BY DEF FilesInv, KtfsInv
<1>5. Removed(disk, disk', j)
  <2>1. ASSUME NEW g, g = SetDataBlockStatus(SetInodeStatus(d, i, FALSE), NeededBlocks(d, i), FALSE)
        PROVE  Removed(disk, g, j)
    BY <1>3, <1>4, <2>1, DeleteStep, Zenon
  <2> QED BY <1>3, <2>1, Zenon
<1> DEFINE c == Count(disk)
           s == Names(disk)
<1>6. /\ Names(disk') = SubSeq([s EXCEPT ![j + 1] = s[c]], 1, c - 1)
      /\ \A m \in Name : Content(disk', m) = IF m = n THEN <<>> ELSE Content(disk, m)
      /\ j + 1 \in 1 .. c /\ s[j + 1] = n
  BY <1>4, <1>5, RemovedContents
<1>7. s \in Seq(Name) /\ Len(s) = c
  BY <1>4, NamesAre
<1> HIDE DEF c, s
<1>8. /\ FilesInv' /\ OpenFiles' = OpenFiles /\ Contents' = [Contents EXCEPT ![n] = <<>>]
      /\ Listed = s /\ Listed' = Names(disk')
  <2>1. ASSUME NEW e, e = <<>>
        PROVE  /\ FilesInv' /\ OpenFiles' = OpenFiles /\ Contents' = [Contents EXCEPT ![n] = e]
               /\ Listed = Names(disk) /\ Listed' = Names(disk')
    <3>1. \A m \in Name : Content(disk', m) = IF m = n THEN e ELSE Content(disk, m)
      BY <1>6, <2>1
    <3> QED BY <1>2, <3>1, ImageShows
  <2> QED BY <2>1 DEF s
<1>9. Listed' = Abstract!Without(j + 1)
  <2>1. Listed' = SubSeq([Listed EXCEPT ![j + 1] = Listed[Len(Listed)]], 1, Len(Listed) - 1)
    BY <1>6, <1>7, <1>8
  <2> QED BY <2>1, Zenon DEF Abstract!Without, Abstract!Last
<1>10. j + 1 \in DOMAIN Listed /\ Listed[j + 1] = n
  BY <1>6, <1>7, <1>8
<1>11. Abstract!Result(0, <<>>)
  BY <1>2 DEF Result, Abstract!Result
<1>12. \E k \in DOMAIN Listed : Listed[k] = n /\ Listed' = Abstract!Without(k)
  BY <1>9, <1>10, Zenon
<1> QED BY <1>2, <1>8, <1>11, <1>12, Zenon DEF Abstract!Delete

(* The blocks of a longer file: no cell changes, and without a block for   *)
(* each the disk is full.                                                  *)
LEMMA ResizedShows ==
  ASSUME KtfsInv, NEW h \in Handle, file[h] # Closed, NEW size \in Nat,
         size <= KTFS_MAX_FILE_SIZE, NEW I, I = disk.imap, NEW i, i = file[h].inode,
         NEW s, s = Resized(h, size)
  PROVE  /\ s \in State /\ Forest(s.d, I) /\ Grows(disk, s.d, I, i, I)
         /\ ~s.ok => s.d.bmap = Block /\ disk.inode[i].size < size
<1> DEFINE old == disk.inode[i].size
           b   == Begin(disk)
<1>1. i \in I /\ Forest(disk, I) /\ disk \in Disk
  BY HandleIs DEF KtfsInv, ImageOK, Forest
<1>2. s = GetOrAllocAll(b, i, Blocks(old), Blocks(size) - 1)
  BY DEF Resized
<1>3. /\ b \in State /\ b.d = disk /\ b.ok /\ b = [ok |-> b.ok, d |-> b.d, node |-> b.node]
  BY <1>1, NodeTypes DEF Begin, State
<1>4. old \in Nat
  BY <1>1, SizeType DEF Forest
<1> HIDE DEF b, old
<1>5. /\ Blocks(old) \in Nat /\ Blocks(size) \in Nat /\ Blocks(size) - 1 \in Int
      /\ Blocks(size) - 1 < MaxBlocks
  <2>1. Blocks(old) \in Nat /\ Blocks(size) \in Nat
    BY <1>4, BlocksIs
  <2>2. MaxBlocks \in Nat /\ BLKSZ * MaxBlocks = KTFS_MAX_FILE_SIZE
    BY Sizes DEF KTFS_MAX_FILE_SIZE
  <2>3. ~(MaxBlocks < Blocks(size))
    BY <2>1, <2>2, BlocksIs, Sizes
  <2> QED BY <2>1, <2>2, <2>3
<1>6. Forest(b.d, I)
  BY <1>1, <1>3
<1>7. Step(b, s, I, i) /\ Grows(disk, s.d, I, i, I)
  BY <1>1, <1>2, <1>3, <1>5, <1>6, GetOrAllocAllGrows
<1>8. ASSUME ~s.ok
      PROVE  s.d.bmap = Block /\ old < size
  <2>1. Blocked(b)
    BY <1>3 DEF Blocked
  <2>2. Blocked(s) /\ (~(Blocks(old) <= Blocks(size) - 1) => s = b)
    BY <1>2, <1>5, <2>1, GetOrAllocAllBlocked
  <2>3. Blocks(old) < Blocks(size)
    BY <1>3, <1>5, <1>8, <2>2
  <2>4. ~(Blocks(old) < Blocks(old))
    BY <1>5
  <2>5. BLKSZ * Blocks(old) < size /\ ~(BLKSZ * Blocks(old) < old)
    BY <1>4, <1>5, <2>3, <2>4, BlocksIs
  <2> DEFINE x == BLKSZ * Blocks(old)
  <2>6. x \in Nat /\ x < size /\ ~(x < old)
    BY <1>5, <2>5, Sizes
  <2> HIDE DEF x
  <2>7. old < size
    BY <1>4, <2>6
  <2> QED BY <1>8, <2>2, <2>7 DEF Blocked
<1> QED BY <1>7, <1>8 DEF Step, old

(* ... and the inode with its size: file i is as long as size, and the     *)
(* cells it had are still there.                                           *)
Prolongs(d, e, I, i, size) ==
  /\ Keeps(d, e, I, i, I \ {i}) /\ e.inode[i].size = size
  /\ \A k \in 1 .. size : k <= d.inode[i].size => CellsOf(e, i)[k] = CellsOf(d, i)[k]

LEMMA LongerIs ==
  ASSUME NEW d, NEW I, Forest(d, I), Sized(d, I), NEW i \in I, NEW t, Forest(t, I),
         Grows(d, t, I, i, I), NEW size \in Nat
  PROVE  Prolongs(d, Longer(t, i, size), I, i, size)
<1> DEFINE J == I \ {i}
           e == Longer(t, i, size)
<1>1. Keeps(d, t, I, i, I) /\ Keeps(t, e, I, i, I) /\ e.inode[i].size = size
  BY LongerShows DEF Grows
<1> HIDE DEF e
<1>2. Keeps(d, e, I, i, I)
  <2>1. I \in SUBSET I
    OBVIOUS
  <2> QED BY <1>1, <2>1, KeepsTwice
<1>3. Keeps(d, e, I, i, J)
  BY <1>2 DEF Keeps
<1>4. ASSUME NEW k \in 1 .. size, k <= d.inode[i].size
      PROVE  CellsOf(e, i)[k] = CellsOf(d, i)[k]
  <2>1. d.inode[i].size \in Nat
    BY CellsOfType
  <2>2. k \in 1 .. d.inode[i].size
    BY <1>4, <2>1
  <2>3. /\ CellsOf(d, i)[k] = CellOf(d, i, k - 1) /\ Covered(d, i, k - 1) /\ k - 1 \in Nat
    BY <2>2, CellsOfType
  <2>4. CellOf(e, i, k - 1) = CellOf(d, i, k - 1)
    <3>1. I \in SUBSET I
      OBVIOUS
    <3> DEFINE p == k - 1
    <3>2. p \in Nat /\ Covered(d, i, p)
      BY <2>3
    <3> HIDE DEF p
    <3>3. CellOf(e, i, p) = CellOf(d, i, p)
      BY <1>2, <3>1, <3>2, CellKept
    <3> QED BY <3>3 DEF p
  <2>5. CellsOf(e, i)[k] = CellOf(e, i, k - 1)
    BY <1>1 DEF CellsOf
  <2> QED BY <2>3, <2>4, <2>5
<1> QED BY <1>1, <1>3, <1>4 DEF Prolongs, e

LEMMA SetEndShows ==
  ASSUME FilesInv, KtfsInv', NEW h \in Handle, NEW size \in Nat, SetEnd(h, size)
  PROVE  Abstract!SetEnd(h, size) /\ FilesInv'
<1> DEFINE f   == file[h]
           i   == f.inode
           I   == disk.imap
           s   == Resized(h, size)
           t   == s.d
           c   == CellsOf(disk', i)
           old == CellsOf(disk, i)
           pos == Lesser(f.pos, size)
           g   == Moved(f, pos, size)
<1>1. /\ call' = <<"setend", h, size>> /\ f # Closed /\ size <= KTFS_MAX_FILE_SIZE /\ s.ok
      /\ disk' = [t EXCEPT !.inode[i].size = size]
      /\ file' = [file EXCEPT ![h].fileSize = size, ![h].pos = Lesser(@, size)]
      /\ Result(0, <<>>) /\ listing' = listing
  BY Zenon DEF SetEnd
<1>2. /\ f.name \in Name /\ f.pos \in Nat /\ old \in Seq(Cell) /\ Len(old) = f.fileSize
      /\ f.fileSize = disk.inode[i].size /\ f.fileSize \in Nat
      /\ OpenFiles[h] # Abstract!NotOpen /\ OpenFiles[h].name = f.name /\ OpenFiles[h].pos = f.pos
      /\ OpenFiles[h] = View(f) /\ Contents[f.name] = old /\ Abstract!Cells(h) = old
  BY <1>1, CellsSeen
<1>3. KtfsInv /\ file \in [Handle -> FileType] /\ f \in FileType
  BY InvIs DEF FilesInv
<1>4. Forest(disk, I) /\ Sized(disk, I) /\ i \in I
  BY <1>1, <1>3, HandleIs DEF KtfsInv, ImageOK
<1>5. Forest(t, I) /\ Grows(disk, t, I, i, I)
  BY <1>1, <1>3, ResizedShows
<1>6. disk' = Longer(t, i, size)
  BY <1>1, Zenon DEF Longer
<1> HIDE DEF t, s
<1>7. /\ Keeps(disk, disk', I, i, I \ {i}) /\ disk'.inode[i].size = size
      /\ \A k \in 1 .. size : k <= disk.inode[i].size => c[k] = old[k]
  <2>1. Prolongs(disk, Longer(t, i, size), I, i, size)
    <3> HIDE DEF f, i, I
    <3> QED BY <1>4, <1>5, LongerIs
  <2> QED BY <1>6, <2>1 DEF Prolongs
<1>8. /\ Names(disk') = Names(disk)
      /\ \A m \in Name : Content(disk', m) = IF m = f.name THEN c ELSE Content(disk, m)
      /\ c \in Seq(Cell) /\ Len(c) = size
  BY <1>1, <1>7, ImageWritten
<1>9. pos \in Nat /\ pos <= size /\ pos = (IF f.pos > size THEN size ELSE f.pos)
  BY <1>2 DEF Lesser
<1>10. file' = [file EXCEPT ![h] = g]
  <2>1. g = [f EXCEPT !.fileSize = size, !.pos = Lesser(f.pos, size)]
    BY <1>3, Zenon DEF Moved, FileType
  <2> HIDE DEF g, pos
  <2> QED BY <1>1, <1>3, <2>1, Zenon DEF FileType
<1> HIDE DEF pos, c, old
<1>11. g.name = f.name /\ g.pos = pos /\ g.fileSize = size
  BY <1>3 DEF FileType, Moved
<1> HIDE DEF g
<1>12. /\ FilesInv' /\ Listed' = Listed
       /\ Contents' = [Contents EXCEPT ![f.name] = c]
       /\ OpenFiles' = [OpenFiles EXCEPT ![h] = View(g)]
  <2>1. /\ file[h] # Closed /\ g.name = file[h].name /\ g.fileSize = Len(c)
        /\ g.pos <= g.fileSize /\ Names(disk') = Names(disk)
        /\ \A m \in Name : Content(disk', m) = IF m = file[h].name THEN c ELSE Content(disk, m)
    BY <1>1, <1>8, <1>9, <1>11, Zenon
  <2> QED BY <1>10, <2>1, FileWritten
<1>13. OpenFiles' = [OpenFiles EXCEPT ![h].pos = IF @ > size THEN size ELSE @]
  <2>1. View(g) = [OpenFiles[h] EXCEPT !.pos = pos]
    BY <1>2, <1>11 DEF View
  <2>2. pos = IF OpenFiles[h].pos > size THEN size ELSE OpenFiles[h].pos
    BY <1>2, <1>9
  <2> QED BY <1>12, <2>1, <2>2, Zenon
<1>14. /\ Contents'[OpenFiles[h].name] = c
       /\ Contents' = [Contents EXCEPT ![OpenFiles[h].name] = c]
  <2>1. Contents' = [m \in Name |-> Content(disk', m)]
    BY ShownNext
  <2>2. Contents'[f.name] = c
    BY <1>2, <1>8, <2>1
  <2> QED BY <1>2, <1>12, <2>2
<1>15. \A k \in 1 .. size : k <= Len(Abstract!Cells(h)) => c[k] = Abstract!Cells(h)[k]
  BY <1>2, <1>7
<1>16. Abstract!Result(0, <<>>)
  BY <1>1 DEF Result, Abstract!Result
<1> HIDE DEF f
<1> QED BY <1>1, <1>2, <1>8, <1>12, <1>13, <1>14, <1>15, <1>16, Zenon DEF Abstract!SetEnd

LEMMA SetEndNoBlockShows ==
  ASSUME FilesInv, KtfsInv', NEW h \in Handle, NEW size \in Nat, SetEndNoBlock(h, size)
  PROVE  Abstract!SetEndFails(h, size) /\ FilesInv'
<1> DEFINE i == file[h].inode
           I == disk.imap
           s == Resized(h, size)
           t == s.d
           J == I \ {i}
<1>1. /\ call' = <<"setend", h, size>> /\ file[h] # Closed /\ size <= KTFS_MAX_FILE_SIZE
      /\ ~s.ok /\ disk' = [t EXCEPT !.inode = disk.inode]
      /\ file' = file /\ listing' = listing /\ Result(ERR, <<>>)
  BY Zenon DEF SetEndNoBlock
<1>2. /\ Len(Abstract!Cells(h)) = disk.inode[i].size /\ OpenFiles[h] # Abstract!NotOpen
  BY <1>1, CellsSeen
<1>3. KtfsInv /\ Forest(disk, I) /\ Sized(disk, I) /\ i \in I
  BY <1>1, HandleIs DEF FilesInv, KtfsInv, ImageOK
<1>4. /\ s \in State /\ Forest(t, I) /\ Grows(disk, t, I, i, I)
      /\ t.bmap = Block /\ disk.inode[i].size < size
  BY <1>1, <1>3, ResizedShows
<1>5. t \in Disk
  BY <1>4 DEF State
<1> HIDE DEF s, t
<1>6. Grows(disk, disk', I, i, I)
  <2> HIDE DEF i, I
  <2> QED BY <1>1, <1>3, <1>4, InodeNotWritten
<1>7. disk'.bmap = Block /\ disk'.inode = disk.inode
  BY <1>1, <1>4, <1>5 DEF Disk
<1>8. Keeps(disk, disk', I, i, I) /\ Keeps(disk, disk', I, i, J)
  BY <1>6 DEF Grows, Keeps
<1>9. CellsOf(disk', i) = CellsOf(disk, i)
  <2>1. I \in SUBSET I /\ disk'.inode[i].size = disk.inode[i].size
    BY <1>7
  <2> HIDE DEF i, I
  <2> QED BY <1>3, <1>8, <2>1, CellsKept
<1>10. /\ Names(disk') = Names(disk)
       /\ \A m \in Name : Content(disk', m) = IF m = file[h].name THEN CellsOf(disk', i)
                                              ELSE Content(disk, m)
  BY <1>1, <1>8, ImageWritten
<1>11. Content(disk, file[h].name) = CellsOf(disk, i)
  BY <1>1, <1>3, OpenContent
<1>12. \A m \in Name : Content(disk', m) = Content(disk, m)
  BY <1>9, <1>10, <1>11
<1>13. /\ FilesInv' /\ OpenFiles' = OpenFiles /\ Contents' = Contents
       /\ Listed = Names(disk) /\ Listed' = Names(disk')
  BY <1>1, <1>12, NothingShows
<1>14. Full' /\ Listed' = Listed
  BY <1>7, <1>10, <1>13 DEF Full
<1>15. size > Len(Abstract!Cells(h))
  BY <1>2, <1>4
<1>16. Abstract!Result(Abstract!ERR, <<>>)
  BY <1>1 DEF Result, Abstract!Result, ERR, Abstract!ERR
<1> QED BY <1>1, <1>2, <1>13, <1>14, <1>15, <1>16, Zenon DEF Abstract!SetEndFails

(* An image with an empty directory shows no file.                         *)
LEMMA NoFiles ==
  ASSUME Init
  PROVE  Abstract!Init /\ FilesInv
<1>1. /\ KtfsInv /\ disk.inode[ROOT].size = 0
      /\ file = [h \in Handle |-> Closed] /\ listing = NoListing /\ call = <<>>
      /\ ret = [rc |-> 0, out |-> <<>>]
  <2>1. ROOT \in Inode
    BY Sizes
  <2> QED BY <2>1, EmptyImage DEF Init, EmptyInode
<1>2. ImageOK(disk) /\ Listed = Names(disk)
  BY <1>1, ShownIs DEF KtfsInv
<1>3. Count(disk) = 0
  <2>1. disk \in Disk /\ DirOK(disk)
    BY <1>2 DEF ImageOK, Forest
  <2>2. Count(disk) \in Nat /\ Count(disk) * DENSZ = 0
    BY <1>1, <2>1, CountIs
  <2>3. DENSZ \in Nat \ {0}
    BY Sizes
  <2> QED BY <2>2, <2>3
<1>4. Listed = <<>>
  <2>1. Listed \in Seq(Name) /\ Len(Listed) = 0
    BY <1>2, <1>3, NamesAre
  <2> QED BY <2>1
<1>5. \A n : Found(disk, n) = {}
  <2>1. Entries(disk) = 0 .. Count(disk) - 1
    BY <1>2, NamesAre
  <2>2. Entries(disk) = {}
    BY <1>3, <2>1
  <2> QED BY <2>2 DEF Found
<1>6. Contents = [n \in Name |-> <<>>]
  <2>1. \A n : ContentOf(n) = <<>>
    BY <1>5 DEF ContentOf
  <2> QED BY <2>1, Zenon DEF Contents
<1>7. OpenFiles = [h \in Handle |-> Abstract!NotOpen]
  <2>1. \A h \in Handle : file[h].name = "none" /\ file[h].pos = 0
    BY <1>1 DEF Closed
  <2> QED BY <2>1 DEF OpenFiles, Abstract!NotOpen
<1>8. Full \in BOOLEAN
  BY DEF Full
<1>9. FilesInv
  <2>1. \A h \in Handle : file[h] = Closed
    BY <1>1
  <2> QED BY <1>1, <2>1 DEF FilesInv, Shows
<1>10. listing = Abstract!NoListing
  BY <1>1 DEF NoListing, Abstract!NoListing
<1> QED BY <1>1, <1>4, <1>6, <1>7, <1>8, <1>9, <1>10, Zenon DEF Abstract!Init

(* A step of a client that opens a file only when it is not open.          *)
LEMMA FilesStep ==
  ASSUME DirFits, Exclusive, FilesInv, Next, KtfsInv'
  PROVE  FilesInv' /\ Abstract!Next
<1>1. ASSUME NEW n \in Name,
             Create(n) \/ CreateNoBlock(n) \/ CreateRefused(n) \/ Delete(n) \/ NoEntry(n)
      PROVE  FilesInv' /\ Abstract!Next
  <2>1. /\ FilesInv'
        /\ \/ Abstract!Create(n) \/ Abstract!CreateFails(n)
           \/ Abstract!Delete(n) \/ Abstract!NoEntry(n)
    BY <1>1, CreateShows, CreateNoBlockShows, CreateRefusedShows, DeleteShows, NoEntryShows
  <2> QED BY <2>1, Zenon DEF Abstract!Next
<1>2. ASSUME NEW h \in Handle, NEW n \in Name, Open(h, n)
      PROVE  FilesInv' /\ Abstract!Next
  <2>1. FilesInv' /\ Abstract!Open(h, n)
    BY <1>2, OpenShows
  <2> QED BY <2>1, Zenon DEF Abstract!Next
<1>3. ASSUME NEW h \in Handle, NEW len \in Reqs,
             Fetch(h, len) \/ Store(h, len) \/ StoreNoBlock(h, len)
      PROVE  FilesInv' /\ Abstract!Next
  <2>1. len \in Nat /\ len \in Reqs \cup {0}
    BY KtfsAssumption
  <2>2. /\ FilesInv'
        /\ Abstract!Fetch(h, len) \/ Abstract!Store(h, len) \/ Abstract!StoreFails(h, len)
    BY <1>3, <2>1, FetchShows, StoreShows, StoreNoBlockShows
  <2> QED BY <2>1, <2>2, Zenon DEF Abstract!Next
<1>4. ASSUME NEW h \in Handle, NEW p \in Ends,
             SetPos(h, p) \/ SetEnd(h, p) \/ SetEndNoBlock(h, p) \/ SetEndTooLong(h, p)
      PROVE  FilesInv' /\ Abstract!Next
  <2>1. p \in Nat
    BY KtfsAssumption
  <2>2. /\ FilesInv'
        /\ Abstract!SetPos(h, p) \/ Abstract!SetEnd(h, p) \/ Abstract!SetEndFails(h, p)
    BY <1>4, <2>1, SetPosShows, SetEndShows, SetEndNoBlockShows, SetEndTooLongShows
  <2> QED BY <2>2, Zenon DEF Abstract!Next
<1>5. ASSUME NEW h \in Handle, StoreNothing(h)
      PROVE  FilesInv' /\ Abstract!Next
  <2>1. ASSUME NEW zero, zero = 0
        PROVE  FilesInv' /\ Abstract!Store(h, zero) /\ zero \in Reqs \cup {0}
    BY <1>5, <2>1, StoreNothingShows
  <2>2. FilesInv' /\ \E n \in Reqs \cup {0} : Abstract!Store(h, n)
    BY <2>1
  <2> QED BY <2>2, Zenon DEF Abstract!Next
<1>6. ASSUME NEW h \in Handle, Close(h) \/ GetEnd(h) \/ GetPos(h)
      PROVE  FilesInv' /\ Abstract!Next
  <2>1. FilesInv' /\ (Abstract!Close(h) \/ Abstract!GetEnd(h) \/ Abstract!GetPos(h))
    BY <1>6, CloseShows, GetEndShows, GetPosShows
  <2> QED BY <2>1, Zenon DEF Abstract!Next
<1>7. ASSUME OpenListing \/ ReadListing \/ CloseListing
      PROVE  FilesInv' /\ Abstract!Next
  <2>1. FilesInv' /\ (Abstract!OpenListing \/ Abstract!ReadListing \/ Abstract!CloseListing)
    BY <1>7, ListingShows
  <2> QED BY <2>1, Zenon DEF Abstract!Next
<1> QED BY <1>1, <1>2, <1>3, <1>4, <1>5, <1>6, <1>7 DEF Next

(* A client that has each file open once, and does not delete open files,  *)
(* sees a directory of files that are sequences of what was written to     *)
(* them.                                                                   *)
THEOREM FilesRefinement == DirFits /\ Exclusive => (Spec => FilesSpec)
<1> SUFFICES ASSUME DirFits, Exclusive
             PROVE  Spec => FilesSpec
  OBVIOUS
<1>1. Init => Abstract!Init /\ FilesInv
  BY NoFiles
<1>2. FilesInv /\ [Next]_vars => FilesInv' /\ [Abstract!Next]_(Abstract!vars)
  <2> SUFFICES ASSUME FilesInv, [Next]_vars
               PROVE  FilesInv' /\ [Abstract!Next]_(Abstract!vars)
    OBVIOUS
  <2>1. KtfsInv'
    BY KtfsStep DEF FilesInv
  <2>2. CASE Next
    BY <2>1, <2>2, FilesStep
  <2>3. CASE UNCHANGED vars
    <3>1. disk' = disk /\ file' = file /\ listing' = listing /\ call' = call /\ ret' = ret
      BY <2>3 DEF vars
    <3>2. FilesInv' /\ Listed' = Listed /\ Contents' = Contents /\ OpenFiles' = OpenFiles
          /\ Full' = Full
      BY <2>1, <3>1, AllStill
    <3> QED BY <3>1, <3>2 DEF Abstract!vars
  <2> QED BY <2>2, <2>3
<1>3. Spec => []FilesInv
  <2>1. Init => FilesInv
    BY <1>1
  <2>2. FilesInv /\ [Next]_vars => FilesInv'
    BY <1>2
  <2> QED BY <2>1, <2>2, PTL DEF Spec
<1>4. Init => Abstract!Init
  BY <1>1
<1>5. FilesInv /\ [Next]_vars => [Abstract!Next]_(Abstract!vars)
  BY <1>2
<1>6. Spec => Abstract!Spec
  BY <1>3, <1>4, <1>5, PTL DEF Spec, Abstract!Spec
<1> QED BY <1>6 DEF FilesSpec
=============================================================================
