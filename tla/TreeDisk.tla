------------------------------ MODULE TreeDisk ------------------------------
(***************************************************************************)
(* The treedisk file system (library/file/file.c): files stored as trees   *)
(* of blocks, with holes, and a free list kept in the free blocks          *)
(* themselves.  The disk image tool creates it and writes the files;       *)
(* sys_file reads them.                                                    *)
(*                                                                         *)
(* Blocks 1 .. n_inodeblocks hold the inodes, which are modelled as the    *)
(* variable inode.  Definitions named X_without_Y or X_with_Y are wrong    *)
(* versions of X.                                                          *)
(***************************************************************************)
EXTENDS Naturals, Folds

CONSTANTS
    REFS_PER_BLOCK,  \* references in an indirect or free list block
    n_inodeblocks,   \* number of inode blocks
    nblocks,         \* size of the disk below
    Inodes,          \* the inode numbers in use, none too large
    Offsets,         \* the offsets files are read and written at
    Data,            \* what a data block can hold
    NullBlock        \* a block of null bytes

ASSUME TreeDiskAssumption ==
    /\ REFS_PER_BLOCK \in Nat \ {0}
    /\ \E l \in 1 .. REFS_PER_BLOCK : REFS_PER_BLOCK = 2 ^ l
    /\ n_inodeblocks \in Nat \ {0} /\ nblocks \in Nat
    /\ nblocks >= n_inodeblocks + 2
    /\ Inodes \subseteq Nat /\ Offsets \subseteq Nat
    /\ NullBlock \notin Data

Ref == 0 .. REFS_PER_BLOCK - 1
FirstBlock == n_inodeblocks + 1
Block == FirstBlock .. nblocks - 1

VARIABLES
    free_list,  \* superblock: the first block of the free list, or 0
    disk,       \* what each block holds: data, or a function from Ref
    inode,      \* the inodes: root and nblocks
    write,      \* the locals of treedisk_write, when it is running
    full,       \* an allocation has failed, which stops the program
    files       \* what was written: the history that reads must agree with

vars == <<free_list, disk, inode, write, full, files>>

NoRefs == [i \in Ref |-> 0]

\* setup_freelist: every REFS_PER_BLOCK-th block is a free list block, linked
\* to the one before it and followed by the free blocks it refers to.
setup_freelist ==
    [b \in Block |->
       IF (b - FirstBlock) % REFS_PER_BLOCK = 0
       THEN [i \in Ref |-> IF i > 0 THEN IF b + i < nblocks THEN b + i ELSE 0
                           ELSE IF b = FirstBlock THEN 0 ELSE b - REFS_PER_BLOCK]
       ELSE NullBlock]

treedisk_create ==
    /\ disk = setup_freelist
    /\ free_list = nblocks - 1 - ((nblocks - 1 - FirstBlock) % REFS_PER_BLOCK)
    /\ inode = [ino \in Inodes |-> [root |-> 0, nblocks |-> 0]]

Init ==
    /\ treedisk_create
    /\ write = [pc |-> "idle"]
    /\ full = FALSE
    /\ files = [ino \in Inodes |-> [o \in {} |-> NullBlock]]

-----------------------------------------------------------------------------
(***************************************************************************)
(* The tree of a file.                                                     *)
(***************************************************************************)
\* treedisk_init(): the logarithm of the number of references per block.
log_rpb == CHOOSE l \in 1 .. REFS_PER_BLOCK :
              /\ (REFS_PER_BLOCK - 1) \div 2 ^ l = 0
              /\ \A m \in 1 .. l - 1 : (REFS_PER_BLOCK - 1) \div 2 ^ m # 0

\* log_shift_r(x, n * log_rpb)
Shift(x, n) == x \div 2 ^ (n * log_rpb)

Index(offset, n) == Shift(offset, n) % REFS_PER_BLOCK

\* The number of levels above the data blocks of a file of size blocks.
nlevels(size) ==
    IF size = 0 THEN 0
    ELSE CHOOSE n \in 0 .. size :
            /\ Shift(size - 1, n) = 0
            /\ \A m \in 0 .. n - 1 : Shift(size - 1, m) # 0

\* The inode, read anew by every operation.
treedisk_get_snapshot(ino) == inode[ino]

\* The walk of treedisk_read: at[k] is the block reached with k levels below.
treedisk_read(ino, offset) ==
    LET snapshot == treedisk_get_snapshot(ino)
        top == nlevels(snapshot.nblocks)
        at[k \in 0 .. top] ==
           IF k = top THEN snapshot.root
           ELSE IF at[k + 1] = 0 THEN 0
           ELSE disk[at[k + 1]][Index(offset, k)]
    IN  IF at[0] = 0 THEN NullBlock ELSE disk[at[0]]

treedisk_getsize(ino) == treedisk_get_snapshot(ino).nblocks

-----------------------------------------------------------------------------
(***************************************************************************)
(* The free list.  The block that treedisk_alloc_block returns, and the    *)
(* disk and the superblock after it.                                       *)
(***************************************************************************)
UsedRefs == {i \in Ref \ {0} : disk[free_list][i] # 0}

LastRef == CHOOSE i \in UsedRefs : \A j \in UsedRefs : j <= i

\* The free list block itself is handed out last.
free_blockno == IF UsedRefs = {} THEN free_list ELSE disk[free_list][LastRef]

\* The reference stays in the free list block.
AllocDisk_without_clear == disk

AllocDisk ==
    IF UsedRefs = {} THEN disk
    ELSE [disk EXCEPT ![free_list] = [@ EXCEPT ![LastRef] = 0]]

AllocFreeList == IF UsedRefs = {} THEN disk[free_list][0] ELSE free_list

-----------------------------------------------------------------------------
(***************************************************************************)
(* treedisk_write, one step for each turn of its loops.                    *)
(***************************************************************************)
Idle == [pc |-> "idle"]

\* Files grow to the offset written; the tree may need more levels.
write_begin(ino, offset, data) ==
    LET snapshot == treedisk_get_snapshot(ino)
        before == snapshot.nblocks
        size   == IF offset >= before THEN offset + 1 ELSE before
    IN  /\ write = Idle /\ ~full
        /\ write' = [pc |-> "grow", ino |-> ino, offset |-> offset, data |-> data,
                     snapshot |-> [snapshot EXCEPT !.nblocks = size],
                     nlevels |-> nlevels(before),
                     nlevels_after |-> nlevels(size), parent |-> 0]
        /\ UNCHANGED <<free_list, disk, inode, full, files>>

\* An allocation from an empty free list stops the program.
NoBlock ==
    /\ free_list = 0
    /\ full' = TRUE
    /\ UNCHANGED <<free_list, disk, inode, write, files>>

\* The old root is not linked to the new one.
grow_without_link ==
    /\ ~full /\ write.pc = "grow" /\ write.nlevels < write.nlevels_after
    /\ \/ NoBlock
       \/ /\ free_list # 0
          /\ free_list' = AllocFreeList
          /\ disk' = [AllocDisk EXCEPT ![free_blockno] = NoRefs]
          /\ write' = [write EXCEPT !.nlevels = @ + 1, !.snapshot.root = free_blockno]
          /\ UNCHANGED <<inode, full, files>>

\* Insert an indirect block above the root, which is so far that of the
\* snapshot only.
grow ==
    /\ ~full /\ write.pc = "grow" /\ write.nlevels < write.nlevels_after
    /\ \/ NoBlock
       \/ /\ free_list # 0
          /\ free_list' = AllocFreeList
          /\ disk' = [AllocDisk EXCEPT ![free_blockno] =
                         [NoRefs EXCEPT ![0] = write.snapshot.root]]
          /\ write' = [write EXCEPT !.nlevels = @ + 1, !.snapshot.root = free_blockno]
          /\ UNCHANGED <<inode, full, files>>

\* The inode goes to the disk, with its new size and root.
grown ==
    /\ ~full /\ write.pc = "grow" /\ write.nlevels = write.nlevels_after
    /\ inode' = [inode EXCEPT ![write.ino] = write.snapshot]
    /\ write' = [write EXCEPT !.pc = "walk"]
    /\ UNCHANGED <<free_list, disk, full, files>>

\* The reference to follow: the root at first, then a reference of the
\* parent, the block reached last.
parent_no ==
    IF write.parent = 0 THEN inode[write.ino].root
    ELSE disk[write.parent][Index(write.offset, write.nlevels)]

\* Store block b there; d is the disk to change.
Link(d, b) ==
    IF write.parent = 0
    THEN disk' = d /\ inode' = [inode EXCEPT ![write.ino] = [@ EXCEPT !.root = b]]
    ELSE /\ disk' = [d EXCEPT ![write.parent] =
                       [@ EXCEPT ![Index(write.offset, write.nlevels)] = b]]
         /\ UNCHANGED inode

\* Go down one level, to block b.
Descend(b) ==
    write' = IF write.nlevels = 0 THEN [write EXCEPT !.pc = "data", !.parent = b]
             ELSE [write EXCEPT !.nlevels = @ - 1, !.parent = b]

walk ==
    /\ ~full /\ write.pc = "walk" /\ parent_no # 0
    /\ Descend(parent_no)
    /\ UNCHANGED <<free_list, disk, inode, full, files>>

\* There is no block yet: allocate and link it.  A new indirect block is
\* cleared; the code writes it to the disk with its first reference.
walk_alloc ==
    /\ ~full /\ write.pc = "walk" /\ parent_no = 0
    /\ \/ NoBlock
       \/ /\ free_list # 0
          /\ free_list' = AllocFreeList
          /\ Link(IF write.nlevels = 0 THEN AllocDisk
                  ELSE [AllocDisk EXCEPT ![free_blockno] = NoRefs], free_blockno)
          /\ Descend(free_blockno)
          /\ UNCHANGED <<full, files>>

write_data ==
    /\ ~full /\ write.pc = "data"
    /\ disk' = [disk EXCEPT ![write.parent] = write.data]
    /\ files' = [files EXCEPT ![write.ino] =
          [o \in DOMAIN @ \cup {write.offset} |->
             IF o = write.offset THEN write.data ELSE @[o]]]
    /\ write' = Idle
    /\ UNCHANGED <<free_list, inode, full>>

Next ==
    \/ \E ino \in Inodes, offset \in Offsets, data \in Data :
          write_begin(ino, offset, data)
    \/ grow \/ grown \/ walk \/ walk_alloc \/ write_data

Spec == Init /\ [][Next]_vars

-----------------------------------------------------------------------------
(***************************************************************************)
(* Properties.                                                             *)
(***************************************************************************)
\* The file that is being written, if any.
Busy(ino) == write # Idle /\ write.ino = ino

\* What sys_file reads is what was written last: every block written is
\* within the file and reads back, blocks never written read as null bytes,
\* and files other than the one being written are not disturbed by its
\* allocations.
ReadsBack ==
    \A ino \in Inodes : ~Busy(ino) =>
       /\ \A o \in DOMAIN files[ino] : o < treedisk_getsize(ino)
       /\ \A o \in Offsets : o < treedisk_getsize(ino) =>
             treedisk_read(ino, o) =
                IF o \in DOMAIN files[ino] THEN files[ino][o] ELSE NullBlock

\* The blocks among B that hold references.
HoldsRefs(B) == {b \in B \ {0} : disk[b] \notin Data \cup {NullBlock}}

\* The blocks of the free list, from the superblock on: nblocks steps along
\* it reach its end.
FreeListBlocks ==
    LET Step(n, S) == S \cup HoldsRefs({disk[b][0] : b \in S})
    IN  MapThenFoldSet(Step, HoldsRefs({free_list}), LAMBDA n : n,
                       LAMBDA S : CHOOSE n \in S : TRUE, 1 .. nblocks)

\* While a file grows its root is that of the snapshot, and its tree may have
\* fewer levels than its size asks.
Grows(ino) == Busy(ino) /\ write.pc = "grow"

Root(ino) == IF Grows(ino) THEN write.snapshot.root ELSE inode[ino].root

Levels(ino) == IF Grows(ino) THEN write.nlevels ELSE nlevels(inode[ino].nblocks)

\* The indirect blocks of a file whose tree has n levels.
IndirectBlocks(ino, n) ==
    LET level[k \in 1 .. n] ==
          IF k = n THEN HoldsRefs({Root(ino)})
          ELSE HoldsRefs(UNION {{disk[b][i] : i \in Ref} : b \in level[k + 1]})
    IN  UNION {level[k] : k \in 1 .. n}

\* Every reference: where it is, and the block it refers to.
References ==
    LET trees == UNION {IndirectBlocks(ino, Levels(ino)) : ino \in Inodes}
    IN  {<<"superblock", 0, 0, free_list>>}
        \cup {<<"inode", ino, 0, Root(ino)>> : ino \in Inodes}
        \cup {<<"block", h[1], h[2], disk[h[1]][h[2]]>> :
                h \in (FreeListBlocks \cup trees) \X Ref}

\* Every block is referred to exactly once, by the free list or by a file:
\* no block is lost, none is in two files, none is both free and in use.  Only
\* when the disk is full in the middle of a growth are the blocks of the new
\* levels lost, as the inode that refers to them was not stored yet.
EveryBlockOnce ==
    LET refs == References
    IN  ~(full /\ write.pc = "grow") =>
        \A b \in Block :
           \E r \in refs : r[4] = b /\ \A s \in refs : s[4] = b => s = r
=============================================================================
