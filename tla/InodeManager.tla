---------------------------- MODULE InodeManager ----------------------------
(***************************************************************************)
(* The extent server and the inode, block and disk layers below it         *)
(* (extent_client.cc, extent_server.cc, inode_manager.cc).  The whole      *)
(* stack runs in the process of its caller, one call at a time, so an      *)
(* action is one extent_server handler with everything it calls.           *)
(*                                                                         *)
(* The disk is one array of blocks without types, as in the code: what a   *)
(* block holds (a bitmap, an inode, a table of block numbers, file data)   *)
(* is decided by the block number that is used to reach it.  Timestamps    *)
(* are left out.                                                           *)
(***************************************************************************)
EXTENDS ExtentProtocol, FiniteSets, Sequences

CONSTANTS BLOCK_NUM,   \* blocks of the disk
          BLOCK_SIZE,  \* bytes of a block
          BPB,         \* bitmap bits per block
          INODE_NUM,   \* get_inode knows the inodes 1 .. INODE_NUM-1
          NDIRECT,     \* block numbers kept in the inode itself
          NINDIRECT,   \* block numbers that fit in the indirect block
          ID_SPACE,    \* 0x7fffffff + 1: extent ids are masked to this many
          MAX_INUM,    \* bound: create is not called beyond this inode number
          Bytes,       \* the values of a byte
          Contents,    \* the byte strings that clients put
          NewTypes,    \* the types that clients create
          Ids,         \* the extent ids that clients pass
          Junk         \* a value the code never initialised

(***************************************************************************)
(* Layout.  Bitmap block b describes the ids b*BPB .. b*BPB+BPB-1, so the  *)
(* ids that can be allocated start at BBLOCK(0)*BPB.                       *)
(***************************************************************************)
BBLOCK(b) == b \div BPB + 2
IBLOCK(i) == BLOCK_NUM \div BPB + i + 3

BitmapBlocks == BBLOCK(0) .. BBLOCK(BLOCK_NUM - 1)
DiskBlocks   == 0 .. BLOCK_NUM - 1
InodeBlocks  == {IBLOCK(i) : i \in 0 .. MAX_INUM}
BlockIds     == UNION {{b * BPB + bit : bit \in 0 .. BPB - 1} : b \in BitmapBlocks}
MAXFILE      == NDIRECT + NINDIRECT

ASSUME SizesAssumption ==
  /\ {BLOCK_NUM, BLOCK_SIZE, BPB, NDIRECT, NINDIRECT, INODE_NUM, MAX_INUM,
      ID_SPACE} \subseteq Nat \ {0}
  /\ INODE_NUM - 1 \in 1 .. MAX_INUM
  /\ Contents \subseteq Seq(Bytes)
  /\ NewTypes \subseteq Types
  /\ Ids \subseteq Nat

\* The bitmaps come before the inode table, and the inode table (with the
\* inodes that create adds, up to the bound) before the first block id.
ASSUME LayoutAssumption ==
  /\ BBLOCK(BLOCK_NUM - 1) < IBLOCK(0)
  /\ IBLOCK(MAX_INUM) < BBLOCK(0) * BPB
  /\ BBLOCK(0) * BPB < BLOCK_NUM

VARIABLES disk,    \* disk::blocks
          inum,    \* the static counter of alloc_inode
          status   \* "running", or how the process ended

vars == <<disk, inum, status>>

-----------------------------------------------------------------------------
(* The block layer.                                                        *)

\* The ids whose bit is clear.  alloc_block returns the smallest.
unmarked(d) ==
  UNION {{b * BPB + bit : bit \in (0 .. BPB - 1) \ d[b]} : b \in BitmapBlocks}

marked(d) == UNION {{b * BPB + bit : bit \in d[b]} : b \in BitmapBlocks}

\* What the k-th of a series of alloc_block calls returns (k from 0): the ids of
\* S in ascending order, then -1.
NoBlock == -1
Nth(S, k) ==
  IF k < Cardinality(S) THEN CHOOSE id \in S : Cardinality({x \in S : x < id}) = k
                        ELSE NoBlock
alloc_blocks(d, n) == [k \in 0 .. n - 1 |-> Nth(unmarked(d), k)]

\* Mutant: alloc_block takes the bit from the id instead of from its place.
mark_at_id(d, S) ==
  [b \in DOMAIN d |->
     IF b \in BitmapBlocks THEN d[b] \cup {id \in S : id \div BPB = b} ELSE d[b]]

\* The disk after alloc_block has returned each id of S.
mark(d, S) ==
  [b \in DOMAIN d |->
     IF b \in BitmapBlocks
     THEN d[b] \cup {bit \in 0 .. BPB - 1 : b * BPB + bit \in S}
     ELSE d[b]]

\* The disk after free_block(id) for each id of S.
bitmap_id(id) == BBLOCK(id) - BBLOCK(0)
free_blocks(d, S) ==
  [b \in DOMAIN d |->
     IF \E id \in S : bitmap_id(id) = b
     THEN d[b] \ {id % BPB : id \in {x \in S : bitmap_id(x) = b}}
     ELSE d[b]]

-----------------------------------------------------------------------------
(* Inodes.                                                                 *)

ZeroInode == [type |-> T_NONE, size |-> 0, blocks |-> [k \in 0 .. NDIRECT |-> 0]]

get_inode(d, i)      == d[IBLOCK(i)]
exists(d, i)         == i < INODE_NUM /\ get_inode(d, i).type # T_NONE
put_inode(d, i, ino) == [d EXCEPT ![IBLOCK(i)] = ino]

LiveInodes(d) == {i \in 0 .. INODE_NUM - 1 : exists(d, i)}

\* The data blocks of a file of the given size, and all its blocks: a file
\* that needs more than NDIRECT has an indirect block too.
NBlocks(size) == (size + BLOCK_SIZE - 1) \div BLOCK_SIZE
Total(size)   == NBlocks(size) + (IF NBlocks(size) > NDIRECT THEN 1 ELSE 0)

\* The blocks of an inode, numbered in the order write_file allocates them:
\* the direct blocks, the indirect block (number NDIRECT), and the blocks that
\* the indirect block names.
Slots(ino) == 0 .. Total(ino.size) - 1
Ptr(d, ino, k) ==
  IF k <= NDIRECT THEN ino.blocks[k]
                  ELSE d[ino.blocks[NDIRECT]][k - NDIRECT - 1]
BlocksOf(d, ino) == {Ptr(d, ino, k) : k \in Slots(ino)}

\* read_file: the bytes of the file, block after block.
DataSlot(n) == IF n < NDIRECT THEN n ELSE n + 1
read_file(d, ino) ==
  [p \in 1 .. ino.size |->
     d[Ptr(d, ino, DataSlot((p - 1) \div BLOCK_SIZE))][(p - 1) % BLOCK_SIZE]]

\* The n-th block of buf.  write_block copies BLOCK_SIZE bytes whatever is left
\* of buf, so what lies behind the end of buf fills up the last block.
Chunk(buf, n) ==
  [q \in 0 .. BLOCK_SIZE - 1 |->
     LET p == n * BLOCK_SIZE + q + 1
     IN  IF p <= Len(buf) THEN buf[p] ELSE Junk]

\* Mutant: the blocks behind the indirect block skip one chunk of the file.
SlotContent_shifted(buf, ids, k) ==
  IF k = NDIRECT
  THEN [j \in 0 .. NINDIRECT - 1 |->
          IF j + NDIRECT + 1 \in DOMAIN ids THEN ids[j + NDIRECT + 1] ELSE Junk]
  ELSE Chunk(buf, k)

\* What write_file writes to block ids[k] of the file.
SlotContent(buf, ids, k) ==
  IF k < NDIRECT THEN Chunk(buf, k)
  ELSE IF k = NDIRECT
       THEN [j \in 0 .. NINDIRECT - 1 |->
               IF j + NDIRECT + 1 \in DOMAIN ids THEN ids[j + NDIRECT + 1]
                                                 ELSE Junk]
       ELSE Chunk(buf, k - 1)

write_blocks(d, buf, ids) ==
  [b \in DOMAIN d |->
     IF \E k \in DOMAIN ids : ids[k] = b
     THEN SlotContent(buf, ids, CHOOSE k \in DOMAIN ids : ids[k] = b)
     ELSE d[b]]

\* The inode after write_file: block numbers beyond the new size stay behind.
resized(ino, buf, ids) ==
  [type   |-> ino.type,
   size   |-> Len(buf),
   blocks |-> [k \in 0 .. NDIRECT |->
                 IF k \in DOMAIN ids THEN ids[k] ELSE ino.blocks[k]]]

\* Mutant: every number in the inode is freed, the ones left behind included.
released_stale(d, i) ==
  LET ino == get_inode(d, i)
  IN  free_blocks(d, BlocksOf(d, ino)
                       \cup {ino.blocks[k] : k \in {l \in 0 .. NDIRECT :
                                                     ino.blocks[l] \notin {0, Junk}}})

\* Mutant: the indirect block itself is not freed.
released_data(d, i) ==
  LET ino == get_inode(d, i)
  IN  free_blocks(d, {Ptr(d, ino, k) : k \in Slots(ino) \ {NDIRECT}})

\* The first half of write_file frees every block of the file.
released(d, i) == free_blocks(d, BlocksOf(d, get_inode(d, i)))

\* The second half allocates and writes, and puts the inode back.
rewritten(d, i, buf, ids) ==
  put_inode(write_blocks(mark(d, {ids[k] : k \in DOMAIN ids}), buf, ids),
            i, resized(get_inode(d, i), buf, ids))

-----------------------------------------------------------------------------
(* The handlers of extent_server.                                          *)

\* new extent_server(): a zeroed disk on which alloc_inode made the root.
Init ==
  /\ disk = [b \in DiskBlocks |->
               IF b \in BitmapBlocks THEN {}
               ELSE IF b = IBLOCK(1)
               THEN [ZeroInode EXCEPT !.type = T_DIR,
                                      !.blocks = [k \in 0 .. NDIRECT |-> Junk]]
               ELSE IF b \in InodeBlocks THEN ZeroInode ELSE 0]
  /\ inum = 1
  /\ status = "running"

masked(id) == id % ID_SPACE

\* A handler that dereferences the NULL that get_inode returned.
NullInode(id) ==
  /\ status = "running"
  /\ ~ exists(disk, masked(id))
  /\ status' = "null_inode"
  /\ UNCHANGED <<disk, inum>>

\* create: alloc_inode does not look at INODE_NUM.
Create(type) ==
  /\ status = "running"
  /\ inum < MAX_INUM
  /\ inum' = inum + 1
  /\ disk' = put_inode(disk, inum + 1,
               [type |-> type, size |-> 0, blocks |-> [k \in 0 .. NDIRECT |-> Junk]])
  /\ UNCHANGED status

\* put on a live inode: write_file.
Put(id, buf) ==
  LET i   == masked(id)
      d   == released(disk, i)
      ids == alloc_blocks(d, Total(Len(buf)))
  IN  /\ status = "running"
      /\ exists(disk, i)
      /\ \/ /\ NBlocks(Len(buf)) <= MAXFILE
            /\ \A k \in DOMAIN ids : ids[k] \in DiskBlocks
            /\ disk' = rewritten(d, i, buf, ids)
            /\ UNCHANGED status
         \* alloc_block returned a number outside the disk, and write_block
         \* copies to memory behind disk::blocks.
         \/ /\ NBlocks(Len(buf)) <= MAXFILE
            /\ \E k \in DOMAIN ids : ids[k] \notin DiskBlocks
            /\ status' = "off_disk"
            /\ UNCHANGED disk
         \* The table of indirect block numbers runs over its buffer.
         \/ /\ NBlocks(Len(buf)) > MAXFILE
            /\ status' = "heap_overflow"
            /\ UNCHANGED disk
      /\ UNCHANGED inum

\* Mutant: remove zeroes the inode and keeps its blocks.
Remove_keeps_blocks(id) ==
  LET i == masked(id)
  IN  /\ status = "running"
      /\ exists(disk, i)
      /\ disk' = put_inode(disk, i, ZeroInode)
      /\ UNCHANGED <<inum, status>>

\* remove on a live inode: remove_file frees the blocks, free_inode zeroes.
Remove(id) ==
  LET i == masked(id)
  IN  /\ status = "running"
      /\ exists(disk, i)
      /\ disk' = put_inode(released(disk, i), i, ZeroInode)
      /\ UNCHANGED <<inum, status>>

Next ==
  \/ \E type \in NewTypes : Create(type)
  \/ \E id \in Ids : \E buf \in Contents : Put(id, buf)
  \/ \E id \in Ids : Remove(id)
  \/ \E id \in Ids : NullInode(id)

Spec == Init /\ [][Next]_vars

-----------------------------------------------------------------------------
(* Properties.                                                             *)

Inode == [type   : Types \cup {T_NONE},
          size   : Nat,
          blocks : [0 .. NDIRECT -> BlockIds \cup {0, Junk}]]

Formatted(d) ==
  /\ DOMAIN d = DiskBlocks
  /\ \A b \in BitmapBlocks : d[b] \in SUBSET (0 .. BPB - 1)
  /\ \A b \in InodeBlocks : d[b] \in Inode

\* The regions of the disk keep their kinds: free_block's arithmetic finds a
\* bitmap block and put_inode an inode block, and no data is written there.
TypeOK ==
  /\ Formatted(disk)
  /\ inum \in 1 .. MAX_INUM
  /\ status \in {"running", "null_inode", "off_disk", "heap_overflow"}

Files == LiveInodes(disk)
Owned(i) == BlocksOf(disk, get_inode(disk, i))

\* Every block a live file can be read through is marked in the bitmap and on
\* the disk: no number that a shorter version of the file left behind in the
\* inode (write_file does not clear them), and no uninitialised one, is used.
LiveBlocksMarked ==
  \A i \in Files : Owned(i) \subseteq marked(disk) \cap DiskBlocks

\* No block serves two purposes: the direct, indirect and data blocks of all
\* files are different blocks.
NoSharedBlock ==
  \A i, j \in Files :
    \A k \in Slots(get_inode(disk, i)), l \in Slots(get_inode(disk, j)) :
      Ptr(disk, get_inode(disk, i), k) = Ptr(disk, get_inode(disk, j), l)
        => i = j /\ k = l

\* free_block is called for every block that a file gives up, the indirect block
\* included: only blocks of live files are marked.
NoLeak == marked(disk) \subseteq UNION {Owned(i) : i \in Files}

\* A put that the other live files leave room for gets blocks of the disk: the
\* blocks of the file it replaces are reused, nothing leaks, and the ids behind
\* the end of the disk are handed out last.
SpaceSuffices ==
  \A i \in Files : \A buf \in Contents :
    LET others == UNION {Owned(j) : j \in Files \ {i}}
        room   == Cardinality((BlockIds \cap DiskBlocks) \ others)
        ids    == alloc_blocks(released(disk, i), Total(Len(buf)))
    IN  NBlocks(Len(buf)) <= MAXFILE /\ Total(Len(buf)) <= room
          => \A k \in DOMAIN ids : ids[k] \in DiskBlocks

\* The extents that the disk stands for.
Store == INSTANCE ExtentStore WITH
           Inums   <- 1 .. MAX_INUM,
           extents <- [i \in Files |-> [type |-> get_inode(disk, i).type,
                                        data |-> read_file(disk, get_inode(disk, i))]],
           issued  <- 1 .. inum,
           up      <- status = "running"

\* extent_client keeps its promise: what is read is what was last put, whatever
\* other files were written, resized or removed since.
RefinesExtentStore == Store!Spec

\* create returns the number of an inode that get_inode finds, as part1_tester.cc
\* expects of every inode it creates ("error getting attr, type is wrong").
CreatedInodeExists == [][inum' # inum => exists(disk, inum)']_vars

\* alloc_block returns a block of the disk ("Allocate a free disk block.").
AllocatesDiskBlocks == status # "off_disk"
=============================================================================
