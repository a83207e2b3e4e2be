----------------------- MODULE InodeManagerRefinement -----------------------
(***************************************************************************)
(* InodeManager implements ExtentStore: what the blocks of a file spell is *)
(* what was last put into it, whatever was put, created and removed in     *)
(* other files since.                                                      *)
(***************************************************************************)
EXTENDS InodeManagerProofs

-----------------------------------------------------------------------------
(* Bytes and blocks.                                                       *)

LEMMA DivMod ==
  ASSUME NEW a \in Nat, NEW b \in Nat \ {0}
  PROVE  /\ a \div b \in Nat /\ a % b \in 0 .. b - 1
         /\ a = (a \div b) * b + (a % b)
OBVIOUS

\* Byte p of a file is in one of the file's blocks.
LEMMA ByteSlot ==
  ASSUME NEW size \in Nat, NEW p \in 1 .. size
  PROVE  /\ (p - 1) \div BLOCK_SIZE \in 0 .. NBlocks(size) - 1
         /\ DataSlot((p - 1) \div BLOCK_SIZE) \in 0 .. Total(size) - 1
         /\ (p - 1) % BLOCK_SIZE \in 0 .. BLOCK_SIZE - 1
         /\ ((p - 1) \div BLOCK_SIZE) * BLOCK_SIZE + ((p - 1) % BLOCK_SIZE) + 1 = p
<1> DEFINE B == BLOCK_SIZE
           n == (p - 1) \div B
           q == (p - 1) % B
           a == size + B - 1
           N == a \div B
           r == a % B
<1>1. B \in Nat \ {0} /\ NDIRECT \in Nat /\ p - 1 \in Nat /\ a \in Nat /\ p - 1 < size
  BY SizesAssumption
<1>2. n \in Nat /\ q \in 0 .. B - 1 /\ p - 1 = n * B + q
  BY <1>1, DivMod
<1>3. N \in Nat /\ r \in 0 .. B - 1 /\ a = N * B + r
  <2> HIDE DEF a
  <2> QED BY <1>1, DivMod
<1>4. n < N
  <2> HIDE DEF n, q, N, r, B
  <2>1. n * B \in Int /\ N * B \in Int
    BY <1>1, <1>2, <1>3
  <2>2. n * B < N * B
    BY <1>1, <1>2, <1>3, <2>1
  <2>3. SUFFICES ASSUME N <= n PROVE FALSE
    BY <1>2, <1>3
  <2>4. N * B <= n * B
    BY <1>1, <1>2, <1>3, <2>3
  <2> QED BY <2>1, <2>2, <2>4
<1>5. NBlocks(size) = N
  BY DEF NBlocks
<1>6. DataSlot(n) \in 0 .. Total(size) - 1
  <2> HIDE DEF n, N
  <2> QED BY <1>1, <1>2, <1>3, <1>4, <1>5 DEF DataSlot, Total
<1> HIDE DEF n, q, N
<1>7. n \in 0 .. N - 1
  BY <1>2, <1>3, <1>4
<1>8. n * B + q + 1 = p
  <2>1. n * B \in Int /\ q \in Int
    BY <1>1, <1>2
  <2> QED BY <1>2, <2>1
<1> QED BY <1>2, <1>5, <1>6, <1>7, <1>8 DEF n, q

\* A file reads the same as long as its blocks are not written.
LEMMA SameData ==
  ASSUME NEW d, NEW e, NEW ino \in Inode,
         \A b \in BlocksOf(d, ino) : e[b] = d[b]
  PROVE  read_file(e, ino) = read_file(d, ino)
<1>1. ino.size \in Nat
  BY DEF Inode
<1>2. ASSUME NEW p \in 1 .. ino.size
      PROVE  e[Ptr(e, ino, DataSlot((p - 1) \div BLOCK_SIZE))]
               = d[Ptr(d, ino, DataSlot((p - 1) \div BLOCK_SIZE))]
  <2> DEFINE k == DataSlot((p - 1) \div BLOCK_SIZE)
  <2>1. k \in Slots(ino)
    BY <1>1, ByteSlot DEF Slots
  <2> HIDE DEF k
  <2>2. Ptr(e, ino, k) = Ptr(d, ino, k) /\ Ptr(d, ino, k) \in BlocksOf(d, ino)
    BY <2>1, SameBlocks DEF BlocksOf
  <2> QED BY <2>2 DEF k
<1> QED BY <1>2 DEF read_file

\* The file reads back what write_file wrote, the partial last block included.
LEMMA ReadsBack ==
  ASSUME NEW d, NEW f, NEW i, NEW ids, NEW buf \in Contents,
         NBlocks(Len(buf)) <= MAXFILE, Replaced(d, f, i, buf, ids)
  PROVE  read_file(f, get_inode(f, i)) = buf
<1> DEFINE ino == get_inode(f, i)
<1>1. buf \in Seq(Bytes) /\ Len(buf) \in Nat
  BY SizesAssumption
<1>2. ino.size = Len(buf)
  BY DEF Replaced, resized
<1>3. ASSUME NEW p \in 1 .. Len(buf)
      PROVE  f[Ptr(f, ino, DataSlot((p - 1) \div BLOCK_SIZE))][(p - 1) % BLOCK_SIZE] = buf[p]
  <2> DEFINE n == (p - 1) \div BLOCK_SIZE
             q == (p - 1) % BLOCK_SIZE
             k == DataSlot(n)
  <2>1. /\ n \in 0 .. NBlocks(Len(buf)) - 1 /\ k \in 0 .. Total(Len(buf)) - 1
        /\ q \in 0 .. BLOCK_SIZE - 1 /\ n * BLOCK_SIZE + q + 1 = p
    BY <1>1, ByteSlot
  <2> HIDE DEF n, q
  <2>2. f[Ptr(f, ino, k)] = SlotContent(buf, ids, k)
    BY <2>1 DEF Replaced
  <2>3. SlotContent(buf, ids, k) = Chunk(buf, n)
    <3>1. NDIRECT \in Nat /\ n \in Int
      BY <2>1, <1>1, FileSize, SizesAssumption
    <3> QED BY <3>1 DEF SlotContent, DataSlot
  <2>4. Chunk(buf, n)[q] = buf[p]
    BY <2>1, <1>1 DEF Chunk
  <2> QED BY <2>2, <2>3, <2>4 DEF n, q
<1>4. read_file(f, ino) = [p \in 1 .. Len(buf) |-> buf[p]]
  <2> HIDE DEF ino
  <2> QED BY <1>2, <1>3 DEF read_file
<1>5. buf = [p \in 1 .. Len(buf) |-> buf[p]]
  BY <1>1
<1> QED BY <1>4, <1>5

-----------------------------------------------------------------------------
(* The refinement mapping.                                                 *)

\* The extents of a disk, as RefinesExtentStore maps them.
File(d, i)  == [type |-> get_inode(d, i).type, data |-> read_file(d, get_inode(d, i))]
Extents(d)  == [i \in LiveInodes(d) |-> File(d, i)]

\* A step that leaves an inode and its blocks alone leaves the extent alone.
LEMMA SameFile ==
  ASSUME NEW d, Accounted(d), NEW f, NEW i, NEW j \in LiveInodes(d), i # j,
         get_inode(f, j) = get_inode(d, j),
         \A b \in marked(d) \ Held(d, i) : f[b] = d[b]
  PROVE  File(f, j) = File(d, j)
<1>1. get_inode(d, j) \in Inode
  BY Regions, InodeType DEF Accounted, LiveInodes
<1>2. \A b \in BlocksOf(d, get_inode(d, j)) : f[b] = d[b]
  <2>1. BlocksOf(d, get_inode(d, j)) = Held(d, j) /\ Held(d, j) \subseteq marked(d)
    BY HeldBlocks DEF Held, BlocksOfInode
  <2>2. Held(d, j) \cap Held(d, i) = {}
    BY HeldApart DEF Held
  <2> QED BY <2>1, <2>2
<1> QED BY <1>1, <1>2, SameData DEF File

LEMMA EmptyFile ==
  ASSUME NEW d, NEW i, get_inode(d, i).size = 0
  PROVE  File(d, i) = [type |-> get_inode(d, i).type, data |-> <<>>]
<1>1. read_file(d, get_inode(d, i)) = <<>>
  BY DEF read_file
<1> QED BY <1>1 DEF File

LEMMA InitRefines == Init => Store!Init
<1> SUFFICES ASSUME Init PROVE Store!Init
  OBVIOUS
<1>1. IInv
  BY InitInv
<1>2. 1 \in 0 .. INODE_NUM - 1 /\ 0 .. INODE_NUM - 1 \subseteq 0 .. MAX_INUM /\ 1 < INODE_NUM
  BY Regions, SizesAssumption
<1>3. IBLOCK(1) \in DiskBlocks /\ IBLOCK(1) \notin BitmapBlocks
  BY <1>2, Regions
<1>4. get_inode(disk, 1).type = T_DIR /\ get_inode(disk, 1).size = 0
  BY <1>3 DEF Init, get_inode, ZeroInode
<1>5. \A i \in 0 .. INODE_NUM - 1 : i # 1 => get_inode(disk, i).type = T_NONE
  <2>1. TAKE i \in 0 .. INODE_NUM - 1
  <2>2. HAVE i # 1
  <2>3. IBLOCK(i) \in InodeBlocks /\ IBLOCK(i) \in DiskBlocks
        /\ IBLOCK(i) \notin BitmapBlocks /\ IBLOCK(i) # IBLOCK(1)
    BY <1>2, <2>2, Regions
  <2> QED BY <2>3 DEF Init, get_inode, ZeroInode
<1>6. LiveInodes(disk) = {1}
  BY <1>2, <1>4, <1>5 DEF LiveInodes, exists, T_DIR, T_NONE
<1>7. File(disk, 1) = [type |-> T_DIR, data |-> <<>>]
  BY <1>4, EmptyFile
<1>8. Extents(disk) = [i \in {1} |-> [type |-> T_DIR, data |-> <<>>]]
  BY <1>6, <1>7 DEF Extents
<1>9. 1 .. inum = {1} /\ status = "running"
  BY DEF Init
<1> QED BY <1>8, <1>9 DEF Store!Init, Store!T_DIR, T_DIR, Extents, File, Files

\* A step of a handler is the step of the store of the same name.
LEMMA StepRefines ==
  ASSUME MAX_INUM < INODE_NUM
  PROVE  IInv /\ [Next]_vars => [Store!Next]_(Store!vars)
<1> SUFFICES ASSUME IInv, [Next]_vars PROVE [Store!Next]_(Store!vars)
  OBVIOUS
<1> USE DEF IInv
<1>1. ASSUME NEW type \in NewTypes, Create(type) PROVE Store!Next
  <2> DEFINE i   == inum + 1
             ino == [type |-> type, size |-> 0, blocks |-> [k \in 0 .. NDIRECT |-> Junk]]
  <2>1. /\ MAX_INUM \in Nat /\ inum \in 1 .. MAX_INUM /\ i \in 1 .. MAX_INUM /\ i > inum
        /\ disk' = put_inode(disk, i, ino) /\ inum' = i /\ status' = status
        /\ status = "running" /\ i \in 0 .. MAX_INUM
    BY <1>1, SizesAssumption DEF Create, TypeOK
  <2>2. ino \in Inode /\ ino.size = 0 /\ ino.type = type /\ type \in Types
    BY ZeroInodeType, SizesAssumption
  <2>3. get_inode(disk, i).type = T_NONE
    BY <2>1 DEF UnissuedFree
  <2>4. i \notin 1 .. inum /\ 1 .. inum' = (1 .. inum) \cup {i}
    BY <2>1
  <2> HIDE DEF i, ino
  <2>5. /\ get_inode(disk', i) = ino
        /\ \A b \in DiskBlocks \ {IBLOCK(i)} : disk'[b] = disk[b]
    BY <2>1, <2>2, PutInode DEF TypeOK
  <2>6. Held(disk, i) = {} /\ i \notin LiveInodes(disk)
    BY <2>3 DEF LiveInodes, exists, Held
  <2>7. \A j \in 0 .. INODE_NUM - 1 : j # i => get_inode(disk', j) = get_inode(disk, j)
    <3>1. \A j \in 0 .. INODE_NUM - 1 : j # i => IBLOCK(j) \in DiskBlocks \ {IBLOCK(i)}
      BY <2>1, Regions
    <3> QED BY <2>5, <3>1 DEF get_inode
  <2>8. LiveInodes(disk') = LiveInodes(disk) \cup {i}
    <3>1. i \in 0 .. INODE_NUM - 1 /\ i < INODE_NUM
      BY <2>1, SizesAssumption
    <3>2. exists(disk', i)
      BY <2>2, <2>5, <3>1 DEF exists, Types, T_NONE, T_DIR, T_FILE, T_SYMLINK
    <3> QED BY <2>7, <3>1, <3>2 DEF LiveInodes, exists
  <2>9. \A b \in marked(disk) \ Held(disk, i) : disk'[b] = disk[b]
    BY <2>1, <2>5, MarkedPlaces, Regions
  <2>10. \A j \in LiveInodes(disk) : File(disk', j) = File(disk, j)
    <3>1. TAKE j \in LiveInodes(disk)
    <3>2. j # i /\ get_inode(disk', j) = get_inode(disk, j)
      BY <2>6, <2>7 DEF LiveInodes
    <3> QED BY <2>9, <3>2, SameFile
  <2>11. File(disk', i) = [type |-> type, data |-> <<>>]
    BY <2>2, <2>5, EmptyFile
  <2>12. Extents(disk') = [j \in LiveInodes(disk) \cup {i} |->
                             IF j = i THEN [type |-> type, data |-> <<>>]
                                      ELSE Extents(disk)[j]]
    BY <2>8, <2>10, <2>11 DEF Extents
  <2>13. Store!Create(i, type)
    BY <2>1, <2>4, <2>12 DEF Store!Create, Store!With, Store!Live, Extents, File, Files
  <2>14. type \in Store!Types
    BY <2>2 DEF Types, T_DIR, T_FILE, T_SYMLINK,
                Store!Types, Store!T_DIR, Store!T_FILE, Store!T_SYMLINK
  <2> QED BY <2>1, <2>13, <2>14 DEF Store!Next
<1>2. ASSUME NEW id \in Ids, NEW buf \in Contents, Put(id, buf)
      PROVE  [Store!Next]_(Store!vars)
  <2> DEFINE i   == masked(id)
             d   == released(disk, i)
             ids == alloc_blocks(d, Total(Len(buf)))
  <2>1. inum' = inum /\ exists(disk, i) /\ status = "running"
    BY <1>2 DEF Put
  <2>2. CASE /\ NBlocks(Len(buf)) <= MAXFILE
             /\ \A k \in DOMAIN ids : ids[k] \in DiskBlocks
             /\ disk' = rewritten(d, i, buf, ids)
             /\ UNCHANGED status
    <3>1. i \in Nat /\ i \in LiveInodes(disk)
      BY <2>1, SizesAssumption DEF masked, LiveInodes, exists
    <3>2. Len(buf) \in Nat /\ Total(Len(buf)) \in Nat
      BY SizesAssumption, FileSize
    <3>3. \A k \in 0 .. Total(Len(buf)) - 1 : ids[k] \in DiskBlocks
      BY <2>2 DEF alloc_blocks
    <3> HIDE DEF i
    <3>4. /\ ids \in [0 .. Total(Len(buf)) - 1 -> BlockIds \cap DiskBlocks]
          /\ \A k, l \in 0 .. Total(Len(buf)) - 1 : ids[k] = ids[l] => k = l
          /\ \A k \in 0 .. Total(Len(buf)) - 1 : ids[k] \notin marked(disk) \ Held(disk, i)
      BY <3>1, <3>2, <3>3, PutBlocks
    <3> HIDE DEF ids
    <3>5. Distinct(ids, buf)
      BY <3>4 DEF Distinct
    <3>6. Replaced(disk, disk', i, buf, ids)
      BY <2>2, <3>1, <3>2, <3>4, <3>5, PutAccounted
    <3>7. get_inode(disk', i).type = get_inode(disk, i).type
      BY <3>6 DEF Replaced, resized
    <3>8. \A j \in 0 .. INODE_NUM - 1 : j # i => get_inode(disk', j) = get_inode(disk, j)
      BY <3>6, Regions DEF Replaced
    <3>9. LiveInodes(disk') = LiveInodes(disk)
      BY <3>7, <3>8 DEF LiveInodes, exists
    <3>10. \A j \in LiveInodes(disk) : j # i => File(disk', j) = File(disk, j)
      <4>1. TAKE j \in LiveInodes(disk)
      <4>2. HAVE j # i
      <4>3. get_inode(disk', j) = get_inode(disk, j)
        BY <3>8, <4>2 DEF LiveInodes
      <4> QED BY <3>6, <4>2, <4>3, SameFile DEF Replaced
    <3>11. read_file(disk', get_inode(disk', i)) = buf
      BY <2>2, <3>6, ReadsBack
    <3>12. Extents(disk') = [j \in LiveInodes(disk) \cup {i} |->
                               IF j = i THEN [Extents(disk)[i] EXCEPT !.data = buf]
                                        ELSE Extents(disk)[j]]
      BY <3>1, <3>7, <3>9, <3>10, <3>11 DEF Extents, File
    <3>13. Store!Put(i, buf)
      BY <2>1, <2>2, <3>1, <3>12 DEF Store!Put, Store!With, Store!Live, Extents, File, Files
    <3> QED BY <3>1, <3>13 DEF Store!Next, Store!Live, Files
  <2>3. CASE /\ status' \in {"off_disk", "heap_overflow"}
             /\ UNCHANGED disk
    BY <2>1, <2>3 DEF Store!Next, Store!Die, Files
  <2> QED BY <1>2, <2>2, <2>3 DEF Put
<1>3. ASSUME NEW id \in Ids, Remove(id) PROVE Store!Next
  <2> DEFINE i == masked(id)
             e == released(disk, i)
  <2>1. /\ inum' = inum /\ status' = status /\ exists(disk, i) /\ status = "running"
        /\ disk' = put_inode(e, i, ZeroInode)
    BY <1>3 DEF Remove
  <2>2. i \in Nat /\ i \in LiveInodes(disk)
    BY <2>1, SizesAssumption DEF masked, LiveInodes, exists
  <2> HIDE DEF i
  <2>3. /\ Formatted(e)
        /\ \A b \in DiskBlocks \ BitmapBlocks : e[b] = disk[b]
        /\ \A j \in 0 .. INODE_NUM - 1 : get_inode(e, j) = get_inode(disk, j)
    BY <2>2, Release
  <2>4. i \in 0 .. MAX_INUM /\ ZeroInode \in Inode
    BY <2>2, Regions, ZeroInodeType DEF LiveInodes, ZeroInode
  <2> HIDE DEF e
  <2>5. /\ get_inode(disk', i) = ZeroInode
        /\ \A b \in DiskBlocks \ {IBLOCK(i)} : disk'[b] = e[b]
    BY <2>1, <2>3, <2>4, PutInode
  <2>6. \A j \in 0 .. INODE_NUM - 1 : j # i => get_inode(disk', j) = get_inode(disk, j)
    <3>1. \A j \in 0 .. INODE_NUM - 1 : j # i => IBLOCK(j) \in DiskBlocks \ {IBLOCK(i)}
      BY <2>4, Regions
    <3>2. \A j \in 0 .. INODE_NUM - 1 : j # i => get_inode(disk', j) = get_inode(e, j)
      BY <2>5, <3>1 DEF get_inode
    <3> QED BY <2>3, <3>2
  <2>7. LiveInodes(disk') = LiveInodes(disk) \ {i}
    BY <2>5, <2>6 DEF LiveInodes, exists, ZeroInode
  <2>8. \A b \in marked(disk) \ Held(disk, i) : disk'[b] = disk[b]
    BY <2>3, <2>4, <2>5, MarkedPlaces, Regions
  <2>9. \A j \in LiveInodes(disk) \ {i} : File(disk', j) = File(disk, j)
    <3>1. TAKE j \in LiveInodes(disk) \ {i}
    <3>2. j # i /\ get_inode(disk', j) = get_inode(disk, j)
      BY <2>6 DEF LiveInodes
    <3> QED BY <2>8, <3>2, SameFile
  <2>10. Extents(disk') = [j \in LiveInodes(disk) \ {i} |-> Extents(disk)[j]]
    BY <2>7, <2>9 DEF Extents
  <2>11. Store!Remove(i)
    BY <2>1, <2>2, <2>10 DEF Store!Remove, Store!Without, Store!Live, Extents, File, Files
  <2> QED BY <2>2, <2>11 DEF Store!Next, Store!Live, Files
<1>4. ASSUME NEW id \in Ids, NullInode(id) PROVE Store!Next
  BY <1>4 DEF NullInode, Store!Next, Store!Die, Files
<1>5. CASE UNCHANGED vars
  BY <1>5 DEF vars, Store!vars, Files
<1> QED BY <1>1, <1>2, <1>3, <1>4, <1>5 DEF Next

\* As long as create is not called beyond the inodes that get_inode knows, the
\* extent server is a store of extents.
THEOREM Refinement ==
  ASSUME MAX_INUM < INODE_NUM
  PROVE  Spec => RefinesExtentStore
<1>1. IInv /\ [Next]_vars => [Store!Next]_(Store!vars)
  BY StepRefines
<1> QED BY <1>1, InitRefines, Invariance, PTL DEF Spec, RefinesExtentStore, Store!Spec
=============================================================================
