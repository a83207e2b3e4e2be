------------------------- MODULE InodeManagerProofs -------------------------
(***************************************************************************)
(* The type invariant and the block accounting of InodeManager, for every  *)
(* disk layout, file content and sequence of calls.                        *)
(*                                                                         *)
(* The inductive invariant is IInv.  The accounting alone is not           *)
(* inductive: create formats the inode behind the last one it issued, and  *)
(* the blocks of a live file would be lost if one could be there, so IInv  *)
(* says that no inode beyond the counter is in use.                        *)
(***************************************************************************)
EXTENDS InodeManagerLemmas

-----------------------------------------------------------------------------
(* The accounting as a predicate of a disk.                                *)

BlocksOfInode(d, i) == BlocksOf(d, get_inode(d, i))

\* Slot k of inode i and slot l of inode j are the same block.
Same(d, i, k, j, l) == Ptr(d, get_inode(d, i), k) = Ptr(d, get_inode(d, j), l)

Accounted(d) ==
  /\ Formatted(d)
  /\ \A i \in LiveInodes(d) : BlocksOfInode(d, i) \subseteq marked(d) \cap DiskBlocks
  /\ \A i, j \in LiveInodes(d) :
       \A k \in Slots(get_inode(d, i)), l \in Slots(get_inode(d, j)) :
         Same(d, i, k, j, l) => i = j /\ k = l
  /\ marked(d) \subseteq UNION {BlocksOfInode(d, i) : i \in LiveInodes(d)}

UnissuedFree == \A i \in 1 .. MAX_INUM : i > inum => get_inode(disk, i).type = T_NONE

IInv == TypeOK /\ Accounted(disk) /\ UnissuedFree

\* What a live file owns.
Held(d, i) == IF i \in LiveInodes(d) THEN BlocksOfInode(d, i) ELSE {}

\* A marked id is neither a bitmap block nor an inode block.
LEMMA MarkedPlaces ==
  ASSUME NEW d, Accounted(d)
  PROVE  /\ marked(d) \subseteq BlockIds \cap DiskBlocks
         /\ marked(d) \cap BitmapBlocks = {}
         /\ marked(d) \cap InodeBlocks = {}
<1>1. marked(d) \subseteq BlockIds
  BY UnmarkedIds DEF Accounted
<1>2. marked(d) \subseteq DiskBlocks
  <2>1. \A i \in LiveInodes(d) : BlocksOfInode(d, i) \subseteq DiskBlocks
    BY DEF Accounted
  <2> QED BY <2>1 DEF Accounted
<1> QED BY <1>1, <1>2, Regions

\* What a file owns, it owns on the disk.
LEMMA HeldBlocks ==
  ASSUME NEW d, Accounted(d), NEW i
  PROVE  /\ Held(d, i) \subseteq BlockIds \cap DiskBlocks
         /\ Held(d, i) \subseteq marked(d)
BY MarkedPlaces DEF Accounted, Held

\* Different files hold different blocks.
LEMMA HeldApart ==
  ASSUME NEW d, Accounted(d), NEW i \in LiveInodes(d), NEW j \in LiveInodes(d), i # j
  PROVE  Held(d, i) \cap Held(d, j) = {}
BY DEF Accounted, Held, BlocksOfInode, BlocksOf, Same

\* Every handler turns the disk d into a disk f in which one inode i gave up its
\* blocks for a set S of blocks that no other file holds.  That keeps the
\* accounting.
LEMMA Exchange ==
  ASSUME NEW d, Accounted(d), NEW f, Formatted(f), NEW i \in 0 .. MAX_INUM,
         NEW S, S \subseteq DiskBlocks, S \cap (marked(d) \ Held(d, i)) = {},
         marked(f) = (marked(d) \ Held(d, i)) \cup S,
         \A j \in 0 .. INODE_NUM - 1 : j # i => get_inode(f, j) = get_inode(d, j),
         \A b \in marked(d) \ Held(d, i) : f[b] = d[b],
         IF i \in LiveInodes(f)
         THEN /\ BlocksOfInode(f, i) = S
              /\ \A k, l \in Slots(get_inode(f, i)) : Same(f, i, k, i, l) => k = l
         ELSE S = {}
  PROVE  Accounted(f)
<1>1. \A j \in LiveInodes(f) : j # i => j \in LiveInodes(d) /\ get_inode(f, j) = get_inode(d, j)
  BY DEF LiveInodes, exists
<1>2. \A j \in LiveInodes(d) : j # i => j \in LiveInodes(f) /\ get_inode(f, j) = get_inode(d, j)
  BY DEF LiveInodes, exists
<1>3. ASSUME NEW j \in LiveInodes(d), j # i
      PROVE  /\ BlocksOfInode(f, j) = BlocksOfInode(d, j)
             /\ \A k \in Slots(get_inode(d, j)) :
                  Ptr(f, get_inode(f, j), k) = Ptr(d, get_inode(d, j), k)
             /\ BlocksOfInode(d, j) \subseteq marked(d) \ Held(d, i)
  <2>1. BlocksOfInode(d, j) \subseteq marked(d) \ Held(d, i)
    <3>1. Held(d, j) = BlocksOfInode(d, j) /\ Held(d, j) \subseteq marked(d)
      BY HeldBlocks DEF Held
    <3>2. CASE i \in LiveInodes(d)
      BY <1>3, <3>1, <3>2, HeldApart
    <3>3. CASE i \notin LiveInodes(d)
      BY <3>1, <3>3 DEF Held
    <3> QED BY <3>2, <3>3
  <2>2. get_inode(d, j) \in Inode
    BY Regions, InodeType DEF Accounted, LiveInodes
  <2>3. \A b \in BlocksOf(d, get_inode(d, j)) : f[b] = d[b]
    BY <2>1 DEF BlocksOfInode
  <2>4. get_inode(f, j) = get_inode(d, j)
    BY <1>2, <1>3
  <2> QED BY <2>1, <2>2, <2>3, <2>4, SameBlocks DEF BlocksOfInode
<1>4. ASSUME NEW j \in LiveInodes(f)
      PROVE  BlocksOfInode(f, j) \subseteq marked(f) \cap DiskBlocks
  <2>1. CASE j = i
    BY <1>4, <2>1
  <2>2. CASE j # i
    BY <1>1, <1>3, <2>2 DEF Accounted
  <2> QED BY <2>1, <2>2
<1>5. ASSUME NEW j \in LiveInodes(f), NEW h \in LiveInodes(f),
             NEW k \in Slots(get_inode(f, j)), NEW l \in Slots(get_inode(f, h)),
             Same(f, j, k, h, l)
      PROVE  j = h /\ k = l
  <2>1. \A x \in LiveInodes(f) : \A n \in Slots(get_inode(f, x)) :
          Ptr(f, get_inode(f, x), n) \in BlocksOfInode(f, x)
    BY DEF BlocksOfInode, BlocksOf
  <2>2. CASE j = i /\ h = i
    BY <1>5, <2>2
  <2>3. CASE j = i /\ h # i
    <3>1. Ptr(f, get_inode(f, j), k) \in S
      BY <2>1, <2>3
    <3>2. Ptr(f, get_inode(f, h), l) \in marked(d) \ Held(d, i)
      BY <2>1, <2>3, <1>1, <1>3
    <3> QED BY <1>5, <3>1, <3>2 DEF Same
  <2>4. CASE j # i /\ h = i
    <3>1. Ptr(f, get_inode(f, h), l) \in S
      BY <2>1, <2>4
    <3>2. Ptr(f, get_inode(f, j), k) \in marked(d) \ Held(d, i)
      BY <2>1, <2>4, <1>1, <1>3
    <3> QED BY <1>5, <3>1, <3>2 DEF Same
  <2>5. CASE j # i /\ h # i
    <3>1. Same(d, j, k, h, l)
      BY <1>1, <1>3, <1>5, <2>5 DEF Same
    <3>2. /\ j \in LiveInodes(d) /\ k \in Slots(get_inode(d, j))
          /\ h \in LiveInodes(d) /\ l \in Slots(get_inode(d, h))
      BY <1>1, <2>5
    <3> QED BY <3>1, <3>2 DEF Accounted
  <2> QED BY <2>2, <2>3, <2>4, <2>5
<1>6. ASSUME NEW b \in marked(f)
      PROVE  \E j \in LiveInodes(f) : b \in BlocksOfInode(f, j)
  <2>1. CASE b \in S
    BY <2>1
  <2>2. CASE b \in marked(d) \ Held(d, i)
    <3>1. PICK j \in LiveInodes(d) : b \in BlocksOfInode(d, j)
      BY <2>2 DEF Accounted
    <3>2. j # i
      BY <2>2, <3>1 DEF Held
    <3> QED BY <1>2, <1>3, <3>1, <3>2
  <2> QED BY <2>1, <2>2
<1> QED BY <1>4, <1>5, <1>6 DEF Accounted

-----------------------------------------------------------------------------
(* The handlers.                                                           *)

\* write_file and remove_file free all the blocks of the file first.
LEMMA Release ==
  ASSUME NEW d, Accounted(d), NEW i \in LiveInodes(d)
  PROVE  LET e == released(d, i)
         IN  /\ Formatted(e)
             /\ marked(e) = marked(d) \ Held(d, i)
             /\ \A b \in DiskBlocks \ BitmapBlocks : e[b] = d[b]
             /\ \A j \in 0 .. INODE_NUM - 1 : get_inode(e, j) = get_inode(d, j)
             /\ LiveInodes(e) = LiveInodes(d)
<1> DEFINE e == released(d, i)
<1>1. Held(d, i) = BlocksOf(d, get_inode(d, i)) /\ Held(d, i) \subseteq BlockIds
  BY HeldBlocks DEF Held, BlocksOfInode
<1>2. e = free_blocks(d, Held(d, i))
  BY <1>1 DEF released
<1> HIDE DEF e
<1>3. /\ Formatted(e) /\ marked(e) = marked(d) \ Held(d, i)
      /\ \A b \in DiskBlocks \ BitmapBlocks : e[b] = d[b]
  BY <1>1, <1>2, FreeBlocks DEF Accounted
<1>4. \A j \in 0 .. INODE_NUM - 1 : get_inode(e, j) = get_inode(d, j)
  BY <1>3, Regions DEF get_inode
<1>5. LiveInodes(e) = LiveInodes(d)
  BY <1>4 DEF LiveInodes, exists
<1> QED BY <1>3, <1>4, <1>5 DEF e

\* An inode that names no block: a new one, or a zeroed one.
LEMMA EmptyInode ==
  ASSUME NEW d, NEW i, get_inode(d, i).size = 0
  PROVE  BlocksOfInode(d, i) = {} /\ Slots(get_inode(d, i)) = {}
BY FileSize DEF BlocksOfInode, BlocksOf, Slots

LEMMA ZeroInodeType ==
  ASSUME NEW type \in Types \cup {T_NONE}, NEW ptrs \in [0 .. NDIRECT -> {0, Junk}]
  PROVE  [type |-> type, size |-> 0, blocks |-> ptrs] \in Inode
BY DEF Inode

\* create: the inode it formats was not in use.
LEMMA CreateAccounted ==
  ASSUME NEW d, Accounted(d), NEW i \in 1 .. MAX_INUM, get_inode(d, i).type = T_NONE,
         NEW ino \in Inode, ino.size = 0
  PROVE  Accounted(put_inode(d, i, ino))
<1> DEFINE f == put_inode(d, i, ino)
<1>1. i \notin LiveInodes(d) /\ Held(d, i) = {}
  BY DEF LiveInodes, exists, Held
<1>2. i \in 0 .. MAX_INUM
  OBVIOUS
<1>3. /\ Formatted(f) /\ marked(f) = marked(d) /\ get_inode(f, i) = ino
      /\ \A b \in DiskBlocks \ {IBLOCK(i)} : f[b] = d[b]
  BY <1>2, PutInode DEF Accounted
<1> HIDE DEF f
<1>4. \A j \in 0 .. INODE_NUM - 1 : j # i => get_inode(f, j) = get_inode(d, j)
  <2>1. \A j \in 0 .. INODE_NUM - 1 : j # i => IBLOCK(j) \in DiskBlocks \ {IBLOCK(i)}
    BY Regions
  <2> QED BY <1>3, <2>1 DEF get_inode
<1>5. \A b \in marked(d) \ Held(d, i) : f[b] = d[b]
  <2>1. \A b \in marked(d) : b \in DiskBlocks \ {IBLOCK(i)}
    BY <1>2, MarkedPlaces, Regions
  <2> QED BY <1>3, <2>1
<1>6. BlocksOfInode(f, i) = {} /\ Slots(get_inode(f, i)) = {}
  BY <1>3, EmptyInode
<1>7. Accounted(f)
  <2> DEFINE S == {}
  <2>1. IF i \in LiveInodes(f)
        THEN /\ BlocksOfInode(f, i) = S
             /\ \A k, l \in Slots(get_inode(f, i)) : Same(f, i, k, i, l) => k = l
        ELSE S = {}
    BY <1>6
  <2>2. /\ S \subseteq DiskBlocks /\ S \cap (marked(d) \ Held(d, i)) = {}
        /\ marked(f) = (marked(d) \ Held(d, i)) \cup S
    BY <1>1, <1>3
  <2> HIDE DEF S
  <2> QED BY <1>2, <1>3, <1>4, <1>5, <2>1, <2>2, Exchange
<1> QED BY <1>7 DEF f

\* remove: the blocks are freed before the inode that names them is zeroed.
LEMMA RemoveAccounted ==
  ASSUME NEW d, Accounted(d), NEW i \in LiveInodes(d)
  PROVE  Accounted(put_inode(released(d, i), i, ZeroInode))
<1> DEFINE e == released(d, i)
           f == put_inode(e, i, ZeroInode)
<1>1. i \in 0 .. MAX_INUM /\ i \in 0 .. INODE_NUM - 1
  BY Regions DEF LiveInodes
<1>2. /\ Formatted(e) /\ marked(e) = marked(d) \ Held(d, i)
      /\ \A b \in DiskBlocks \ BitmapBlocks : e[b] = d[b]
      /\ \A j \in 0 .. INODE_NUM - 1 : get_inode(e, j) = get_inode(d, j)
  BY Release
<1>3. ZeroInode \in Inode
  BY ZeroInodeType DEF ZeroInode
<1> HIDE DEF e
<1>4. /\ Formatted(f) /\ marked(f) = marked(e) /\ get_inode(f, i) = ZeroInode
      /\ \A b \in DiskBlocks \ {IBLOCK(i)} : f[b] = e[b]
  BY <1>1, <1>2, <1>3, PutInode
<1> HIDE DEF f
<1>5. \A j \in 0 .. INODE_NUM - 1 : j # i => get_inode(f, j) = get_inode(d, j)
  <2>1. \A j \in 0 .. INODE_NUM - 1 : j # i => IBLOCK(j) \in DiskBlocks \ {IBLOCK(i)}
    BY <1>1, Regions
  <2>2. \A j \in 0 .. INODE_NUM - 1 : j # i => get_inode(f, j) = get_inode(e, j)
    BY <1>4, <2>1 DEF get_inode
  <2> QED BY <1>2, <2>2
<1>6. \A b \in marked(d) \ Held(d, i) : f[b] = d[b]
  <2>1. \A b \in marked(d) : b \in (DiskBlocks \ BitmapBlocks) \ {IBLOCK(i)}
    BY <1>1, MarkedPlaces, Regions
  <2> QED BY <1>2, <1>4, <2>1
<1>7. i \notin LiveInodes(f)
  BY <1>4 DEF LiveInodes, exists, ZeroInode
<1>8. Accounted(f)
  <2> DEFINE S == {}
  <2>1. /\ S \subseteq DiskBlocks /\ S \cap (marked(d) \ Held(d, i)) = {} /\ S = {}
        /\ marked(f) = (marked(d) \ Held(d, i)) \cup S
    BY <1>2, <1>4
  <2> HIDE DEF S
  <2> QED BY <1>1, <1>4, <1>5, <1>6, <1>7, <2>1, Exchange
<1> QED BY <1>8 DEF f, e

\* put: the blocks it gets were not in use, or were the file's own.
LEMMA PutBlocks ==
  ASSUME NEW d, Accounted(d), NEW i \in LiveInodes(d), NEW n \in Nat,
         \A k \in 0 .. n - 1 : alloc_blocks(released(d, i), n)[k] \in DiskBlocks
  PROVE  LET ids == alloc_blocks(released(d, i), n)
         IN  /\ ids \in [0 .. n - 1 -> BlockIds \cap DiskBlocks]
             /\ \A k, l \in 0 .. n - 1 : ids[k] = ids[l] => k = l
             /\ \A k \in 0 .. n - 1 : ids[k] \notin marked(d) \ Held(d, i)
<1> DEFINE e   == released(d, i)
           ids == alloc_blocks(e, n)
<1>1. Formatted(e) /\ marked(e) = marked(d) \ Held(d, i)
  BY Release
<1> HIDE DEF e
<1>2. unmarked(e) = BlockIds \ (marked(d) \ Held(d, i))
  BY <1>1, UnmarkedIds
<1>3. \A k \in 0 .. n - 1 : ids[k] # NoBlock
  BY DEF e, DiskBlocks, NoBlock
<1>4. /\ DOMAIN ids = 0 .. n - 1
      /\ \A k \in 0 .. n - 1 : ids[k] \in unmarked(e)
      /\ \A k, l \in 0 .. n - 1 : ids[k] = ids[l] => k = l
  BY <1>1, <1>3, Allocation
<1>5. ids \in [0 .. n - 1 -> BlockIds \cap DiskBlocks]
  <2>1. ids = [k \in 0 .. n - 1 |-> ids[k]]
    BY DEF alloc_blocks
  <2>2. \A k \in 0 .. n - 1 : ids[k] \in BlockIds \cap DiskBlocks
    BY <1>2, <1>4 DEF e
  <2> HIDE DEF ids
  <2> QED BY <2>1, <2>2
<1> QED BY <1>2, <1>4, <1>5 DEF e

\* What the rest of the system sees of a put: one file changed.
Replaced(d, f, i, buf, ids) ==
  /\ Accounted(f)
  /\ get_inode(f, i) = resized(get_inode(d, i), buf, ids)
  /\ \A j \in 0 .. MAX_INUM : j # i => get_inode(f, j) = get_inode(d, j)
  /\ \A b \in marked(d) \ Held(d, i) : f[b] = d[b]
  /\ \A k \in 0 .. Total(Len(buf)) - 1 : /\ Ptr(f, get_inode(f, i), k) = ids[k]
                                         /\ f[ids[k]] = SlotContent(buf, ids, k)

LEMMA PutAccounted ==
  ASSUME NEW d, Accounted(d), NEW i \in LiveInodes(d),
         NEW buf, Len(buf) \in Nat, NBlocks(Len(buf)) <= MAXFILE,
         NEW ids, Distinct(ids, buf),
         \A k \in 0 .. Total(Len(buf)) - 1 : ids[k] \notin marked(d) \ Held(d, i)
  PROVE  Replaced(d, rewritten(released(d, i), i, buf, ids), i, buf, ids)
<1> DEFINE e == released(d, i)
           f == rewritten(e, i, buf, ids)
           S == {ids[k] : k \in DOMAIN ids}
           T == Total(Len(buf))
<1>1. i \in 0 .. MAX_INUM /\ i \in 0 .. INODE_NUM - 1
  BY Regions DEF LiveInodes
<1>2. /\ Formatted(e) /\ marked(e) = marked(d) \ Held(d, i)
      /\ \A b \in DiskBlocks \ BitmapBlocks : e[b] = d[b]
      /\ \A j \in 0 .. INODE_NUM - 1 : get_inode(e, j) = get_inode(d, j)
  BY Release
<1>3. /\ S \subseteq BlockIds \cap DiskBlocks /\ DOMAIN ids = 0 .. T - 1
      /\ S \cap (marked(d) \ Held(d, i)) = {}
  BY DEF Distinct
<1> HIDE DEF e
<1>4. /\ Formatted(f) /\ marked(f) = marked(e) \cup S
      /\ get_inode(f, i) = resized(get_inode(e, i), buf, ids)
      /\ \A b \in DiskBlocks \ (BitmapBlocks \cup S \cup {IBLOCK(i)}) : f[b] = e[b]
      /\ \A k \in 0 .. T - 1 : Ptr(f, get_inode(f, i), k) = ids[k]
      /\ \A k \in 0 .. T - 1 : f[ids[k]] = SlotContent(buf, ids, k)
  <2>1. Written(e, f, i, buf, ids)
    BY <1>1, <1>2, WriteFile
  <2> HIDE DEF f
  <2> QED BY <2>1 DEF Written
<1> HIDE DEF f
<1>5. get_inode(f, i) = resized(get_inode(d, i), buf, ids)
  BY <1>1, <1>2, <1>4
<1>6. \A j \in 0 .. MAX_INUM : j # i => get_inode(f, j) = get_inode(d, j)
  <2>1. TAKE j \in 0 .. MAX_INUM
  <2>2. HAVE j # i
  <2>3. IBLOCK(j) \in DiskBlocks \ (BitmapBlocks \cup S \cup {IBLOCK(i)})
    <3>1. IBLOCK(j) # IBLOCK(i)
      BY <1>1, <2>2, Regions
    <3> QED BY <1>3, <3>1, Regions
  <2>4. f[IBLOCK(j)] = e[IBLOCK(j)] /\ e[IBLOCK(j)] = d[IBLOCK(j)]
    BY <1>2, <1>4, <2>3
  <2> QED BY <2>4 DEF get_inode
<1>7. \A b \in marked(d) \ Held(d, i) : f[b] = d[b]
  <2>1. TAKE b \in marked(d) \ Held(d, i)
  <2>2. b \in DiskBlocks \ (BitmapBlocks \cup S \cup {IBLOCK(i)})
    BY <1>1, <1>3, MarkedPlaces, Regions
  <2> QED BY <1>2, <1>4, <2>2
<1>8. Slots(get_inode(f, i)) = 0 .. T - 1
  BY <1>5 DEF resized, Slots
<1>9. BlocksOfInode(f, i) = S
  BY <1>3, <1>4, <1>8 DEF BlocksOfInode, BlocksOf
<1>10. i \in LiveInodes(f)
  BY <1>5 DEF LiveInodes, exists, resized
<1>11. \A k, l \in Slots(get_inode(f, i)) : Same(f, i, k, i, l) => k = l
  BY <1>4, <1>8 DEF Same, Distinct
<1>12. Accounted(f)
  <2>1. \A j \in 0 .. INODE_NUM - 1 : j # i => get_inode(f, j) = get_inode(d, j)
    BY <1>6, Regions
  <2>2. marked(f) = (marked(d) \ Held(d, i)) \cup S /\ S \subseteq DiskBlocks
    BY <1>2, <1>3, <1>4
  <2>3. S \cap (marked(d) \ Held(d, i)) = {}
    BY <1>3
  <2> HIDE DEF S
  <2> QED BY <1>1, <1>4, <1>7, <1>9, <1>10, <1>11, <2>1, <2>2, <2>3, Exchange
<1> QED BY <1>4, <1>5, <1>6, <1>7, <1>12 DEF f, e, Replaced

-----------------------------------------------------------------------------
(* The specification.                                                      *)

LEMMA InitInv == Init => IInv
<1> SUFFICES ASSUME Init PROVE IInv
  OBVIOUS
<1> DEFINE root == [ZeroInode EXCEPT !.type = T_DIR,
                                     !.blocks = [k \in 0 .. NDIRECT |-> Junk]]
<1>1. /\ DOMAIN disk = DiskBlocks
      /\ \A b \in BitmapBlocks : disk[b] = {}
      /\ \A b \in InodeBlocks : disk[b] = IF b = IBLOCK(1) THEN root ELSE ZeroInode
  BY Regions DEF Init
<1>2. 1 \in 0 .. MAX_INUM /\ MAX_INUM \in Nat \ {0}
  BY SizesAssumption
<1>3. root \in Inode /\ ZeroInode \in Inode /\ root.size = 0 /\ ZeroInode.size = 0
  BY ZeroInodeType DEF ZeroInode, Types, Inode
<1> HIDE DEF root
<1>4. Formatted(disk)
  BY <1>1, <1>3 DEF Formatted
<1>5. marked(disk) = {}
  BY <1>1 DEF marked
<1>6. \A i \in 0 .. MAX_INUM : get_inode(disk, i).size = 0
  BY <1>1, <1>3, Regions DEF get_inode
<1>7. \A i \in LiveInodes(disk) : BlocksOfInode(disk, i) = {} /\ Slots(get_inode(disk, i)) = {}
  BY <1>6, Regions, EmptyInode DEF LiveInodes
<1>8. Accounted(disk)
  BY <1>4, <1>5, <1>7 DEF Accounted
<1>9. UnissuedFree
  <2>1. ASSUME NEW i \in 1 .. MAX_INUM, i > inum PROVE get_inode(disk, i).type = T_NONE
    <3>1. IBLOCK(i) \in InodeBlocks /\ IBLOCK(i) # IBLOCK(1)
      BY <2>1, <1>2, Regions DEF Init
    <3> QED BY <1>1, <3>1 DEF get_inode, ZeroInode
  <2> QED BY <2>1 DEF UnissuedFree
<1>10. inum \in 1 .. MAX_INUM /\ status = "running"
  BY <1>2 DEF Init
<1> QED BY <1>4, <1>8, <1>9, <1>10 DEF IInv, TypeOK

LEMMA NextInv == IInv /\ [Next]_vars => IInv'
<1> SUFFICES ASSUME IInv, [Next]_vars PROVE IInv'
  OBVIOUS
<1> USE DEF IInv
<1>1. ASSUME NEW type \in NewTypes, Create(type) PROVE IInv'
  <2> DEFINE i   == inum + 1
             ino == [type |-> type, size |-> 0, blocks |-> [k \in 0 .. NDIRECT |-> Junk]]
  <2>1. /\ MAX_INUM \in Nat /\ inum \in 1 .. MAX_INUM /\ i \in 1 .. MAX_INUM /\ i > inum
        /\ disk' = put_inode(disk, i, ino) /\ inum' = i /\ status' = status
    BY <1>1, SizesAssumption DEF Create, TypeOK
  <2>2. ino \in Inode /\ ino.size = 0
    BY ZeroInodeType, SizesAssumption
  <2>3. get_inode(disk, i).type = T_NONE
    BY <2>1 DEF UnissuedFree
  <2> HIDE DEF i, ino
  <2>4. Accounted(disk')
    BY <2>1, <2>2, <2>3, CreateAccounted
  <2>5. UnissuedFree'
    <3>1. ASSUME NEW j \in 1 .. MAX_INUM, j > inum' PROVE get_inode(disk', j).type = T_NONE
      <4>1. IBLOCK(j) # IBLOCK(i) /\ IBLOCK(j) \in DiskBlocks
        BY <2>1, <3>1, Regions
      <4>2. get_inode(disk', j) = get_inode(disk, j)
        <5>1. /\ i \in 0 .. MAX_INUM /\ Formatted(disk)
          BY <2>1 DEF TypeOK
        <5> QED BY <2>1, <2>2, <4>1, <5>1, PutInode DEF get_inode
      <4> QED BY <2>1, <3>1, <4>2 DEF UnissuedFree, i
    <3> QED BY <3>1 DEF UnissuedFree
  <2> QED BY <2>1, <2>4, <2>5 DEF TypeOK, Accounted
<1>2. ASSUME NEW id \in Ids, NEW buf \in Contents, Put(id, buf) PROVE IInv'
  <2> DEFINE i   == masked(id)
             d   == released(disk, i)
             ids == alloc_blocks(d, Total(Len(buf)))
  <2>1. inum' = inum /\ exists(disk, i)
    BY <1>2 DEF Put
  <2>2. CASE /\ NBlocks(Len(buf)) <= MAXFILE
             /\ \A k \in DOMAIN ids : ids[k] \in DiskBlocks
             /\ disk' = rewritten(d, i, buf, ids)
             /\ UNCHANGED status
    <3>1. i \in Nat /\ i \in LiveInodes(disk)
      BY <2>1, SizesAssumption DEF masked, LiveInodes, exists
    <3>2. Len(buf) \in Nat /\ Total(Len(buf)) \in Nat
      BY SizesAssumption, FileSize
    <3>3. \A k \in 0 .. Total(Len(buf)) - 1 : ids[k] \in DiskBlocks
      BY <2>2 DEF alloc_blocks
    <3> HIDE DEF i
    <3>4. /\ ids \in [0 .. Total(Len(buf)) - 1 -> BlockIds \cap DiskBlocks]
          /\ \A k, l \in 0 .. Total(Len(buf)) - 1 : ids[k] = ids[l] => k = l
          /\ \A k \in 0 .. Total(Len(buf)) - 1 : ids[k] \notin marked(disk) \ Held(disk, i)
      BY <3>1, <3>2, <3>3, PutBlocks
    <3> HIDE DEF ids
    <3>5. Distinct(ids, buf)
      BY <3>4 DEF Distinct
    <3>6. Replaced(disk, disk', i, buf, ids)
      BY <2>2, <3>1, <3>2, <3>4, <3>5, PutAccounted
    <3>7. Accounted(disk')
      BY <3>6 DEF Replaced
    <3>8. UnissuedFree'
      <4>1. ASSUME NEW j \in 1 .. MAX_INUM, j > inum' PROVE get_inode(disk', j).type = T_NONE
        <5>1. j \in 0 .. MAX_INUM /\ get_inode(disk, j).type = T_NONE
          BY <2>1, <4>1 DEF UnissuedFree
        <5>2. j # i
          BY <2>1, <5>1 DEF exists
        <5> QED BY <3>6, <5>1, <5>2 DEF Replaced
      <4> QED BY <4>1 DEF UnissuedFree
    <3> QED BY <2>1, <2>2, <3>7, <3>8 DEF TypeOK, Accounted
  <2>3. CASE /\ status' \in {"off_disk", "heap_overflow"}
             /\ UNCHANGED disk
    BY <2>1, <2>3 DEF TypeOK, UnissuedFree
  <2> QED BY <1>2, <2>2, <2>3 DEF Put
<1>3. ASSUME NEW id \in Ids, Remove(id) PROVE IInv'
  <2> DEFINE i == masked(id)
  <2>1. /\ inum' = inum /\ status' = status /\ exists(disk, i)
        /\ disk' = put_inode(released(disk, i), i, ZeroInode)
    BY <1>3 DEF Remove
  <2>2. i \in Nat /\ i \in LiveInodes(disk)
    BY <2>1, SizesAssumption DEF masked, LiveInodes, exists
  <2> HIDE DEF i
  <2>3. Accounted(disk')
    BY <2>1, <2>2, RemoveAccounted
  <2>4. UnissuedFree'
    <3>1. ASSUME NEW j \in 1 .. MAX_INUM, j > inum' PROVE get_inode(disk', j).type = T_NONE
      <4>1. get_inode(disk, j).type = T_NONE /\ j # i /\ i \in 0 .. MAX_INUM /\ j \in Nat
        BY <2>1, <2>2, <3>1, Regions DEF UnissuedFree, exists, LiveInodes
      <4>2. /\ IBLOCK(j) # IBLOCK(i) /\ IBLOCK(j) \in DiskBlocks \ BitmapBlocks
        BY <4>1, Regions
      <4>3. /\ Formatted(released(disk, i))
            /\ released(disk, i)[IBLOCK(j)] = disk[IBLOCK(j)]
        BY <2>2, <4>2, Release
      <4>4. ZeroInode \in Inode
        BY ZeroInodeType DEF ZeroInode
      <4>5. disk'[IBLOCK(j)] = released(disk, i)[IBLOCK(j)]
        BY <2>1, <4>1, <4>2, <4>3, <4>4, PutInode
      <4> QED BY <4>1, <4>3, <4>5 DEF get_inode
    <3> QED BY <3>1 DEF UnissuedFree
  <2> QED BY <2>1, <2>3, <2>4 DEF TypeOK, Accounted
<1>4. ASSUME NEW id \in Ids, NullInode(id) PROVE IInv'
  BY <1>4 DEF NullInode, TypeOK, UnissuedFree
<1>5. CASE UNCHANGED vars
  BY <1>5 DEF vars, TypeOK, UnissuedFree
<1> QED BY <1>1, <1>2, <1>3, <1>4, <1>5 DEF Next

THEOREM Invariance == Spec => []IInv
BY InitInv, NextInv, PTL DEF Spec

\* The regions of the disk never mix: bitmap blocks hold bits, inode blocks hold
\* inodes with allocatable block numbers, whatever is put and removed.
THEOREM TypeCorrect == Spec => []TypeOK
<1>1. IInv => TypeOK
  BY DEF IInv
<1> QED BY <1>1, Invariance, PTL

\* Every block of a live file is marked and on the disk.
THEOREM BlocksMarked == Spec => []LiveBlocksMarked
<1>1. IInv => LiveBlocksMarked
  BY DEF IInv, Accounted, LiveBlocksMarked, Files, Owned, BlocksOfInode
<1> QED BY <1>1, Invariance, PTL

\* No block is used twice, in one file or in two.
THEOREM BlocksNotShared == Spec => []NoSharedBlock
<1>1. IInv => NoSharedBlock
  BY DEF IInv, Accounted, NoSharedBlock, Files, Same
<1> QED BY <1>1, Invariance, PTL

\* No block stays marked when the file that had it shrank or was removed.
THEOREM BlocksNotLeaked == Spec => []NoLeak
<1>1. IInv => NoLeak
  BY DEF IInv, Accounted, NoLeak, Files, Owned, BlocksOfInode
<1> QED BY <1>1, Invariance, PTL

\* A put that the other files leave room for gets blocks of the disk: nothing
\* that no file holds is marked, the blocks of the file itself are free again
\* before it allocates, and the ids behind the end of the disk come last.
THEOREM RoomIsUsed == Spec => []SpaceSuffices
<1>1. IInv => SpaceSuffices
  <2> DEFINE others(i) == UNION {Owned(j) : j \in Files \ {i}}
             room(i)   == (BlockIds \cap DiskBlocks) \ others(i)
  <2>1. SUFFICES ASSUME IInv, NEW i \in Files, NEW buf \in Contents,
                        Total(Len(buf)) <= Cardinality(room(i))
                 PROVE  \A k \in DOMAIN alloc_blocks(released(disk, i), Total(Len(buf))) :
                          alloc_blocks(released(disk, i), Total(Len(buf)))[k] \in DiskBlocks
    BY DEF SpaceSuffices
  <2>2. Accounted(disk) /\ i \in LiveInodes(disk)
    BY <2>1 DEF IInv, Files
  <2>3. PICK n \in Nat : n = Total(Len(buf))
    <3>1. Len(buf) \in Nat
      BY SizesAssumption
    <3> QED BY <3>1, FileSize
  <2>4. PICK e : e = released(disk, i)
    OBVIOUS
  <2>5. Formatted(e) /\ marked(e) = marked(disk) \ Held(disk, i)
    BY <2>2, <2>4, Release
  <2>6. marked(disk) \ Held(disk, i) \subseteq others(i)
    <3>1. Held(disk, i) = Owned(i)
      BY <2>2 DEF Held, Owned, BlocksOfInode
    <3>2. marked(disk) \subseteq UNION {Owned(j) : j \in Files}
      BY <2>2 DEF Accounted, Owned, BlocksOfInode, Files
    <3> QED BY <3>1, <3>2
  <2>7. room(i) \subseteq unmarked(e) \cap DiskBlocks
    <3>1. unmarked(e) = BlockIds \ marked(e)
      BY <2>5, UnmarkedIds
    <3> HIDE DEF others
    <3> QED BY <2>5, <2>6, <3>1
  <2>8. PICK R : R = room(i)
    OBVIOUS
  <2>9. \A k \in 0 .. n - 1 : alloc_blocks(e, n)[k] \in DiskBlocks
    <3>1. R \subseteq unmarked(e) \cap DiskBlocks /\ n <= Cardinality(R)
      BY <2>1, <2>3, <2>7, <2>8
    <3> QED BY <2>5, <3>1, SmallestFirst
  <2>10. DOMAIN alloc_blocks(e, n) = 0 .. n - 1
    BY DEF alloc_blocks
  <2> QED BY <2>3, <2>4, <2>9, <2>10
<1> QED BY <1>1, Invariance, PTL
=============================================================================
