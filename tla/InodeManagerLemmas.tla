------------------------- MODULE InodeManagerLemmas -------------------------
(***************************************************************************)
(* Facts about the operators InodeManager is built from: the arithmetic    *)
(* of the bitmap, the order in which alloc_block hands out ids, and what   *)
(* freeing, marking and writing blocks leaves of the disk.                 *)
(***************************************************************************)
EXTENDS InodeManager, TLAPS, FiniteSetTheorems, WellFoundedInduction

-----------------------------------------------------------------------------
(* The smallest element of a set, and the k-th.                            *)

\* A nonempty set of naturals has a least element: the initial segments up to
\* its elements have a minimal one.
LEMMA LeastNatural ==
  ASSUME NEW S \in SUBSET Nat, S # {}
  PROVE  \E x \in S : \A y \in S : x <= y
<1> DEFINE T == {0 .. x : x \in S}
<1>1. T # {}
  OBVIOUS
<1>2. T \subseteq FiniteSubsetsOf(Nat)
  <2>1. \A x \in S : 0 .. x \in SUBSET Nat /\ IsFiniteSet(0 .. x)
    BY FS_Interval
  <2> QED BY <2>1 DEF FiniteSubsetsOf
<1>3. PICK Z \in T : \A Y \in T : ~ (<<Y, Z>> \in StrictSubsetOrdering(Nat))
  <2> HIDE DEF T
  <2> QED BY <1>1, <1>2, FS_StrictSubsetOrderingWellFounded, WFMin
<1>4. PICK x \in S : Z = 0 .. x
  OBVIOUS
<1>5. ASSUME NEW y \in S PROVE x <= y
  <2>1. 0 .. y \in T
    OBVIOUS
  <2>2. <<0 .. y, 0 .. x>> \notin StrictSubsetOrdering(Nat)
    BY <1>3, <1>4, <2>1
  <2>3. ~ (0 .. y \subseteq 0 .. x /\ 0 .. y # 0 .. x)
    BY <2>2 DEF StrictSubsetOrdering
  <2>4. SUFFICES ASSUME y < x PROVE FALSE
    OBVIOUS
  <2>5. x \in 0 .. x /\ x \notin 0 .. y
    BY <2>4
  <2>6. 0 .. y \subseteq 0 .. x
    BY <2>4
  <2> QED BY <2>3, <2>5, <2>6
<1> QED BY <1>5

\* A finite set of naturals has an element with exactly k smaller ones, for
\* each k below its size.
LEMMA RankExists ==
  ASSUME NEW S \in SUBSET Nat, IsFiniteSet(S), NEW k \in Nat, k < Cardinality(S)
  PROVE  \E id \in S : Cardinality({x \in S : x < id}) = k
<1> DEFINE Below(id) == {x \in S : x < id}
           Bad == {j \in Nat : j < Cardinality(S) /\ \A id \in S : Cardinality(Below(id)) # j}
<1>1. Cardinality(S) \in Nat /\ \A id \in S : IsFiniteSet(Below(id))
  BY FS_CardinalityType, FS_Subset
<1>2. SUFFICES ASSUME Bad # {} PROVE FALSE
  OBVIOUS
<1>3. PICK j \in Bad : \A i \in Bad : j <= i
  <2>1. Bad \in SUBSET Nat
    OBVIOUS
  <2> HIDE DEF Bad
  <2> QED BY <1>2, <2>1, LeastNatural
<1>4. CASE j = 0
  <2>1. S # {}
    BY <1>3, <1>4, FS_EmptySet
  <2>2. PICK m \in S : \A y \in S : m <= y
    BY <2>1, LeastNatural
  <2>3. Below(m) = {}
    <3>1. \A y \in S : ~ (y < m)
      BY <2>2
    <3> QED BY <3>1
  <2> QED BY <1>3, <1>4, <2>3, FS_EmptySet
<1>5. CASE j # 0
  <2>1. j - 1 \in Nat /\ j - 1 \notin Bad /\ j - 1 < Cardinality(S)
    BY <1>3, <1>5, <1>1
  <2>2. PICK p \in S : Cardinality(Below(p)) = j - 1
    BY <2>1
  <2>3. IsFiniteSet(Below(p) \cup {p}) /\ Cardinality(Below(p) \cup {p}) = j
    <3>1. p \notin Below(p)
      OBVIOUS
    <3> HIDE DEF Below
    <3> QED BY <1>1, <1>3, <2>2, <3>1, FS_AddElement
  <2>4. {x \in S : x > p} # {}
    <3>1. SUFFICES ASSUME \A x \in S : x <= p PROVE FALSE
      OBVIOUS
    <3>2. \A x \in S : x \in Below(p) \/ x = p
      BY <3>1
    <3>3. S = Below(p) \cup {p}
      BY <3>2
    <3> QED BY <1>3, <2>3, <3>3
  <2>5. PICK m \in {x \in S : x > p} : \A y \in {x \in S : x > p} : m <= y
    BY <2>4, LeastNatural
  <2>6. Below(m) = Below(p) \cup {p}
    <3>1. m \in S /\ p < m /\ \A x \in S : x > p => m <= x
      BY <2>5
    <3>2. \A x \in S : x < m <=> x < p \/ x = p
      BY <3>1
    <3> QED BY <3>2
  <2> QED BY <1>3, <2>3, <2>5, <2>6
<1> QED BY <1>4, <1>5

-----------------------------------------------------------------------------
(* Block ids and the bitmap.                                               *)

\* free_block finds the bit that alloc_block set: its bitmap block and bit are
\* the inverse of the number alloc_block computes.
LEMMA BitOfId ==
  ASSUME NEW b \in BitmapBlocks, NEW bit \in 0 .. BPB - 1
  PROVE  /\ b * BPB + bit \in BlockIds
         /\ bitmap_id(b * BPB + bit) = b
         /\ (b * BPB + bit) % BPB = bit
         /\ b \in Nat /\ b * BPB + bit \in Nat
<1>1. BPB \in Nat \ {0} /\ b \in Nat /\ b >= BBLOCK(0)
  BY SizesAssumption DEF BitmapBlocks, BBLOCK
<1>2. (b * BPB + bit) \div BPB = b /\ (b * BPB + bit) % BPB = bit
  BY <1>1
<1>3. bitmap_id(b * BPB + bit) = b
  BY <1>1, <1>2 DEF bitmap_id, BBLOCK
<1>4. b * BPB + bit \in BlockIds
  BY DEF BlockIds
<1> QED BY <1>1, <1>2, <1>3, <1>4

\* Every block id is one bit of one bitmap block.
LEMMA IdOfBit ==
  ASSUME NEW id \in BlockIds
  PROVE  /\ id \in Nat
         /\ bitmap_id(id) \in BitmapBlocks
         /\ id % BPB \in 0 .. BPB - 1
         /\ bitmap_id(id) * BPB + (id % BPB) = id
<1>1. PICK b \in BitmapBlocks : \E bit \in 0 .. BPB - 1 : id = b * BPB + bit
  BY DEF BlockIds
<1>2. PICK bit \in 0 .. BPB - 1 : id = b * BPB + bit
  BY <1>1
<1> QED BY <1>2, BitOfId

\* The ids that can be allocated are finitely many.
LEMMA BlockIdsFinite == BlockIds \in SUBSET Nat /\ IsFiniteSet(BlockIds)
<1> DEFINE last == BBLOCK(BLOCK_NUM - 1)
<1>1. BPB \in Nat \ {0} /\ last \in Int
  BY SizesAssumption DEF BBLOCK
<1>2. ASSUME NEW id \in BlockIds PROVE id \in 0 .. (last * BPB + BPB - 1)
  <2>1. /\ id \in Nat /\ bitmap_id(id) \in Int /\ bitmap_id(id) <= last
        /\ id % BPB \in 0 .. BPB - 1
        /\ bitmap_id(id) * BPB + (id % BPB) = id
    BY IdOfBit, <1>1 DEF BitmapBlocks, BBLOCK
  <2> DEFINE b == bitmap_id(id)
  <2>2. b * BPB <= last * BPB
    <3> HIDE DEF b, last
    <3>1. b \in Int /\ last \in Int /\ b <= last
      BY <2>1, <1>1 DEF b
    <3> QED BY <3>1, <1>1
  <2>3. b * BPB \in Int /\ last * BPB \in Int
    BY <2>1, <1>1
  <2> HIDE DEF b, last
  <2> QED BY <2>1, <2>2, <2>3, <1>1 DEF b
<1>3. IsFiniteSet(0 .. (last * BPB + BPB - 1))
  <2>1. last * BPB + BPB - 1 \in Int
    <3> HIDE DEF last
    <3> QED BY <1>1
  <2> HIDE DEF last
  <2> QED BY <2>1, FS_Interval
<1>4. BlockIds \subseteq 0 .. (last * BPB + BPB - 1)
  BY <1>2
<1>5. BlockIds \in SUBSET Nat
  BY IdOfBit
<1> HIDE DEF last
<1> QED BY <1>3, <1>4, <1>5, FS_Subset

\* The bitmaps, the inodes and the ids that can be allocated are in different
\* places, and each inode has a block of its own.
LEMMA Regions ==
  /\ BitmapBlocks \subseteq DiskBlocks
  /\ InodeBlocks \subseteq DiskBlocks
  /\ BitmapBlocks \cap InodeBlocks = {}
  /\ BlockIds \cap BitmapBlocks = {}
  /\ BlockIds \cap InodeBlocks = {}
  /\ \A i \in 0 .. MAX_INUM : IBLOCK(i) \in InodeBlocks
  /\ \A i, j \in Nat : IBLOCK(i) = IBLOCK(j) => i = j
  /\ 0 .. INODE_NUM - 1 \subseteq 0 .. MAX_INUM
<1> DEFINE first == BBLOCK(0) * BPB
           last  == BBLOCK(BLOCK_NUM - 1)
           q     == BLOCK_NUM \div BPB
<1>1. /\ BPB \in Nat \ {0} /\ BLOCK_NUM \in Nat \ {0} /\ INODE_NUM \in Nat
      /\ MAX_INUM \in Nat /\ INODE_NUM - 1 <= MAX_INUM
  BY SizesAssumption
<1>2. BBLOCK(0) = 2 /\ last \in Int /\ q \in Int
  BY <1>1 DEF BBLOCK
<1>3. first \in Int
  BY <1>1, <1>2
<1>4. \A i \in Nat : IBLOCK(i) = q + i + 3
  BY DEF IBLOCK
<1>5. last < q + 3 /\ q + MAX_INUM + 3 < first /\ first < BLOCK_NUM
  BY LayoutAssumption, <1>4, <1>1
<1>6. \A id \in BlockIds : id >= first
  <2>1. TAKE id \in BlockIds
  <2> DEFINE b == bitmap_id(id)
  <2>2. /\ b \in Int /\ b >= BBLOCK(0) /\ id \in Nat
        /\ id % BPB \in 0 .. BPB - 1 /\ b * BPB + (id % BPB) = id
    BY IdOfBit, <1>2 DEF BitmapBlocks
  <2>3. b * BPB \in Int /\ b * BPB >= first
    <3> HIDE DEF b
    <3> QED BY <2>2, <1>1, <1>2
  <2> HIDE DEF b, first
  <2> QED BY <2>2, <2>3, <1>3
<1>7. BitmapBlocks = 2 .. last
  BY <1>2 DEF BitmapBlocks
<1>8. \A b \in InodeBlocks : b \in q + 3 .. q + MAX_INUM + 3
  BY <1>4, <1>1, <1>2 DEF InodeBlocks
<1>9. 2 <= BBLOCK(BLOCK_NUM - 1) /\ 0 <= q
  BY <1>1 DEF BBLOCK
<1>10. \A i \in 0 .. MAX_INUM : IBLOCK(i) \in InodeBlocks
  BY DEF InodeBlocks
<1>11. \A i, j \in Nat : IBLOCK(i) = IBLOCK(j) => i = j
  <2> HIDE DEF q
  <2> QED BY <1>2, <1>4
<1>12. 0 .. INODE_NUM - 1 \subseteq 0 .. MAX_INUM
  BY <1>1
<1>13. \A b \in BitmapBlocks : b \in Int /\ 2 <= b /\ b <= last
  BY <1>7, <1>2
<1>14. \A b \in InodeBlocks : b \in Int /\ q + 3 <= b /\ b < first
  <2> HIDE DEF first, last, q
  <2> QED BY <1>8, <1>5, <1>2, <1>3, <1>1
<1>15. \A id \in BlockIds : id \in Int /\ first <= id
  BY <1>6, BlockIdsFinite
<1> HIDE DEF first, last, q
<1>16. BitmapBlocks \subseteq DiskBlocks /\ InodeBlocks \subseteq DiskBlocks
  BY <1>13, <1>14, <1>5, <1>9, <1>1, <1>2, <1>3 DEF DiskBlocks
<1>17. BitmapBlocks \cap InodeBlocks = {}
  BY <1>13, <1>14, <1>5, <1>2
<1>18. BlockIds \cap BitmapBlocks = {} /\ BlockIds \cap InodeBlocks = {}
  <2>1. last < first
    BY <1>5, <1>1, <1>2, <1>3
  <2> QED BY <2>1, <1>13, <1>14, <1>15, <1>2, <1>3
<1> QED BY <1>10, <1>11, <1>12, <1>16, <1>17, <1>18

-----------------------------------------------------------------------------
(* Allocation and release.                                                 *)

\* An id is marked if its bit is set.
LEMMA MarkedBit ==
  ASSUME NEW d, Formatted(d), NEW id
  PROVE  /\ id \in marked(d) <=> id \in BlockIds /\ id % BPB \in d[bitmap_id(id)]
         /\ id \in unmarked(d) <=> id \in BlockIds /\ id % BPB \notin d[bitmap_id(id)]
<1>1. \A b \in BitmapBlocks : d[b] \subseteq 0 .. BPB - 1
  BY DEF Formatted
<1>2. ASSUME id \in marked(d)
      PROVE  id \in BlockIds /\ id % BPB \in d[bitmap_id(id)]
  <2>1. PICK b \in BitmapBlocks : \E bit \in d[b] : id = b * BPB + bit
    BY <1>2 DEF marked
  <2>2. PICK bit \in d[b] : id = b * BPB + bit
    BY <2>1
  <2>3. bit \in 0 .. BPB - 1
    BY <1>1
  <2> QED BY <2>2, <2>3, BitOfId
<1>3. ASSUME id \in unmarked(d)
      PROVE  id \in BlockIds /\ id % BPB \notin d[bitmap_id(id)]
  <2>1. PICK b \in BitmapBlocks : \E bit \in (0 .. BPB - 1) \ d[b] : id = b * BPB + bit
    BY <1>3 DEF unmarked
  <2>2. PICK bit \in (0 .. BPB - 1) \ d[b] : id = b * BPB + bit
    BY <2>1
  <2> QED BY <2>2, BitOfId
<1>4. ASSUME id \in BlockIds, id % BPB \in d[bitmap_id(id)]
      PROVE  id \in marked(d)
  BY <1>4, IdOfBit DEF marked
<1>5. ASSUME id \in BlockIds, id % BPB \notin d[bitmap_id(id)]
      PROVE  id \in unmarked(d)
  BY <1>5, IdOfBit DEF unmarked
<1> QED BY <1>2, <1>3, <1>4, <1>5

\* The ids alloc_block chooses from are those that are not marked.
LEMMA UnmarkedIds ==
  ASSUME NEW d, Formatted(d)
  PROVE  /\ marked(d) \subseteq BlockIds
         /\ unmarked(d) = BlockIds \ marked(d)
BY MarkedBit

\* free_block clears the bits of the freed ids and changes nothing else.
LEMMA FreeBlocks ==
  ASSUME NEW d, Formatted(d), NEW S, S \subseteq BlockIds
  PROVE  /\ Formatted(free_blocks(d, S))
         /\ marked(free_blocks(d, S)) = marked(d) \ S
         /\ \A b \in DiskBlocks \ BitmapBlocks : free_blocks(d, S)[b] = d[b]
<1> DEFINE e == free_blocks(d, S)
<1>1. \A x \in S : bitmap_id(x) \in BitmapBlocks
  BY IdOfBit
<1>2. DOMAIN e = DiskBlocks /\ \A b \in DiskBlocks \ BitmapBlocks : e[b] = d[b]
  BY <1>1 DEF free_blocks, Formatted
<1>3. \A b \in BitmapBlocks :
        e[b] = d[b] \ {x % BPB : x \in {y \in S : bitmap_id(y) = b}}
  BY Regions DEF free_blocks, Formatted
<1>4. Formatted(e)
  <2>1. \A b \in BitmapBlocks : e[b] \in SUBSET (0 .. BPB - 1)
    BY <1>3 DEF Formatted
  <2>2. \A b \in InodeBlocks : e[b] = d[b]
    BY <1>2, Regions
  <2> HIDE DEF e
  <2> QED BY <1>2, <2>1, <2>2 DEF Formatted
<1>5. \A id \in BlockIds : id % BPB \in e[bitmap_id(id)]
                           <=> id % BPB \in d[bitmap_id(id)] /\ id \notin S
  <2>1. TAKE id \in BlockIds
  <2>2. e[bitmap_id(id)] = d[bitmap_id(id)]
             \ {x % BPB : x \in {y \in S : bitmap_id(y) = bitmap_id(id)}}
    BY <1>3, IdOfBit
  <2>3. \A x \in S : bitmap_id(x) = bitmap_id(id) /\ x % BPB = id % BPB => x = id
    <3>1. TAKE x \in S
    <3>2. bitmap_id(x) * BPB + (x % BPB) = x /\ bitmap_id(id) * BPB + (id % BPB) = id
      BY IdOfBit
    <3> QED BY <3>2
  <2> HIDE DEF e
  <2> QED BY <2>2, <2>3
<1> HIDE DEF e
<1>6. marked(e) = marked(d) \ S
  BY <1>4, <1>5, MarkedBit
<1> QED BY <1>2, <1>4, <1>6 DEF e

\* alloc_block sets the bits of the ids it returns and changes nothing else.
LEMMA MarkBlocks ==
  ASSUME NEW d, Formatted(d), NEW S, S \subseteq BlockIds
  PROVE  /\ Formatted(mark(d, S))
         /\ marked(mark(d, S)) = marked(d) \cup S
         /\ \A b \in DiskBlocks \ BitmapBlocks : mark(d, S)[b] = d[b]
<1> DEFINE e == mark(d, S)
<1>1. DOMAIN e = DiskBlocks /\ \A b \in DiskBlocks \ BitmapBlocks : e[b] = d[b]
  BY DEF mark, Formatted
<1>2. \A b \in BitmapBlocks :
        e[b] = d[b] \cup {bit \in 0 .. BPB - 1 : b * BPB + bit \in S}
  BY Regions DEF mark, Formatted
<1>3. Formatted(e)
  <2>1. \A b \in BitmapBlocks : e[b] \in SUBSET (0 .. BPB - 1)
    BY <1>2 DEF Formatted
  <2>2. \A b \in InodeBlocks : e[b] = d[b]
    BY <1>1, Regions
  <2> HIDE DEF e
  <2> QED BY <1>1, <2>1, <2>2 DEF Formatted
<1>4. \A id \in BlockIds : id % BPB \in e[bitmap_id(id)]
                           <=> id % BPB \in d[bitmap_id(id)] \/ id \in S
  <2>1. TAKE id \in BlockIds
  <2>2. e[bitmap_id(id)] = d[bitmap_id(id)]
             \cup {bit \in 0 .. BPB - 1 : bitmap_id(id) * BPB + bit \in S}
    BY <1>2, IdOfBit
  <2>3. id % BPB \in 0 .. BPB - 1 /\ bitmap_id(id) * BPB + (id % BPB) = id
    BY IdOfBit
  <2> HIDE DEF e
  <2> QED BY <2>2, <2>3
<1> HIDE DEF e
<1>5. marked(e) = marked(d) \cup S
  BY <1>3, <1>4, MarkedBit
<1> QED BY <1>1, <1>3, <1>5 DEF e

\* A series of alloc_block calls returns different unmarked ids, until it
\* returns -1.
LEMMA Allocation ==
  ASSUME NEW d, Formatted(d), NEW n \in Nat
  PROVE  LET ids == alloc_blocks(d, n)
         IN  /\ DOMAIN ids = 0 .. n - 1
             /\ \A k \in 0 .. n - 1 : ids[k] # NoBlock => ids[k] \in unmarked(d)
             /\ \A k, l \in 0 .. n - 1 : ids[k] = ids[l] /\ ids[k] # NoBlock => k = l
<1> DEFINE ids == alloc_blocks(d, n)
           S == unmarked(d)
<1>1. S \in SUBSET Nat /\ IsFiniteSet(S)
  BY UnmarkedIds, BlockIdsFinite, FS_Subset
<1>2. DOMAIN ids = 0 .. n - 1 /\ \A k \in 0 .. n - 1 : ids[k] = Nth(S, k)
  BY DEF alloc_blocks
<1>3. \A k \in 0 .. n - 1 : ids[k] # NoBlock =>
        ids[k] \in S /\ Cardinality({x \in S : x < ids[k]}) = k
  <2>1. TAKE k \in 0 .. n - 1
  <2>2. HAVE ids[k] # NoBlock
  <2> HIDE DEF S, ids
  <2>3. k < Cardinality(S)
    BY <1>2, <2>2 DEF Nth
  <2>4. ids[k] = CHOOSE id \in S : Cardinality({x \in S : x < id}) = k
    BY <1>2, <2>3 DEF Nth
  <2>5. \E id \in S : Cardinality({x \in S : x < id}) = k
    BY <1>1, <2>3, RankExists
  <2> QED BY <2>4, <2>5
<1> HIDE DEF S, ids
<1> QED BY <1>2, <1>3 DEF S, ids

\* alloc_block hands out the smallest ids first: as many as the set R holds come
\* from the disk, if R is unmarked and on it.
LEMMA SmallestFirst ==
  ASSUME NEW d, Formatted(d), NEW n \in Nat, NEW R, R \subseteq unmarked(d) \cap DiskBlocks,
         n <= Cardinality(R)
  PROVE  \A k \in 0 .. n - 1 : alloc_blocks(d, n)[k] \in DiskBlocks
<1> DEFINE S == unmarked(d)
<1>1. S \in SUBSET Nat /\ IsFiniteSet(S)
  <2>1. S \in SUBSET BlockIds
    BY UnmarkedIds
  <2> HIDE DEF S
  <2> QED BY <2>1, BlockIdsFinite, FS_Subset
<1>2. /\ IsFiniteSet(R) /\ Cardinality(R) \in Nat
      /\ Cardinality(S) \in Nat /\ Cardinality(R) <= Cardinality(S)
  BY <1>1, FS_Subset, FS_CardinalityType
<1>3. SUFFICES ASSUME NEW k \in 0 .. n - 1 PROVE Nth(S, k) \in DiskBlocks
  BY DEF alloc_blocks
<1>4. R \subseteq S /\ \A x \in R : x \in 0 .. BLOCK_NUM - 1
  BY DEF DiskBlocks
<1> HIDE DEF S
<1>5. k \in Nat /\ k < Cardinality(R) /\ k < Cardinality(S)
  BY <1>2
<1>6. Nth(S, k) \in S /\ Cardinality({x \in S : x < Nth(S, k)}) = k
  <2>1. Nth(S, k) = CHOOSE id \in S : Cardinality({x \in S : x < id}) = k
    BY <1>5 DEF Nth
  <2>2. \E id \in S : Cardinality({x \in S : x < id}) = k
    BY <1>1, <1>5, RankExists
  <2> QED BY <2>1, <2>2
<1>7. PICK id \in S : id = Nth(S, k)
  BY <1>6
<1>8. BLOCK_NUM \in Nat /\ id \in Nat
  BY <1>1, SizesAssumption
<1>9. SUFFICES ASSUME id >= BLOCK_NUM PROVE FALSE
  BY <1>7, <1>8 DEF DiskBlocks
<1> DEFINE below == {x \in S : x < id}
<1>10. Cardinality(below) = k
  BY <1>6, <1>7
<1>11. R \subseteq below
  BY <1>4, <1>8, <1>9
<1>12. IsFiniteSet(below)
  BY <1>1, FS_Subset
<1> HIDE DEF below
<1>13. Cardinality(R) <= Cardinality(below)
  BY <1>11, <1>12, FS_Subset
<1> QED BY <1>2, <1>5, <1>10, <1>13

-----------------------------------------------------------------------------
(* Files.                                                                  *)

LEMMA InodeType ==
  ASSUME NEW d, Formatted(d), NEW i \in 0 .. MAX_INUM
  PROVE  get_inode(d, i) \in Inode
BY Regions DEF Formatted, get_inode

\* A file has at most NDIRECT direct blocks, the indirect block and the blocks
\* it has room for, and an empty file has none.
LEMMA FileSize ==
  ASSUME NEW size \in Nat
  PROVE  /\ NBlocks(size) \in Nat /\ Total(size) \in Nat
         /\ NBlocks(size) <= MAXFILE => Total(size) <= NDIRECT + NINDIRECT + 1
         /\ size = 0 => Total(size) = 0
<1>1. BLOCK_SIZE \in Nat \ {0} /\ NDIRECT \in Nat \ {0} /\ NINDIRECT \in Nat \ {0}
  BY SizesAssumption
<1>2. (size + BLOCK_SIZE - 1) \div BLOCK_SIZE \in Nat
  BY <1>1
<1>3. size = 0 => (size + BLOCK_SIZE - 1) \div BLOCK_SIZE = 0
  BY <1>1
<1> QED BY <1>1, <1>2, <1>3 DEF NBlocks, Total, MAXFILE

\* The blocks of a file do not move as long as its blocks are not written: the
\* indirect block that names the others is one of them.
LEMMA SameBlocks ==
  ASSUME NEW d, NEW e, NEW ino \in Inode,
         \A b \in BlocksOf(d, ino) : e[b] = d[b]
  PROVE  /\ \A k \in Slots(ino) : Ptr(e, ino, k) = Ptr(d, ino, k)
         /\ BlocksOf(e, ino) = BlocksOf(d, ino)
<1>1. NDIRECT \in Nat /\ Total(ino.size) \in Nat
  BY FileSize, SizesAssumption DEF Inode
<1>2. ASSUME NEW k \in Slots(ino) PROVE Ptr(e, ino, k) = Ptr(d, ino, k)
  <2>1. CASE k <= NDIRECT
    BY <2>1 DEF Ptr
  <2>2. CASE ~ (k <= NDIRECT)
    <3>1. NDIRECT \in Slots(ino)
      BY <2>2, <1>1 DEF Slots
    <3>2. Ptr(d, ino, NDIRECT) = ino.blocks[NDIRECT]
      BY <1>1 DEF Ptr
    <3>3. ino.blocks[NDIRECT] \in BlocksOf(d, ino)
      BY <3>1, <3>2 DEF BlocksOf
    <3> QED BY <3>3, <2>2 DEF Ptr
  <2> QED BY <2>1, <2>2
<1> QED BY <1>2 DEF BlocksOf

\* The inode's own blocks are all that put_inode writes.
LEMMA PutInode ==
  ASSUME NEW d, Formatted(d), NEW i \in 0 .. MAX_INUM, NEW ino \in Inode
  PROVE  LET e == put_inode(d, i, ino)
         IN  /\ Formatted(e)
             /\ marked(e) = marked(d)
             /\ get_inode(e, i) = ino
             /\ \A b \in DiskBlocks \ {IBLOCK(i)} : e[b] = d[b]
<1> DEFINE e == put_inode(d, i, ino)
<1>1. DOMAIN d = DiskBlocks /\ IBLOCK(i) \in DiskBlocks /\ IBLOCK(i) \notin BitmapBlocks
  BY Regions DEF Formatted
<1>2. /\ DOMAIN e = DiskBlocks /\ e[IBLOCK(i)] = ino
      /\ \A b \in DiskBlocks \ {IBLOCK(i)} : e[b] = d[b]
  BY <1>1 DEF put_inode
<1> HIDE DEF e
<1>3. Formatted(e)
  BY <1>1, <1>2, Regions DEF Formatted
<1>4. marked(e) = marked(d)
  <2>1. \A b \in BitmapBlocks : e[b] = d[b]
    BY <1>1, <1>2, Regions
  <2> QED BY <2>1 DEF marked
<1> QED BY <1>2, <1>3, <1>4 DEF e, get_inode

\* f is the disk d after write_file wrote buf to blocks ids of inode i: they are
\* marked and are all of the file, each where the inode or the indirect block
\* says; no other block changed but the bitmap and the inode.
Written(d, f, i, buf, ids) ==
  LET S == {ids[k] : k \in DOMAIN ids}
  IN  /\ Formatted(f)
      /\ marked(f) = marked(d) \cup S
      /\ get_inode(f, i) = resized(get_inode(d, i), buf, ids)
      /\ \A b \in DiskBlocks \ (BitmapBlocks \cup S \cup {IBLOCK(i)}) : f[b] = d[b]
      /\ \A k \in 0 .. Total(Len(buf)) - 1 : Ptr(f, get_inode(f, i), k) = ids[k]
      /\ \A k \in 0 .. Total(Len(buf)) - 1 : f[ids[k]] = SlotContent(buf, ids, k)

\* The blocks that a write_file of buf may get.
Distinct(ids, buf) ==
  /\ ids \in [0 .. Total(Len(buf)) - 1 -> BlockIds \cap DiskBlocks]
  /\ \A k, l \in 0 .. Total(Len(buf)) - 1 : ids[k] = ids[l] => k = l

LEMMA WriteFile ==
  ASSUME NEW d, Formatted(d), NEW i \in 0 .. MAX_INUM,
         NEW buf, Len(buf) \in Nat, NBlocks(Len(buf)) <= MAXFILE,
         NEW ids, Distinct(ids, buf)
  PROVE  Written(d, rewritten(d, i, buf, ids), i, buf, ids)
<1> DEFINE S   == {ids[k] : k \in DOMAIN ids}
           m   == mark(d, S)
           w   == write_blocks(m, buf, ids)
           ino == resized(get_inode(d, i), buf, ids)
           e   == put_inode(w, i, ino)
           T   == Total(Len(buf))
<1>1. /\ NDIRECT \in Nat \ {0} /\ NINDIRECT \in Nat \ {0}
      /\ T \in Nat /\ T <= NDIRECT + NINDIRECT + 1
  BY FileSize, SizesAssumption
<1>2. /\ DOMAIN ids = 0 .. T - 1 /\ S \subseteq BlockIds \cap DiskBlocks
      /\ \A k, l \in 0 .. T - 1 : ids[k] = ids[l] => k = l
  BY DEF Distinct
<1>3. Formatted(m) /\ marked(m) = marked(d) \cup S
      /\ \A b \in DiskBlocks \ BitmapBlocks : m[b] = d[b]
  <2>1. S \subseteq BlockIds
    BY <1>2
  <2> HIDE DEF S
  <2> QED BY <2>1, MarkBlocks
<1>4. DOMAIN w = DiskBlocks /\ \A b \in DiskBlocks \ S : w[b] = m[b]
  <2> HIDE DEF m
  <2> QED BY <1>3 DEF write_blocks, Formatted
<1>5. \A k \in DOMAIN ids : w[ids[k]] = SlotContent(buf, ids, k)
  <2>1. TAKE k \in DOMAIN ids
  <2>2. ids[k] \in DOMAIN m
    BY <1>2, <1>3 DEF Formatted
  <2>3. (CHOOSE l \in DOMAIN ids : ids[l] = ids[k]) = k
    <3>1. \A l \in DOMAIN ids : ids[l] = ids[k] => l = k
      BY <1>2
    <3> QED BY <3>1
  <2> HIDE DEF m
  <2> QED BY <2>2, <2>3 DEF write_blocks
<1>6. Formatted(w) /\ marked(w) = marked(m)
  <2>1. \A b \in BitmapBlocks \cup InodeBlocks : b \in DiskBlocks /\ b \notin S
    BY <1>2, Regions
  <2>2. \A b \in BitmapBlocks \cup InodeBlocks : w[b] = m[b]
    BY <1>4, <2>1
  <2> HIDE DEF w, m, S
  <2> QED BY <1>3, <1>4, <2>2 DEF Formatted, marked
<1>7. ino \in Inode
  <2>1. get_inode(d, i) \in Inode
    BY InodeType
  <2>2. \A k \in DOMAIN ids : ids[k] \in BlockIds
    BY <1>2
  <2> QED BY <2>1, <2>2 DEF Inode, resized
<1>8. /\ Formatted(e) /\ marked(e) = marked(w) /\ get_inode(e, i) = ino
      /\ \A b \in DiskBlocks \ {IBLOCK(i)} : e[b] = w[b]
  <2> HIDE DEF w, ino
  <2> QED BY <1>6, <1>7, PutInode
<1>9. \A b \in DiskBlocks \ (BitmapBlocks \cup S \cup {IBLOCK(i)}) : e[b] = d[b]
  <2> HIDE DEF S, m, w, e
  <2> QED BY <1>3, <1>4, <1>8
<1>10. \A k \in DOMAIN ids : e[ids[k]] = SlotContent(buf, ids, k)
  <2>1. \A k \in DOMAIN ids : ids[k] \in DiskBlocks \ {IBLOCK(i)}
    BY <1>2, Regions
  <2> HIDE DEF w, e
  <2> QED BY <1>5, <1>8, <2>1
<1>11. ASSUME NEW k \in 0 .. T - 1 PROVE Ptr(e, ino, k) = ids[k]
  <2>1. CASE k <= NDIRECT
    <3>1. k \in 0 .. NDIRECT /\ k \in DOMAIN ids
      BY <1>1, <1>2, <2>1
    <3>2. ino.blocks[k] = ids[k]
      BY <3>1 DEF resized
    <3> HIDE DEF e, ino
    <3> QED BY <2>1, <3>2 DEF Ptr
  <2>2. CASE ~ (k <= NDIRECT)
    <3>1. /\ NDIRECT \in DOMAIN ids /\ NDIRECT \in 0 .. NDIRECT
          /\ k - NDIRECT - 1 \in 0 .. NINDIRECT - 1
          /\ (k - NDIRECT - 1) + NDIRECT + 1 = k /\ k \in DOMAIN ids
      BY <1>1, <1>2, <2>2
    <3>2. ino.blocks[NDIRECT] = ids[NDIRECT]
      BY <3>1 DEF resized
    <3>3. e[ids[NDIRECT]] = SlotContent(buf, ids, NDIRECT)
      BY <3>1, <1>10
    <3>4. SlotContent(buf, ids, NDIRECT)[k - NDIRECT - 1] = ids[k]
      BY <3>1, <1>1 DEF SlotContent
    <3> HIDE DEF e, ino
    <3> QED BY <2>2, <3>2, <3>3, <3>4 DEF Ptr
  <2> QED BY <2>1, <2>2
<1>12. e = rewritten(d, i, buf, ids)
  BY DEF rewritten
<1> HIDE DEF m, w, ino, e
<1> QED BY <1>2, <1>3, <1>6, <1>8, <1>9, <1>10, <1>11, <1>12 DEF Written, ino
=============================================================================
