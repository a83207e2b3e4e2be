CONSTANTS
  BLOCK_NUM = 15
  BLOCK_SIZE = 2
  BPB = 5
  INODE_NUM = 3
  NDIRECT = 1
  NINDIRECT = 2
  ID_SPACE = 8
  MAX_INUM = 2
  Fills = {x, y}
  Lengths = {2, 6}
  Bytes <- MCBytes
  Contents <- MCContents
  NewTypes = {2}
  Ids = {1, 2, 3, 10}
  Junk = Junk
SPECIFICATION Spec
SYMMETRY Symmetry
INVARIANTS AllocatesDiskBlocks
\* The process may die, and create stops at MAX_INUM.
CHECK_DEADLOCK FALSE
