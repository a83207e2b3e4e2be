CONSTANTS
  BLOCK_NUM = 17
  BLOCK_SIZE = 2
  BPB = 6
  INODE_NUM = 4
  NDIRECT = 1
  NINDIRECT = 2
  ID_SPACE = 8
  MAX_INUM = 3
  Fills = {x, y}
  Lengths = {2, 3, 5, 7}
  Bytes <- MCBytes
  Contents <- MCContents
  NewTypes = {2}
  Ids = {1, 2, 3, 10}
  Junk = Junk
SPECIFICATION Spec
SYMMETRY Symmetry
INVARIANTS TypeOK LiveBlocksMarked NoSharedBlock NoLeak SpaceSuffices
PROPERTIES RefinesExtentStore
\* The process may die, and create stops at MAX_INUM.
CHECK_DEADLOCK FALSE
