CONSTANTS
  BLOCK_NUM = 15
  BLOCK_SIZE = 2
  BPB = 5
  INODE_NUM = 3
  NDIRECT = 1
  NINDIRECT = 2
  ID_SPACE = 8
  MAX_INUM = 3
  Fills = {x, y}
  Lengths = {2, 3}
  Bytes <- MCBytes
  Contents <- MCContents
  NewTypes = {2}
  Ids = {1, 2, 3, 10}
  Junk = Junk
SPECIFICATION Spec
SYMMETRY Symmetry
PROPERTIES CreatedInodeExists
\* The process may die, and create stops at MAX_INUM.
CHECK_DEADLOCK FALSE
