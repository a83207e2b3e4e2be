CONSTANTS
  Procs = {p1, p2}
  Names = {a, b}
  Letters = {x}
  DataLengths = {1}
  Bytes <- MCBytes
  Data <- MCData
  Zero = Zero
  Lengths = {0, 1, 2}
  Page = 1
  Chunk = 40
  LongNames = {}
  DirentSize <- MCDirentSize
  MAX_INUM = 4
  Calls = {"creat", "open", "write", "read", "ftruncate"}
  NoFile = NoFile
SPECIFICATION Spec
SYMMETRY Symmetry
INVARIANTS NeverThrows
\* The process of yfs_client may die, and nothing is made beyond MAX_INUM.
CHECK_DEADLOCK FALSE
