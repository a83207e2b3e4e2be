CONSTANTS
  Procs = {p1, p2}
  Names = {a, b, c}
  Letters = {x}
  DataLengths = {1}
  Bytes <- MCBytes
  Data <- MCData
  Zero = Zero
  Lengths = {0, 1, 2}
  Page = 1
  Chunk = 72
  LongNames = {c}
  DirentSize <- MCDirentSize
  MAX_INUM = 4
  Calls = {"open", "symlink", "mknod", "unlink", "utimes_link", "getdents"}
  NoFile = NoFile
SPECIFICATION Spec
SYMMETRY Symmetry
INVARIANTS ListedOnce NeverCrashes
\* The process of yfs_client may die, and nothing is made beyond MAX_INUM.
CHECK_DEADLOCK FALSE
