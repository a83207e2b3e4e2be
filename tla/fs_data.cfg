CONSTANTS
  Procs = {p1, p2}
  Names = {a, b}
  Letters = {x, y}
  DataLengths = {1}
  Bytes <- MCBytes
  Data <- MCData
  Zero = Zero
  Lengths = {0, 1}
  Page = 1
  Chunk = 40
  LongNames = {}
  DirentSize <- MCDirentSize
  MAX_INUM = 4
  Calls = {"open", "creat", "mknod", "mkdir", "symlink", "unlink", "read", "write", "ftruncate", "utimes"}
  NoFile = NoFile
SPECIFICATION Spec
SYMMETRY Symmetry
INVARIANTS TypeOK EntriesLive NamedOnce NoOrphan HandleLeadsBack
PROPERTIES RefinesFileSystem
\* The process of yfs_client may die, and nothing is made beyond MAX_INUM.
CHECK_DEADLOCK FALSE
