SPECIFICATION Spec
CONSTANTS
  BLOCK_SECTOR_SIZE = 2
  NODE_CAPACITY = 2
  NumSectors = 7
  Reserved = 2
  Bytes = {1}
  MaxLength = 5
  Sizes = {2}
  InitLengths = {0, 5}
  Disks <- TwoDisks
  NULL = NULL
  BadNames = {"?"}
  Inodes = {1, 2, 3}
  SLOTS = 1
  NAME_MAX = 4
  Procs = {proc1, proc2, proc3}
  proc1 = proc1
  proc2 = proc2
  proc3 = proc3
SYMMETRY Sym
INVARIANTS
  ReadsContents
  SectorsOwned
  HandlesLive
  EntriesSound
  PathsResolve
PROPERTIES
  FilesKept
  ActsWhereNamed
  RemovesEmpty
CHECK_DEADLOCK FALSE
