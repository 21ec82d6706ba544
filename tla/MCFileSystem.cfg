CONSTANTS
  BLOCK_SZ = 2
  INODE_DIRECT_COUNT = 1
  BLOCK_BITS = 4
  InodesPerBlock = 2
  TotalBlocks = {14, 18}
  Name = {1, 2}
  Desc = {1, 2}
  Flags <- MCFlags
  Bufs <- MCBufs
  MaxSize = 11
  SmallSize = 3
SPECIFICATION Spec
INVARIANT FsTypeOK
INVARIANT BlocksOwnedOnce
INVARIANT ClearFreesAll
INVARIANT FreeSpaceZero
INVARIANT DirectoryOK
PROPERTY ImplementsFiles
