SPECIFICATION FairSpec
CONSTANTS
  Blk = 2
  PoolBlk = 1
  ChunkSize = 4
  Word = 64
  RawSizes <- MCSizes
  MaxFile = 20
  MaxFormats = 2
  MaxDirs = 3
  DebugMutex = FALSE
INVARIANTS ChunksInPlace ChunksFit ChunkListOK RootFound WholeFormat NothingHeld ClientPinned
PROPERTY UmountReturns
