SPECIFICATION FairSpec
CONSTANTS
  InoSpace = 8
  ChunkSpace = 4
  NoTask = NoTask
  Tasks = {t1, t2}
  Calls = {"write", "fsync"}
  Readers = {t1, t2}
  Writers = {t1, t2}
  NChunks = 2
  Ino <- MCIno2
  CLen = 1
  Blocks = {b}
  Hole = Hole
  ReadLens = {}
  WriteLens = {1}
  Appends = {FALSE}
  MaxPos = 1
  MaxPart = 4
  Sizes = {}
  Modes = {m}
  ContMode = c
  Err = Err
  Continuous = FALSE
  Evictions = FALSE
  MaxFaults = 1
PROPERTIES LockReleased CallReturns
