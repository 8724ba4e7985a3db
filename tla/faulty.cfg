SPECIFICATION Spec
CONSTANTS
  InoSpace = 8
  ChunkSpace = 4
  NoTask = NoTask
  Tasks = {t1}
  Calls = {"read", "pread", "write", "pwrite", "fsync", "setattr"}
  Readers = {t1}
  Writers = {t1}
  NChunks = 3
  Ino <- MCIno3
  CLen = 1
  Blocks = {b}
  Hole = Hole
  ReadLens = {1}
  WriteLens = {2}
  Appends = {FALSE, TRUE}
  MaxPos = 2
  MaxPart = 3
  Sizes = {0}
  Modes = {m1}
  ContMode = c
  Err = Err
  Continuous = FALSE
  Evictions = TRUE
  MaxFaults = 2
INVARIANTS TypeOK NoWildCont SizeSettles
