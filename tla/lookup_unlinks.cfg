SPECIFICATION Spec
CONSTANTS
  InoSpace = 8
  ChunkSpace = 4
  NoTask = NoTask
  Tasks = {t1}
  Calls = {"read", "write", "fsync", "setattr"}
  Readers = {t1}
  Writers = {t1}
  NChunks = 3
  Ino <- MCIno3
  CLen = 1
  Blocks = {b}
  Hole = Hole
  ReadLens = {1}
  WriteLens = {1}
  Appends = {FALSE}
  MaxPos = 2
  MaxPart = 4
  Sizes = {0, 2}
  Modes = {m1, m2}
  ContMode = c
  Err = Err
  Continuous = FALSE
  Evictions = TRUE
  MaxFaults = 0
INVARIANT ForwardLinked
