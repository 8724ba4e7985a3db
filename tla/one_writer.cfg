SPECIFICATION Spec
CONSTANTS
  InoSpace = 8
  ChunkSpace = 4
  NoTask = NoTask
  Tasks = {w, r}
  Calls = {"read", "pread", "write", "pwrite", "fsync", "setattr"}
  Readers = {r}
  Writers = {w}
  NChunks = 3
  Ino <- MCIno3
  CLen = 1
  Blocks = {b}
  Hole = Hole
  ReadLens = {2}
  WriteLens = {1}
  Appends = {FALSE}
  MaxPos = 3
  MaxPart = 1
  Sizes = {}
  Modes = {m}
  ContMode = c
  Err = Err
  Continuous = TRUE
  Evictions = FALSE
  MaxFaults = 0
INVARIANTS ForwardLinked RightPart FsyncFansOut
