SPECIFICATION Spec
CONSTANTS
  InoSpace = 8
  ChunkSpace = 4
  NoTask = NoTask
  Tasks = {t1, t2}
  Calls = {"write"}
  Readers = {t1, t2}
  Writers = {t1, t2}
  NChunks = 3
  Ino <- MCIno3
  CLen = 1
  Blocks = {b}
  Hole = Hole
  ReadLens = {}
  WriteLens = {1}
  Appends = {FALSE}
  MaxPos = 2
  MaxPart = 4
  Sizes = {}
  Modes = {m}
  ContMode = c
  Err = Err
  Continuous = TRUE
  Evictions = FALSE
  MaxFaults = 0
INVARIANT ForwardLinked
