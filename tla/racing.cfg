SPECIFICATION Spec
CONSTANTS
  InoSpace = 8
  ChunkSpace = 4
  NoTask = NoTask
  Tasks = {t1, t2}
  Calls = {"write"}
  Readers = {t1, t2}
  Writers = {t1, t2}
  NChunks = 3
  Ino <- MCIno3
  CLen = 1
  Blocks = {b}
  Hole = Hole
  ReadLens = {}
  WriteLens = {1}
  Appends = {FALSE}
  MaxPos = 2
  MaxPart = 1
  Sizes = {}
  Modes = {m}
  ContMode = m
  Err = Err
  Continuous = FALSE
  Evictions = TRUE
  MaxFaults = 1
SYMMETRY Symmetry
INVARIANTS ChainOK ReachCached NoWildCont
