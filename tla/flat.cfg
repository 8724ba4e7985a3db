SPECIFICATION Spec
CONSTANTS
  InoSpace = 8
  ChunkSpace = 4
  NoTask = NoTask
  Tasks = {w, r}
  Readers = {r}
  Writers = {w}
  Calls = {"read", "pread", "write"}
  NChunks = 2
  Ino <- MCIno2
  CLen = 2
  Blocks = {a, b}
  Hole = Hole
  ReadLens = {2}
  WriteLens = {1}
  Appends = {FALSE}
  MaxPos = 4
  MaxPart = 2
  Sizes = {}
  Modes = {m}
  ContMode = m
  Err = Err
  Continuous = TRUE
  Evictions = FALSE
  MaxFaults = 0
SYMMETRY BlockSymmetry
PROPERTY FlatSpec
