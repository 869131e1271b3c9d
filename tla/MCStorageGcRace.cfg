SPECIFICATION StorageSpec
CONSTANTS
  Worker = {w1, w2}
  FileId = {f1, f2}
  VersionId = {v1, v2}
  Chunk = {c1}
  Key = {}
  Path = {p1}
  Dir = {}
  MaxChunks = 1
  MaxClock = 0
  LockWait = 0
  NoPath = NoPath
  NoVersion = NoVersion
  NoFile = NoFile
  NoChunk = NoChunk
  NoWorker = NoWorker
  NoKey = NoKey
  Above <- MCAbove
SYMMETRY StorageSymmetry
PROPERTIES
  GcKeepsReferenced
CHECK_DEADLOCK FALSE
