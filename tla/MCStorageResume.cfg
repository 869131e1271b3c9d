SPECIFICATION StorageSpec
CONSTANTS
  Worker = {w1}
  FileId = {f1}
  VersionId = {v1}
  Chunk = {c1}
  Key = {k1}
  Path = {p1}
  Dir = {}
  MaxChunks = 1
  MaxClock = 0
  LockWait = 0
  NoPath = NoPath
  NoVersion = NoVersion
  NoFile = NoFile
  NoChunk = NoChunk
  NoWorker = NoWorker
  NoKey = NoKey
  Above <- MCAbove
SYMMETRY StorageSymmetry
INVARIANTS
  RecordedChunksStored
CHECK_DEADLOCK FALSE
