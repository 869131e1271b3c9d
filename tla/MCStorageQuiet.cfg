SPECIFICATION QuietSpec
CONSTANTS
  Worker = {w1, w2}
  FileId = {f1, f2}
  VersionId = {v1, v2}
  Chunk = {c1, c2}
  Key = {k1}
  Path = {p1}
  Dir = {}
  MaxChunks = 1
  MaxClock = 1
  LockWait = 1
  NoPath = NoPath
  NoVersion = NoVersion
  NoFile = NoFile
  NoChunk = NoChunk
  NoWorker = NoWorker
  NoKey = NoKey
  Above <- MCAbove
SYMMETRY StorageSymmetry
INVARIANTS
  StorageTypeOK
  StoredIfReferenced
PROPERTIES
  SweepComplete
CHECK_DEADLOCK FALSE
