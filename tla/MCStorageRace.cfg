SPECIFICATION FairStorageSpec
CONSTANTS
  Worker = {w1, w2}
  FileId = {1, 2}
  VersionId = {1, 2}
  Chunk = {c1}
  Key = {k1}
  Path = {p1}
  Dir = {}
  MaxChunks = 1
  MaxClock = 0
  LockWait = 0
  NoPath = NoPath
  NoVersion = NoVersion
  NoFile = NoFile
  NoChunk = NoChunk
  NoWorker = NoWorker
  NoKey = NoKey
  Above <- MCAbove
ACTION_CONSTRAINT IdsInOrder
PROPERTIES
  ImplementsCatalog
  LockReleased
CHECK_DEADLOCK FALSE
