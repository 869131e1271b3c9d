SPECIFICATION SyncSpec
CONSTANTS
  FileId = {1, 2}
  VersionId = {1, 2, 3, 4, 5}
  Chunk = {c1, c2}
  Key <- MCKey
  Path = {p1}
  Dir = {}
  Above <- MCAbove
  MaxChunks = 1
  MaxClock = 0
  LockWait = 0
  MaxEdits = 2
  MaxOthers = 0
  MaxFailures = 0
  NoPath = NoPath
  NoVersion = NoVersion
  NoFile = NoFile
  NoChunk = NoChunk
  Absent = Absent
ACTION_CONSTRAINT IdsInOrder
INVARIANTS
  SyncedIsStored
CHECK_DEADLOCK FALSE
