SPECIFICATION CalmSpec
CONSTANTS
  FileId = {1, 2}
  VersionId = {1, 2, 3, 4, 5, 6}
  Chunk = {c1, c2}
  Key <- MCKey
  Path = {p1}
  Dir = {}
  Above <- MCAbove
  MaxChunks = 1
  MaxClock = 0
  LockWait = 0
  MaxEdits = 2
  MaxOthers = 1
  MaxFailures = 1
  NoPath = NoPath
  NoVersion = NoVersion
  NoFile = NoFile
  NoChunk = NoChunk
  Absent = Absent
ACTION_CONSTRAINT IdsInOrder
INVARIANTS
  SyncTypeOK
  SyncedIsStored
PROPERTIES
  EventuallySynced
CHECK_DEADLOCK FALSE
