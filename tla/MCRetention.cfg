SPECIFICATION RetentionSpec
CONSTANTS
  FileId = {f1, f2}
  VersionId = {v1, v2}
  Chunk = {c1}
  Key = {}
  Path = {p1}
  Dir = {}
  MaxChunks = 1
  MaxClock = 2
  LockWait = 0
  MaxDays = 1
  NoPolicy = NoPolicy
  NoPath = NoPath
  NoVersion = NoVersion
  NoFile = NoFile
  NoChunk = NoChunk
  Above <- MCAbove
SYMMETRY RetentionSymmetry
PROPERTIES
  PurgesOnlyExpired
CHECK_DEADLOCK FALSE
