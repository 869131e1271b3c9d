SPECIFICATION BatchSpec
CONSTANTS
  FileId = {f1, f2}
  VersionId = {v1, v2}
  Chunk = {c1, c2}
  Key = {k1}
  Path = {p1, p2}
  Dir = {d1}
  MaxChunks = 2
  MaxClock = 0
  LockWait = 0
  NoPath = NoPath
  NoVersion = NoVersion
  NoFile = NoFile
  NoChunk = NoChunk
  p1 = p1
  p2 = p2
  d1 = d1
  Above <- MCAbove
  Temporary = {t1, t2}
  Batches <- MCBatches
SYMMETRY BatchSymmetry
INVARIANTS
  TypeOK
  RefCountsExact
  HeadsOwned
  UniqueLivePath
  TreeClosed
  CommittedUploadHolds
  IndexHolds
PROPERTIES
  HistoryKept
  CommitIdempotent
  ImplementsStore
  BatchIsOneTransaction
CHECK_DEADLOCK FALSE
