SPECIFICATION QuietShareSpec
CONSTANTS
  Worker = {w1, r1, r2}
  Reader = {r1, r2}
  FileId = {f1, f2}
  VersionId = {v1, v2}
  Chunk = {c1}
  Key = {}
  Path = {p1}
  Dir = {}
  MaxChunks = 2
  MaxClock = 0
  LockWait = 0
  NoPath = NoPath
  NoVersion = NoVersion
  NoFile = NoFile
  NoChunk = NoChunk
  NoWorker = NoWorker
  NoKey = NoKey
  Above <- MCAbove
  Link = {l1}
  MaxDownloads = 1
  NoLink = NoLink
SYMMETRY ShareSymmetry
INVARIANTS
  ShareTypeOK
  LinkPinned
  LimitKept
  OnlyPurgeBreaksDownloads
PROPERTIES
  ClosedBeginsNothing
CHECK_DEADLOCK FALSE
