SPECIFICATION BackupSpec
CONSTANTS
  Proc = {p1, p2}
  Command = {c1}
  Home = {h1, h2}
  Chunk = {k1}
  NoProc = NoProc
  NoHome = NoHome
  Torn = Torn
SYMMETRY BackupSymmetry
INVARIANTS
  BackupTypeOK
  StateNamesServer
  ArchiveHonest
  
  AVaultSurvives
ACTION_CONSTRAINT BackupsApart
CHECK_DEADLOCK FALSE
