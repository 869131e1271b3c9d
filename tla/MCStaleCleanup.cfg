SPECIFICATION BackupSpec
CONSTANTS
  Proc = {p1, p2}
  Command = {c1}
  Home = {h1, h2}
  Chunk = {k1}
  NoProc = NoProc
  NoHome = NoHome
  Torn = Torn
PROPERTY CleanupSparesRunning
CHECK_DEADLOCK FALSE
