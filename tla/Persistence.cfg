CONSTANTS
  a = a
  b = b
  c = c
  c1 = c1
  c2 = c2
  Ids = {a, b, c}
  Callers = {c1, c2}
  TrashCallers = {c1, c2}
  NoId = NoId
  Backups <- MCBackups
  NoFile = NoFile
  Empty = Empty
  Broken = Broken
  MaxDirs = 2
  MaxOps = 4
  MaxRestarts = 1
SPECIFICATION Spec
CHECK_DEADLOCK FALSE
SYMMETRY Symmetric
INVARIANTS TypeOK RecordsSurvive RecordsMatchTable TrashListed
