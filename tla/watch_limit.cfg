\* The daemon alone, which may die, with a database that may fail: three files that
\* move around, one of them not important enough, for a single record.
SPECIFICATION Spec
CONSTANTS
  p1 = p1
  p2 = p2
  p3 = p3
  NoPath = NoPath
  Daemon = Daemon
  Paths <- ThreePaths
  Priority <- Graded
  MinPriority = 1
  MaxDocuments = 1
  Commands = {}
  Faults = {"death", "database"}
  MaxChanges = 3
  MaxQueue = 1
CHECK_DEADLOCK FALSE
PROPERTIES EvictsOnlyExcess Converges
