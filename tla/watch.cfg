\* The daemon, a sync command, a prune and a changing filter on a full database.
SPECIFICATION Safety
CONSTANTS
  p1 = p1
  p2 = p2
  p3 = p3
  NoPath = NoPath
  Daemon = Daemon
  Paths <- TwoPaths
  Priority <- Ranked
  MinPriority = 0
  MaxDocuments = 1
  Commands = {m1}
  Faults = {"config", "prune"}
  MaxChanges = 3
  MaxQueue = 1
CHECK_DEADLOCK FALSE
INVARIANTS TypeOK NothingForgotten IndexFollows LimitHolds
