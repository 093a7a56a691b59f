\* Moves treated by wksc mv and by the daemon, syncs, repairs and prunes.
SPECIFICATION Spec
CONSTANTS
  d1 = d1
  d2 = d2
  p1 = p1
  p2 = p2
  p3 = p3
  inside = inside
  outside = outside
  Docs <- TwoDocs
  Paths <- ThreeDirs
  Notes <- TwoNotes
  Outside = {outside}
  Clients = {c1}
  Daemon = Daemon
  None = None
  Start <- Apart
  Linked <- SomeLinks
  MaxChanges = 3
CHECK_DEADLOCK FALSE
INVARIANTS TypeOK LinksFollow
PROPERTY LoneCommandsExact
