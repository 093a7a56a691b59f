\* One operator, background daemons, pids that strangers may reuse.
SPECIFICATION Spec
CONSTANTS
  NoPid = NoPid
  p1 = p1
  p2 = p2
  p3 = p3
  c1 = c1
  c2 = c2
  Pids <- ThreePids
  Clients <- OneClient
  Commands = {"start", "stop", "status", "clear"}
  Faults = {"reuse"}
INVARIANTS TypeOK LockNamesDaemon OneDaemon
PROPERTIES StopLeavesNone  StatusConverges ImplementsSingleWatcher
