\* Every command, every fault.
SPECIFICATION Spec
CONSTANTS
  NoPid = NoPid
  p1 = p1
  p2 = p2
  p3 = p3
  c1 = c1
  c2 = c2
  Pids <- TwoPids
  Clients <- OneClient
  Commands = {"start", "foreground", "stop", "status", "clear", "service_clear"}
  Faults = {"ps", "reuse", "client"}
PROPERTY LeavingDaemonGoes
