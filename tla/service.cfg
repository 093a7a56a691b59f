\* Every service command and three daemon commands beside a manager that may fail.
SPECIFICATION Spec
CONSTANTS
  p1 = p1
  p2 = p2
  NoPid = NoPid
  Pids <- TwoPids
  Terminal = Terminal
  Manager = Manager
  Manual = {"start", "stop", "status", "clear"}
  Setups <- AllSetups
  MaxMoves = 1
INVARIANT ManagerObeys
PROPERTIES ServiceComesBack CommandsReturn
