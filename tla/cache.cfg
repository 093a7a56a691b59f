\* Two clients, two versions of one source, a cache of four units.
SPECIFICATION Spec
CONSTANTS
  Contents = {a, b}
  Engines = {"pdf", "txt", "diff"}
  Diffs = {"diff"}
  Illustrated = {"pdf"}
  Extension <- TheExtension
  OutSize <- TheOutSize
  InSize = 2
  MaxSize = 4
  Clients = {c1, c2}
  NoContent = NoContent
  Faults = {"crash", "engine", "prune", "reset", "images"}
  MaxCalls = 3
CHECK_DEADLOCK FALSE
SYMMETRY Symmetric
INVARIANTS TypeOK ServedAlone  RecordsMatchDisk
