\* The log with a daemon and a command; the configuration with two commands.
SPECIFICATION Spec
CONSTANTS
  root = root
  docs = docs
  cache = cache
  text = text
  wks = wks
  NoPath = NoPath
  NoFile = NoFile
  Empty = Empty
  Torn = Torn
  Paths <- Tree
  Parent <- TheParent
  Name <- OwnName
  Underscores <- Marked
  Match <- OneGlob
  Home = wks
  Clients = {c1, c2}
  LogClients = {c1}
  Daemon = Daemon
  Files = {f1, f2, f3, f4}
  CacheDir = cache
  Priorities = {1, 2}
  Start <- DocsOnly
  Changes <- AllChanges
  MaxChanges = 2
  MaxFailures = 1
  Kinds <- ThreeKinds
  MaxEntries = 2
  MaxShown = 1
  MaxDeaths = 1
CHECK_DEADLOCK FALSE
INVARIANTS TypeOK LossAccounted ConfigKept
PROPERTIES  RuleReach
