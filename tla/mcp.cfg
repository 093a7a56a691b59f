\* Two proxies one after the other or at once, two sessions, one command beside them.
SPECIFICATION Spec
CONSTANTS
  x1 = x1
  x2 = x2
  s1 = s1
  s2 = s2
  o1 = o1
  NoPid = NoPid
  Nobody = Nobody
  Proxies <- TwoProxies
  Sessions <- TwoSessions
  Others <- OneOther
  Users <- UsersOfTwo
  Slow = TRUE
  MaxMoves = 4
CHECK_DEADLOCK FALSE
INVARIANTS TypeOK PidFileNames AloneIsServed NoServerLeft
PROPERTY Settles
