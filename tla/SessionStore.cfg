\* Two requests under way, two logins, time to go idle and to expire: the
\* lifetimes 2 and 3 and the idle time 1 keep every check apart.
SPECIFICATION Spec
CONSTANTS
  Requests = {r1, r2}
  IDs = {i1, i2}
  TTL = 2
  RememberTTL = 3
  Idle = 1
  MaxClock = 4
  NoSession = NoSession
  NoID = NoID
SYMMETRY Symmetric
INVARIANTS TypeOK ServedInTime
PROPERTIES RemovedStaysRemoved TouchOnlyMovesSeen
