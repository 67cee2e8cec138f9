SPECIFICATION Spec
CONSTANTS
  Uids = {u1, u2, u3, u4}
  Objects = {o1, o2, o3, o4, o5}
  Null = Null
  Freed = Freed
  Idle = Idle
  Size = 3
  ServerHeartbeat = TRUE
  OfflineCounts = {0, 1}
SYMMETRY Symmetry
INVARIANTS
  UsersOwnObjects
  BucketsLinked
  LinksMatch
  TimerReachesAll
  
PROPERTY
  ImplementsIdleTimeout
