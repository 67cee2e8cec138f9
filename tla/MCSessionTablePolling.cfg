SPECIFICATION Spec
CONSTANTS
  Uids = {u1, u2}
  Objects = {o1, o2, o3}
  Null = Null
  Freed = Freed
  Idle = Idle
  Size = 3
  ServerHeartbeat = TRUE
  OfflineCounts = {0, 1, 2}
SYMMETRY Symmetry
INVARIANT
  OfflineAllSent
