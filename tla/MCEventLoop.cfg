SPECIFICATION LoopSpec
CONSTANTS
  Uids = {u1, u2}
  Objects = {o1, o2, o3}
  Null = Null
  Freed = Freed
  Idle = Idle
  Size = 4
  ServerHeartbeat = FALSE
  OfflineCounts = {0, 1}
  Threads = {t1, t2, Loop}
  Loop = Loop
  NoThread = NoThread
  max_entries = 3
  array_elements = 4
  RecvMax = 1
  MaxPushed = 5
INVARIANT CalledInOrder
PROPERTIES
  ImplementsIdleTimeout
  SilentUserExpires
  
CHECK_DEADLOCK FALSE
