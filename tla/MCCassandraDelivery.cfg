SPECIFICATION FairSpec
CONSTANTS
  Messages = {m1, m2, m3}
  ToChannel = {m3}
  Transient = {m1}
  NoMsg = NoMsg
  max_offline_msg_num = 1
  MaxSessions = 1
  MaxAcks = 1
  MaxSubs = 2
  MaxFaults = 1
  MaxExpired = 1
  MaxRestarts = 1
INVARIANTS
  NumbersShared
  NumberedKept
  CacheRight
PROPERTY PubSaved
CHECK_DEADLOCK FALSE
