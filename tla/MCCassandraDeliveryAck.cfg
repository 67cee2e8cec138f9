SPECIFICATION Spec
CONSTANTS
  Messages = {m1, m2}
  ToChannel = {}
  Transient = {}
  NoMsg = NoMsg
  max_offline_msg_num = 2
  MaxSessions = 1
  MaxAcks = 1
  MaxSubs = 0
  MaxFaults = 0
  MaxExpired = 0
  MaxRestarts = 0
INVARIANT AckedReceived
