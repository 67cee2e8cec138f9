CONSTANTS
  MaxOffline = 2
  Ttls <- MCTtls
  MaxSeq = 3
  MaxClock = 1
SPECIFICATION CrashSpec
INVARIANT FetchBehindAck
