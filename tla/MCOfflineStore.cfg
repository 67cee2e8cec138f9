CONSTANTS
  MaxOffline = 2
  Ttls <- MCTtls
  MaxSeq = 5
  MaxClock = 3
SPECIFICATION Spec
INVARIANT RingAligned
INVARIANT SeqLockstep
INVARIANT UnackedKept
INVARIANT FetchWindow
PROPERTY ImplementsOfflineLog
