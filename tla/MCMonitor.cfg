SPECIFICATION Spec
CONSTANTS
  N = 2
  Sockets = {}
  None = None
  StatAt <- MCStatAt
  MinutesPerDay = 3
  MaxClock = 8
  MaxPending = 3
  MaxRestarts = 0
INVARIANTS
  SampleFiled
  MinutesAddUp
  AllIsSumOfNodes
