SPECIFICATION Spec
CONSTANTS
  N = 1
  Sockets = {s1, s2}
  None = None
  StatAt <- MCStatAt
  MinutesPerDay = 2
  MaxClock = 8
  MaxPending = 2
  MaxRestarts = 1
SYMMETRY Symmetry
 
PROPERTY SampledOnce
