SPECIFICATION Spec
CONSTANTS
  MaxFns = 0
  MaxFires = 0
  MaxDefs = 0
  MaxArgs = 0
  MaxHolds = 0
  Depth = 1
  MaxHandlers = 0
  MaxBinds = 0
  MaxEvents = 0
  MaxItems = 0
  MaxCalls = 0
  MaxReqs = 1
  MixedReqs = 1
  MaxUploads = 1
  DomCheckCount = 2
INVARIANTS IndicatorsWork
CHECK_DEADLOCK FALSE
