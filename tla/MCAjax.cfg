SPECIFICATION Spec
CONSTANTS
  MaxFns = 3
  MaxFires = 2
  MaxDefs = 2
  MaxArgs = 3
  MaxHolds = 2
  Depth = 2
  MaxHandlers = 1
  MaxBinds = 2
  MaxEvents = 2
  MaxItems = 3
  MaxCalls = 4
  MaxReqs = 3
  MixedReqs = 2
  MaxUploads = 1
  DomCheckCount = 2
INVARIANTS RoundExact DeferredsSettle DispatchExact QueueMoves PromiseRight  
PROPERTIES TimeoutEnds
CHECK_DEADLOCK FALSE
