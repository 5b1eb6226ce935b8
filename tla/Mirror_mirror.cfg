SPECIFICATION Spec
CONSTANTS
  n1 = n1
  n2 = n2
  Ids = {n1, n2}
  Settings <- MCSettings
  Callers = {c1}
  Reader = reader
  MaxItems = 2
  MaxQueue = 2
  Horizon = 0
  MaxTime = 2
  MaxEvents = 2
  MaxCalls = 2
  MaxFaults = 1
CHECK_DEADLOCK FALSE
INVARIANTS NoDismissForgotten OffShowsNothing DndFollows PlaybackFollows
