SPECIFICATION Spec
CONSTANTS
  d1 = d1
  d2 = d2
  t1 = t1
  t2 = t2
  t3 = t3
  t4 = t4
  p1 = p1
  p2 = p2
  None = None
  Items <- TwoItems
  Devices <- OneDevice
  Taps <- TwoTaps
  Fields = {"collections"}
  InitialLists <- EmptyList
  MaxInFlight = 2
  OfflineReads = FALSE
  MaxResets = 0
  MaxRestarts = 0
INVARIANTS
  SavesKept
CHECK_DEADLOCK FALSE
