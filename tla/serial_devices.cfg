SPECIFICATION Spec
CONSTANTS
  d1 = d1
  d2 = d2
  t1 = t1
  t2 = t2
  t3 = t3
  t4 = t4
  p1 = p1
  p2 = p2
  None = None
  Items <- TwoItems
  Devices <- TwoDevices
  Taps <- FourTaps
  Fields = {"collections"}
  InitialLists <- ShortLists
  MaxInFlight = 1
  OfflineReads = FALSE
  MaxResets = 1
  MaxRestarts = 0
SYMMETRY TapSymmetry
PROPERTIES
  AtomicRequests
CHECK_DEADLOCK FALSE
