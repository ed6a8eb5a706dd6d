SPECIFICATION Spec
CONSTANTS
  d1 = d1
  d2 = d2
  t1 = t1
  t2 = t2
  t3 = t3
  t4 = t4
  p1 = p1
  p2 = p2
  None = None
  Items <- TwoItems
  Devices <- OneDevice
  Taps <- FourTaps
  Fields = {"collections", "blocked_accounts"}
  InitialLists <- ShortLists
  MaxInFlight = 1
  OfflineReads = TRUE
  MaxResets = 1
  MaxRestarts = 1
SYMMETRY TapSymmetry
INVARIANTS
  TypeOK
  SavesKept
  NoDuplicates
PROPERTIES
  AlertMatchesButton
CHECK_DEADLOCK FALSE
