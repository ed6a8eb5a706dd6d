SPECIFICATION FairSpec
CONSTANTS
  d1 = d1
  d2 = d2
  t1 = t1
  t2 = t2
  t3 = t3
  t4 = t4
  p1 = p1
  p2 = p2
  None = None
  Items <- TwoItems
  Devices <- OneDevice
  Taps <- ThreeTaps
  Fields = {"collections", "blocked_accounts"}
  InitialLists <- EmptyList
  MaxInFlight = 3
  OfflineReads = TRUE
  MaxResets = 0
  MaxRestarts = 1
INVARIANTS
  AtRestAgreement
  BlocksKept
PROPERTIES
  TapAnswered
  QueueDrains
CHECK_DEADLOCK FALSE
