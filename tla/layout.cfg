SPECIFICATION Spec
CONSTANTS
  Cols = 2
  Heights = {350, 300, 250}
  Gap = 15
  Top = 10
  Bottom = 10
  MaxItems = 6
INVARIANTS TypeOK NoOverlap ScrollsToAll
PROPERTY FramePerPost
