SPECIFICATION FairSpec
CONSTANTS
  None = None
  MaxEdits = 3
  MaxAnswers = 3
INVARIANT TypeOK
PROPERTIES ProfileNeverOlder PageFilled
