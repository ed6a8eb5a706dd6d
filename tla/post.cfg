SPECIFICATION FairSpec
CONSTANTS
  ann = ann
  bob = bob
  t1 = t1
  t2 = t2
  t3 = t3
  None = None
  Members = {ann, bob}
  Taps = {t1, t2}
  MaxAnswers = 4
INVARIANT TypeOK
PROPERTIES SuccessKept SuccessShown BoxAppears
