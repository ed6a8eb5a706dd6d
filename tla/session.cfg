SPECIFICATION FairSpec
CONSTANTS
  a1 = a1
  a2 = a2
  f1 = f1
  f2 = f2
  None = None
  Accounts <- TwoAccounts
  Flows <- TwoFlows
  HudReliable = TRUE
INVARIANTS
  TypeOK
  OwnProfile
  MembersOnly
  NeverOverwritten
PROPERTIES
  LoginHasDocument
  HudReleased
