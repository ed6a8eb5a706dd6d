SPECIFICATION FairSpec
CONSTANTS
  ann = ann
  bob = bob
  art = art
  pets = pets
  All = All
  None = None
  Accounts = {ann, bob}
  Members = {ann}
  Categories = {art, pets}
  Posts <- TwoPosts
  MaxRequests = 2
INVARIANT TypeOK
PROPERTIES NoBlockedArrives NoPostLost RefreshEnds
