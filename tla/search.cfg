SPECIFICATION FairSpec
CONSTANTS
  i1 = i1
  i2 = i2
  i3 = i3
  k1 = k1
  k2 = k2
  k3 = k3
  None = None
  Images = {i1, i2, i3}
  Keywords = {k1, k2, k3}
  HudShows = TRUE
INVARIANT TypeOK
PROPERTIES ImageResults HudGoes
