SPECIFICATION FairSpec
CONSTANTS
  Accounts = {ann, bob}
  Images = {p}
  Taps = {t1, t2, t3}
  None = None
  HudShows = TRUE
INVARIANTS TypeOK ServerOwn AvatarOwn OwnPostsFound
PROPERTY EditReleased
CHECK_DEADLOCK FALSE
