SPECIFICATION GraphSpec
CONSTANTS
  Pages = {desk}
  Items = {t1}
  Gates = {g1}
  MaxPosts = 3
  MaxFailures = 2
CHECK_DEADLOCK FALSE
INVARIANTS
  NoNodeTwice
PROPERTIES
  DecidedStaysDecided
  CurrentUnlessMissed
