SPECIFICATION Spec
CONSTANTS
  b1 = b1
  b2 = b2
  d1 = d1
  d2 = d2
  Files <- MCFiles
  Detectors = {d1, d2}
  Drafts <- MCDrafts
  Written <- MCWritten
  Unwritten = {b2}
  Queued = {}
  Text <- MCText
  Distinctive <- MCDistinctive
  Long <- MCLong
  Markers <- MCMarkers
  PhraseWindow = 2
  MarkerWindow = 2
  Checks = {"stale", "cross"}
  MaxDay = 3
  MaxDetections = 2
  MaxDecisions = 1
SYMMETRY MCSymmetry
CHECK_DEADLOCK FALSE
INVARIANTS
  SettledStaysOff
PROPERTIES
  AgeIsKept
  QuietDetectionIsExact
