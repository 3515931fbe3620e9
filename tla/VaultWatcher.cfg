SPECIFICATION FairSpec
CONSTANTS
  Paths = {"a", "b"}
  Window = 2
  MaxEdits = 3
  MaxFailures = 1
INVARIANTS
  EditIsAccountedFor
  ClosedAfterDrain
PROPERTIES
  EditIsCaptured
  StopEnds
CHECK_DEADLOCK FALSE
