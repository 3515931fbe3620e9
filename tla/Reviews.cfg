SPECIFICATION Spec
CONSTANTS
  Files = {f1, f2}
  MaxRuns = 2
  Ops = {o1, o2}
  MaxCommands = 2
SYMMETRY Symmetry
INVARIANTS
  StagedIsKept
PROPERTIES
  ArchivedIsDecided
  AcceptedIsPromoted
CHECK_DEADLOCK FALSE
