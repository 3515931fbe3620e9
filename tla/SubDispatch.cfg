SPECIFICATION Spec
CONSTANTS
  Roles = {"ceo", "cto", "vp", "engineer"}
  TopLeader = "ceo"
  Trees <- MCTrees
  MaxDepth = 3
  SessionCap = {7}
  Estimates = {2, 3}
  MaxRuns = 4
INVARIANTS
  DepthIsBounded
  NoRoleBelowItself
  TeamWithinCap
CHECK_DEADLOCK FALSE
