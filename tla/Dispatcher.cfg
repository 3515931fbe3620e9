SPECIFICATION FairSpec
CONSTANTS
  Roles = {"cto", "engineer"}
  GlobalSem = "global"
  MaxParallel = 2
  PerRole <- MCPerRole
  MaxCalls = 5
INVARIANTS
  PermitsConserved
  NoLostWakeup
  InflightIsEventBalance
  SerialRoleInOrder
PROPERTIES
  EveryCallEnds
  ImplementsBoundedRuns
CHECK_DEADLOCK FALSE
