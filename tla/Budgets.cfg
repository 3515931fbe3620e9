\* Every batch of up to three bets under every combination of caps.
SPECIFICATION BudgetSpec
CONSTANTS
  Roles = {"cto", "engineer"}
  Batches <- MCBatches
  Configs <- MCConfigs
  Spends = {0, 60}
  Bases = {0, 150}
INVARIANTS
  SessionCapHolds
  VerdictsFollowCaps
CHECK_DEADLOCK FALSE
