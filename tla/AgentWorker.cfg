\* Two firings, two starts, one database fault.
SPECIFICATION FairSpec
CONSTANTS
  MaxFirings = 2
  Roles = {"cto", "engineer"}
  Agents = {"cto1", "eng1", "eng2"}
  Fleets <- MCFleets
  MaxParallel = 1
  RoleCap <- MCRoleCap
  MaxStarts = 2
  MaxFaults = 1
INVARIANTS
  LiveFiringIsTraceable
  OpenMeansUnderWay
PROPERTIES
  SettledOnceByItsOwnRun
  PauseSticks
  FiringIsSettled
CHECK_DEADLOCK FALSE
