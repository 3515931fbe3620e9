SPECIFICATION PluginSpec
CONSTANTS
  Bets = {b1, b2}
  Others = {conflicts}
  MaxEdits = 2
  MaxFailures = 1
CHECK_DEADLOCK FALSE
INVARIANTS
  OneProcess
  NoneOutlivesPlugin
PROPERTIES
  ShownIsCurrent
  IndexedUnlessMissed
