SPECIFICATION PluginSpec
CONSTANTS
  Bets = {b1, b2}
  Others = {conflicts}
  MaxEdits = 2
  MaxFailures = 0
CHECK_DEADLOCK FALSE
PROPERTIES
  EditIsIndexed
