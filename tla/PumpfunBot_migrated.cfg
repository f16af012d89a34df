CONSTANTS
  MaxSellRetries = 1
  MaxIntervals = 1
  AutoSell = TRUE
  Readings = {"drained"}
SPECIFICATION Spec
CHECK_DEADLOCK FALSE
PROPERTIES
  MigratedTokenEndsRun
