CONSTANTS
  MaxSellRetries = 2
  MaxIntervals = 2
  AutoSell = TRUE
  Readings = {"priced", "drained", "nullPrice", "nullMigrated"}
SPECIFICATION FairSpec
CHECK_DEADLOCK FALSE
INVARIANTS
  PositionMatchesEvents
  GivesUpAfterRetries
PROPERTIES
  NoOverlap
  KeepsTradePromises
  AutoSellEndsHolding
  StoppedRunEnds
