CONSTANTS
  Bots = {b1, b2}
  MaxConcurrent = 2
  MaxOpenPositions = 1
  MaxFullTrades = 0
  ChecksBalance = FALSE
SPECIFICATION Spec
INVARIANTS
  DoneForGood
CHECK_DEADLOCK FALSE
