CONSTANTS
  Bots = {b1, b2, b3}
  MaxConcurrent = 2
  MaxOpenPositions = 2
  MaxFullTrades = 2
  ChecksBalance = TRUE
SPECIFICATION FairSpec
INVARIANTS
  TypeOK
  ConcurrencyBounded
  OneSocket
  NeverDeaf
  PausedWhileFull
  FullTradesStopListening
PROPERTIES
  StopLiftedOnlyBySale
  DoneWhenIdle
  FullTradesEndFleet
CHECK_DEADLOCK FALSE
