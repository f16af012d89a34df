CONSTANTS
  Mints = {m1, m2, m3}
  PumpMints = {m1, m2, m3}
  LegacyMints = {m1, m2}
  Targets = {m1, m2, m3}
  MaxRetries = 2
SPECIFICATION FairSpec
INVARIANTS
  AllRetriesMade
PROPERTIES
  CleanPassSellsListed
  SaleEnds
CHECK_DEADLOCK FALSE
