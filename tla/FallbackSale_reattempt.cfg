CONSTANTS
  Mints = {m1}
  PumpMints = {m1}
  LegacyMints = {m1}
  Targets = {m1}
  MaxRetries = 5
SPECIFICATION Spec
INVARIANTS
  RejectsOnlyOnError
CHECK_DEADLOCK FALSE
