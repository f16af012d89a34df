CONSTANTS
  RankingMetrics <- MCRankingMetrics
  Outcomes <- MCOutcomes
  Partials <- MCPartials
  Settings <- MCKeepsMints
  NStrategies = 2
  MaxScore = 4
  ScoreLimit = 3
  NotifyRunUpdate = TRUE
  MaxRuns = 1
  MaxFaults = 0
SPECIFICATION Spec
INVARIANTS
  OverwriteIsSafe
CHECK_DEADLOCK FALSE
