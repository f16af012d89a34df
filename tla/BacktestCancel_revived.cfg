CONSTANTS
  RankingMetrics <- MCRankingMetrics
  Outcomes <- MCOutcomes
  Partials <- MCPartials
  Settings <- MCSettings
  NStrategies = 2
  MaxScore = 1
  ScoreLimit = 1
  NotifyRunUpdate = TRUE
  MaxRuns = 1
  MaxFaults = 0
SPECIFICATION CSpec
PROPERTIES
  AbortedRunStays
CHECK_DEADLOCK FALSE
