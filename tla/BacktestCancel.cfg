CONSTANTS
  RankingMetrics <- MCRankingMetrics
  Outcomes <- MCOutcomes
  Partials <- MCPartials
  Settings <- MCSettings
  NStrategies = 2
  MaxScore = 1
  ScoreLimit = 1
  NotifyRunUpdate = TRUE
  MaxRuns = 2
  MaxFaults = 1
SPECIFICATION CFairSpec
INVARIANTS
  CancelledRunsSettled
PROPERTIES
  AnswerMeansOver
  RunEnds
CHECK_DEADLOCK FALSE
