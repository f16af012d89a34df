CONSTANTS
  RankingMetrics <- MCRankingMetrics
  Outcomes <- MCOutcomes
  Partials <- MCPartials
  Settings <- MCSettings
  NStrategies = 3
  MaxScore = 4
  ScoreLimit = 3
  NotifyRunUpdate = TRUE
  MaxRuns = 1
  MaxFaults = 1
SPECIFICATION Spec
INVARIANTS
  CheckpointResumes
CHECK_DEADLOCK FALSE
