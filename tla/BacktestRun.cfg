CONSTANTS
  RankingMetrics <- MCRankingMetrics
  Outcomes <- MCOutcomes
  Partials <- MCPartials
  Settings <- MCSettings
  NStrategies = 3
  MaxScore = 4
  ScoreLimit = 3
  NotifyRunUpdate = TRUE
  MaxRuns = 2
  MaxFaults = 1
SPECIFICATION Spec
INVARIANTS
  RowsHoldChampions
  RowsNeverWorse
  ChampionsAreBest
  NoOrphanRows
  OneRowPerStrategy
CHECK_DEADLOCK FALSE
