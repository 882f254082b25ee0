SPECIFICATION Spec
CONSTANTS
  plain = plain
  small = small
  away = away
  NoGraph = NoGraph
  Truncated = Truncated
  Graphs <- MCGraphs
  InitialGraph <- MCInitialGraph
  Setups <- MCSetups
  Initial = plain
  Unavailable = {}
  Legacy = {}
  FullDisk = TRUE
  FadeBlocks = 2
  MaxRecalls = 1
  MaxFaults = 1
  MaxRefreshes = 0
INVARIANT RecalledSetupSurvives
CHECK_DEADLOCK FALSE
