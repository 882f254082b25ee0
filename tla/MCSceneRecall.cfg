SPECIFICATION FairSpec
CONSTANTS
  plain = plain
  small = small
  away = away
  NoGraph = NoGraph
  Truncated = Truncated
  Graphs <- MCGraphs
  InitialGraph <- MCInitialGraph
  Setups <- MCSetups
  Initial = plain
  Unavailable <- MCUnavailable
  Legacy = {plain}
  FullDisk = TRUE
  FadeBlocks = 2
  MaxRecalls = 2
  MaxFaults = 1
  MaxRefreshes = 1
INVARIANTS
  SwapIsSilent
  HeardIsOneSetup
  FilesMatchSetup
PROPERTIES
  ImplementsRegister
  MuteIsLifted
  NewestGraphWins
CHECK_DEADLOCK FALSE
