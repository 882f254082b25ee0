SPECIFICATION FairSpec
CONSTANTS
  MaxEffects = 2
  Values = {0, 1}
  Default = 0
  Setups <- MCSetups
  NoHost = NoHost
  MaxSeq = 4
INVARIANTS
  NoFreedHostInUse
  BypassClearsUnmoved
PROPERTIES
  ChangesArrive
CHECK_DEADLOCK FALSE
