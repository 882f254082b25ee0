SPECIFICATION FairSpec
CONSTANTS
  NRoots = 2
  Required = {2}
  Sfx = 2
  Value = {"empty", "a"}
  Empty = "empty"
  Absent = "absent"
  NoSetup = NoSetup
  Budget <- MCBudget
INVARIANTS
  NeverRefuses
  AcceptedIsDurable
PROPERTIES RestoreIsAtomic RestoreCompletes
