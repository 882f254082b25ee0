SPECIFICATION Spec
CONSTANTS
  NRoots = 3
  Required = {1, 2}
  Sfx = 2
  Value = {"empty", "a"}
  Empty = "empty"
  Absent = "absent"
  NoSetup = NoSetup
  Budget <- OneFault
INVARIANT RejectedIsNotStaged
