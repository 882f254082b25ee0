SPECIFICATION Spec
CONSTANTS
  Version = {"v0", "v1"}
  Factory = "v0"
  Broken = {}
  KernelFileOf <- MCKernelFileOf
  DefaultKernel = "kernel8.img"
  Absent = "absent"
  Torn = "torn"
  MaxAttempts = 2
  Kinds = {"update", "bootfile", "config", "cmdline"}
  Budget <- MCBudget
ACTION_CONSTRAINT SmallRequestFirst
CHECK_DEADLOCK FALSE
INVARIANTS
  NoUntrackedBootWrite
  RevertIsSound
PROPERTIES
  
  ConfirmsWhatRan
