SPECIFICATION Spec
CONSTANTS
  Version = {"v0", "v1"}
  Factory = "v0"
  Broken = {}
  KernelFileOf <- MCKernelFileOf
  DefaultKernel = "kernel8.img"
  Absent = "absent"
  Torn = "torn"
  MaxAttempts = 2
  Kinds = {"update"}
  Budget <- MCBudget
CHECK_DEADLOCK FALSE
INVARIANT KeptBackupIsGood
