SPECIFICATION SSpec
CONSTANTS
    one = one
    two = two
    Device = {one, two}
    MaxLinks = 1
    MaxDevices = 2
    Budget <- ManagerBudget
    Ring = 5
    Margin = 2
    Target = 2
    Block = 2
    MaxPush = 2
    MaxWritten = 10
    MaxStarts = 2
    File = {one, two}
    Slot = {1, 2}
    Voice = {1, 2}
    QueueCap = 1
    MaxTriggers = 3
    MaxStops = 1
    MaxChanges = 1
    StartupTimeout = 3
    HeartbeatTimeout = 2
    MaxDelay = 3
    Stable = 4
    MaxTime = 5
    MaxFaults = 2
    Tab = {one, two}
    Capacity = 2
    Overflow = 1
    UploadSize = 2
    Threshold = 1
    MaxPoints = 2
    MaxDecisions = 1
    MaxFailures = 1
    MaxId = 2
    Value = {1, 2}
    Control = {1}
    MaxStates = 1
    MaxMappings = 1
    MaxSteps = 4
    MaxLost = 1
SYMMETRY Symmetry
INVARIANTS StreamIsSound
    DevicesAgree EffectsAreKept NothingStays PointsAreKept ClipsAreKept
    Supervised TypesAreKept
PROPERTIES StepsAreWhole
CHECK_DEADLOCK FALSE
