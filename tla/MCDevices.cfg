CONSTANTS
    Part = {"routing", "parser", "pads", "streams", "level", "idle", "store"}
    s0 = s0
    s1 = s1
    card = card
    other = other
    loud = loud
    soft = soft
    Slot = {s0, s1}
    Card = {card, other}
    Nameless = {other}
    Speaker = {loud, soft}
    Files <- SavedFiles
    Empty <- EmptyFile
    MaxEdges = 2
    Initially <- SavedCards
    MaxEvents = 2
    Data = {"low", "high"}
    SysexMax = 4
    Note = {1, 2}
    Maps <- Pads
    MaxPending = 1
    MaxPadRequests = 1
    MaxPadFaults = 1
    Burst = 3
    Window = 3
    StartupGrace = 2
    ShiftGrace = 1
    QuietPeriod = 3
    BusyQuietPeriod = 4
    RetryWindow = 4
    Backoff <- Pauses
    MaxLevel = 2
    MaxTime = 16
    Device = {"a", "b"}
    NoDevice = "none"
    Ports <- CardPorts
    Slots = 2
    AtFirst <- CardsAtFirst
    MaxStreams = 2
    Retry = 1
    Ring = 2
    Block = 2
    MaxSize = 1
    MaxCardEvents = 2
    CustomFile = {"f", "g"}
    Key = {"k", "l", "m"}
    MaxContent = 3
    Unreadable = {3}
    FilesMax = 1
    TotalMax = 5
    EntriesMax = 2
    Plan <- StorePlans
    OptionEdit <- Edits
    MaxId = 2
    MaxStoreRequests = 2
    MaxStoreFaults = 2
    MaxCrashes = 1
SPECIFICATION DSpec
INVARIANTS RoutesAreKept GraphFollows ControllerIsUnderstood StreamsAreKept FilesAreKept TablesKeepTheirLimits
PROPERTIES LevelsSettle SleepIsSound
CHECK_DEADLOCK FALSE
