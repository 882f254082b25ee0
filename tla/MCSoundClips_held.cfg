CONSTANTS
    File = {"kick", "snare"}
    Slot = {1, 2}
    Voice = {1, 2}
    QueueCap = 2
    MaxTriggers = 3
    MaxStops = 1
    MaxChanges = 1
SPECIFICATION ClipsSpec
INVARIANT HoldEndsOnRelease
CHECK_DEADLOCK FALSE
