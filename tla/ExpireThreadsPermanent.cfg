SPECIFICATION MCSpec
CONSTANTS
    Keys = {1}
    NoScore = NoScore
    TTLs = {1}
    MsPerSec = 1
    BatchSize = 1
    Never = 9
    MaxTime = 1
    MaxCrashes = 1
    MaxAsked = 2
INVARIANT PermanentStays
