SPECIFICATION Spec
CONSTANTS
    Keys = {1, 2}
    NoScore = NoScore
    TTLs = {0, 1}
    MsPerSec = 1
    BatchSize = 1
    Never = 9
    MaxTime = 1
    MaxCrashes = 1
    MaxAsked = 2
INVARIANTS
    TypeOK
    ExpiryJustified
