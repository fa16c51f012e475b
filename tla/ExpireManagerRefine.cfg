SPECIFICATION SpecNoFlush
CONSTANTS
    Keys = {1, 2, 3}
    NoScore = NoScore
    TTLs <- MCTTLs
    MsPerSec = 1
    BatchSize = 2
    Never = 9
    MaxTime = 3
PROPERTY
    ImplementsKeyTimeout
