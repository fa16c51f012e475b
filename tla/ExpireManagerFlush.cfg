SPECIFICATION Spec
CONSTANTS
    Keys = {1, 2}
    NoScore = NoScore
    TTLs = {1, 2}
    MsPerSec = 1
    BatchSize = 1
    Never = 9
    MaxTime = 3
PROPERTY
    ImplementsKeyTimeout
