SPECIFICATION Spec
CONSTANTS
    Keys = {1, 2, 3}
    NoScore = NoScore
    TTLs = {0, 1}
    MsPerSec = 2
    BatchSize = 2
    Never = 9
    MaxTime = 4
INVARIANTS
    IndexAgree
    CacheBounded
    CachePrefix
    Wakeup
PROPERTY
    TimeoutHappens
