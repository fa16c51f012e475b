SPECIFICATION CommandsSpec
CONSTANTS
    Keys = {1, 2}
    NoScore = NoScore
    TTLs = {0, 1}
    MsPerSec = 1
    BatchSize = 1
    Never = 3
    MaxTime = 1
    MaxFaults = 1
INVARIANT
    GrantedIsFound
PROPERTIES
    NotBeforeAsked
    KeepsPromise
