SPECIFICATION MCSpec
CONSTANTS
    Pids = {1, 2, 3}
    NoPid = NoPid
    Files <- MCFiles
    Sections <- MCSections
    ValueNames <- MCValueNames
    CheckCase <- MCCheckCase
    Atoi <- MCAtoi
    MaxLaunches = 1
    MaxDeaths = 3
    MaxEdits = 2
    Threads = {t1, t2}
    Sizes = {1, 2}
    _maxFileSize = 2
    Fds = {3, 4, 5}
    MaxFiles = 3
    MaxSeconds = 1
INVARIANTS
    OneWorkerPerLaunch
    ConfigWhole
    SizeBounded
    LogIsOpen
PROPERTY
    GuardKeepsServing
CHECK_DEADLOCK FALSE
