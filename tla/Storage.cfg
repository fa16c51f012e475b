SPECIFICATION MCSpec
CONSTANTS
    Keys = {1, 2, 3}
    Scores = {0, 1, 2, 3}
    NoScore = NoScore
    NoItem = NoItem
    Threads = {t1, t2}
    Hashes = {1}
    Timestamps = {0, 1, 3, 5}
    Width = 6
    count = 2
    capacity = 2
    Nodes = {n1, n2, n3, n4}
    NoNode = NoNode
    MaxLookups = 1
    Sections <- MCSections
    ValueNames <- MCValueNames
    CheckCase <- MCCheckCase
    Values = {"1", "2"}
    UserFiles <- MCUserFiles
    MaxSections = 3
    MaxCalls = 4
    Base = 6
    Bytes = 2
    KV = 1
    ZSET = 2
    ZSCORE = 3
    Colon = 1
    ExpireKey <- MCExpireKey
    Names <- MCNames
    Members <- MCMembers
    Deadlines <- MCDeadlines
    FlushKeys = {1, 2}
    Dues = {1, 2}
    MaxAsked = 2
    MaxFaults = 1
INVARIANTS
    Mirror
    IteratorsValid
    RoundTrip
    NothingShadowed
    DeadlinesKept
    ScanListsKeys
    LoadsEarliest
    FlushedGone
    ValueGoesFirst
PROPERTIES
    ImplementsMap
    ImplementsLru
CHECK_DEADLOCK FALSE
