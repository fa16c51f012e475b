SPECIFICATION MCSpec
CONSTANTS
    Keys = {k1}
    Threads = {t1, t2, t3}
    Writers = {w1, w2}
    t1 = t1
    t2 = t2
    t3 = t3
    w2 = w2
    MsPerSecond = 2
    MaxTime = 3
    PairTime = 2
    MaxWrites = 2
    MaxErrors = 1
    Validators <- MCValidators
    Probing = TRUE
    etag_enable = TRUE
    Symbols <- MCSymbols
    CR = "CR"
    LF = "LF"
    NUL = "NUL"
    Boundary <- MCBoundary
    FieldOf <- MCFieldOf
    Paths = {0, 1, 2, 3, 4, 5, 6}
    Route <- MCRoute
    Requests <- MCRequests
    encode_pass = TRUE
    max_upload_file_size = 40
    MaxFaults = 1
    Forms <- MCForms
    MaxLength = 20
SYMMETRY Pair
INVARIANTS
    AckedIsKept
    ReadsAcked
    AnswerCurrent
    ValidatorsMatch
    ChunksInvisible
    FormRead
CHECK_DEADLOCK FALSE
