SPECIFICATION FsSpec
CONSTANTS
    MaxWrites = 4
    MaxAttempts = 2
CHECK_DEADLOCK FALSE
INVARIANTS
    ResultIsTrue
    TornOnlyByFallback
    OneCallKeepsACopy
