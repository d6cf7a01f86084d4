SPECIFICATION FairSpec
CONSTANTS
    Creds = {1, 2}
    Threads = {t1}
    Moves = {"shallow", "blocked", "off"}
    HardGate = TRUE
    FastFail = TRUE
    MaxInflight = 1
    RpmLimit = 1
    MaxAttempts = 1
    MaxRaces = 1
    MaxWaits = 1
INVARIANT
    GatesAgree
PROPERTIES
    FallbackRotates
    RequestEnds
