SPECIFICATION Spec
CONSTANTS
    Creds = {1, 2}
    Threads = {t1, t2}
    Moves = {"limited"}
    HardGate = TRUE
    FastFail = TRUE
    MaxInflight = 1
    RpmLimit = 1
    MaxAttempts = 1
    MaxRaces = 1
    MaxWaits = 1
SYMMETRY Perms
INVARIANT
    InflightExact
