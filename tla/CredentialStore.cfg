SPECIFICATION Spec
CONSTANTS
    Threads = {t1, t2}
    Keys = {k1, k2, c1}
    Accounts = {{k1, k2}}
    Custom = {c1}
    MaxId = 3
    MaxOps = 4
SYMMETRY Symmetry
CHECK_DEADLOCK FALSE
INVARIANTS
    MissingIsPending
    NextIdFresh
    NoUnwantedTwins
PROPERTY
    WritesMoveNothing
