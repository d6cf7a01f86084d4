SPECIFICATION FairSpec
CONSTANTS
    Creds = {1, 2}
    NoCred = none
    Family <- Cloned
    Threads = {t1}
    MaxFailures = 1
    MaxSuspicious = 3
    Base = 1
    MaxBackoff = 2
    MaxShift = 1
INVARIANTS
    TypeOK
    EnabledHasHeadroom
PROPERTIES
    TerminalUntilAdmin
    DisabledOnlyAfterHits
    PoolNotStuck
