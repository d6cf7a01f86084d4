SPECIFICATION GatesFairSpec
CONSTANTS
    Members = {"a", "b"}
    FamilyOf <- OneFamily
    RetryAfters = {2}
    Length <- Lengths
    Calm = 1
    MaxShallow = 2
    TripAt = 2
    RecoveryFull = 2
    Backoff <- Backoffs
    HalfLife = 2
    Evict = 2
    MaxReports = 3
INVARIANTS
    CoolsUntilLongest
    DeadIsNotShallow
PROPERTIES
    RecoveryIsEarned
    PenaltiesEnd
