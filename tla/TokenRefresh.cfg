SPECIFICATION Spec
CONSTANTS
    Flights = {f1, f2, f3}
    Roots = {1, 2}
    MaxGens = 1
    MaxTries = 2
    Methods = {"idc", "external_idp"}
SYMMETRY FlightSymmetry
CHECK_DEADLOCK FALSE
INVARIANTS
    NoReplay
    InvalidOnlyIfLost
PROPERTY
    AdminTokenKept
