SPECIFICATION FairSpec
CONSTANTS
    Tools = {"t1", "t2"}
    MaxFrames = 3
    MaxPieces = 1
    MaxRetries = 1
    MaxErrors = 2
INVARIANT
    OneTrueRecord
PROPERTIES
    FollowsProtocol
    NoReopenAfterBytes
    FirstTokenDecides
