SPECIFICATION Spec
CONSTANTS
    Threads = {t1, t2}
    NoThread = none
    MaxChanges = 3
    MaxFlushes = 2
INVARIANTS
    FlushCoversEarlierChanges
    UnsavedIsMarked
PROPERTY
    DiskNeverGoesBack
