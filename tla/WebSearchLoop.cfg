SPECIFICATION FairSpec
CONSTANTS
    MaxCalls = 6
    MaxRounds = 2
    MaxSearches = 2
    MaxCompress = 1
    McpQuota = 2
    DirectCreds = 2
INVARIANTS
    BudgetHolds
    OneTrueRecord
    StreamComplete
PROPERTY
    BothEnd
