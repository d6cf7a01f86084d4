SPECIFICATION FairSpec
CONSTANTS
    Creds = {"key", "idp"}
    CustomApis = {"api"}
    ApiKeys = {"key"}
    ExternalIdps = {"idp"}
    FirstProven = {{"idp"}}
    Multi = {"key"}
    MaxCalls = 3
    BaseQuotas = {3}
    MaxRounds = 1
    MaxChain = 2
    MaxHops = 2
    MaxReopens = 1
    MaxCompress = 1
    Absorbed = {"pool", "rate", "swap", "server", "capacity"}
INVARIANTS
    BudgetHolds
    ReportedOnce
PROPERTIES
    SilentNotReselected
    RequestEnds
