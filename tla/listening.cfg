SPECIFICATION Spec
CONSTANTS
    Clients = {c1}
    Ids = {i1, i2}
    MatchOutcome = {TRUE}
    MaxCalls = 3
    MaxSends = 1
INVARIANTS
    ListensForSetsOnly
CHECK_DEADLOCK FALSE
