SPECIFICATION Spec
CONSTANTS
    Clients = {c1}
    Ids = {i1, i2}
    MatchOutcome = {TRUE, FALSE}
    MaxCalls = 3
    MaxSends = 1
INVARIANTS
    ToldAreFollowed
CHECK_DEADLOCK FALSE
