SPECIFICATION FairSpec
CONSTANTS
    Clients = {c1, c2}
    Ids = {i1, i2}
    MatchOutcome = {TRUE, FALSE}
    MaxCalls = 4
    MaxSends = 1
INVARIANTS
    TypeOK
    RefsAccounted
    PolicyInStep
    RegisteredAreWatched
PROPERTIES
    DeadAreForgotten
CHECK_DEADLOCK FALSE
