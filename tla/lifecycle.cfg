SPECIFICATION FairSpec
CONSTANTS
    Sets = {s1}
    AutoRelease = {s1}
    ConnChoice = {TRUE, FALSE}
    FlagChoice <- AudioFlags
    StreamValue = {v1}
    ConfigChoice <- OneStream
    Refused = {"register", "unregister", "acquire"}
    Notices = {"grant", "revoke", "advice", "release", "unregister"}
    MaxOps = 4
    MaxStarts = 1
    MaxDeaths = 1
    MaxNotices = 1
    MaxTimeouts = 1
INVARIANTS
    TypeOK
    OneOutstanding
    RefsAccounted
    StaleNeedsRevival
    ReadyIsReachable
PROPERTIES
    FifoRequests
    ImplementsPipe
    RequestsComplete
CHECK_DEADLOCK FALSE
