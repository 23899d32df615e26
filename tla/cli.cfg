SPECIFICATION Spec
CONSTANTS
    Resource = {"a", "b"}
    Options <- Both
    Sendable = {"acquire"}
    Updates <- One
    Floods = {1, 2}
    HashDim = 6
    Refused = {"register"}
    Outcomes = {"full", "empty"}
    Notices = {"empty", "unregister"}
    MaxOps = 2
    MaxStarts = 1
    MaxDeaths = 1
    MaxNotices = 1
    MaxTimeouts = 1
    MaxReqno = 10
INVARIANTS
    TypeOK
    LabelsTrue
    StaleNeedsRevival
    AcceptingIsConnected
    SilentOnlyIfDenied
    FlagsAgree
    FloodGoesOn
CHECK_DEADLOCK FALSE
