SPECIFICATION Spec
CONSTANTS
    Resource = {"a", "b"}
    Options <- Both
    Sendable = {}
    Updates = {}
    Floods = {33}
    HashDim = 64
    Refused = {}
    Outcomes = {"full"}
    Notices = {"empty"}
    MaxOps = 1
    MaxStarts = 1
    MaxDeaths = 0
    MaxNotices = 1
    MaxTimeouts = 0
    MaxReqno = 90
INVARIANTS
    ServerMeansLost
CHECK_DEADLOCK FALSE
