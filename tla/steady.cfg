SPECIFICATION FairSpec
CONSTANTS
    Sets = {s1, s2}
    AutoRelease = {s2}
    ConnChoice = {TRUE}
    FlagChoice <- PlainFlags
    StreamValue = {v1}
    ConfigChoice <- OneStream
    Refused = {"acquire", "release"}
    Notices = {"release"}
    MaxOps = 5
    MaxStarts = 1
    MaxDeaths = 0
    MaxNotices = 1
    MaxTimeouts = 1
INVARIANTS
    HangNeedsDenial
PROPERTIES
    DestroyedIsFreed
CHECK_DEADLOCK FALSE
