SPECIFICATION Spec
CONSTANTS
    Sets = {s1}
    AutoRelease = {}
    ConnChoice = {TRUE}
    FlagChoice <- TwoFlags
    StreamValue = {v1}
    ConfigChoice <- Streams
    Refused = {"register"}
    Notices = {"revoke", "release"}
    MaxOps = 5
    MaxStarts = 1
    MaxDeaths = 1
    MaxNotices = 1
    MaxTimeouts = 1
INVARIANTS
    Agreement
    AsleepOnlyIfDenied
CHECK_DEADLOCK FALSE
