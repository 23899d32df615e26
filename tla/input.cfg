SPECIFICATION Spec
CONSTANTS
    Letter = {"a", "b"}
    InitialSize = 2
    MaxChunk = 3
    MaxReads = 3
INVARIANTS
    LinesFaithful
    Terminated
CHECK_DEADLOCK FALSE
