SPECIFICATION SetUpSpec
CONSTANTS
    Clients = {c1, c2}
    Ids = {i1}
    Manager = Manager
    NoConn = NoConn
    MaxMsgs = 4
INVARIANTS
    TypeOK
    NotReentered
    InOrder
    TimerPerReply
    RefsAccounted
    KnownToManager
SYMMETRY Symmetric
CHECK_DEADLOCK FALSE
