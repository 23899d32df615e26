SPECIFICATION FairSpec
CONSTANTS
    Clients = {c1}
    Ids = {i1, i2}
    Manager = Manager
    NoConn = NoConn
    MaxMsgs = 3
PROPERTIES
    AllDelivered
    AllAnswered
    EarlyAreTold
CHECK_DEADLOCK FALSE
