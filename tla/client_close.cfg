CONSTANTS
    x1 = x1
    x2 = x2
    u1 = u1
    Closer = {x1}
    Caller = {}
    MaxReconnectAttempts = 1
    MaxConn = 2
    MaxBlocks = 0
    Monitor = Monitor
    None = None
SPECIFICATION FairSpec
PROPERTIES
    CloseFinishes
CHECK_DEADLOCK FALSE
