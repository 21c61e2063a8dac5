CONSTANTS
    x1 = x1
    x2 = x2
    u1 = u1
    Closer = {x1, x2}
    Caller = {u1}
    MaxReconnectAttempts = 1
    MaxConn = 3
    MaxBlocks = 1
    Monitor = Monitor
    None = None
    NumMessages = 2
    Retries = {0, 1}
    Limits = {0, 1}
    MaxDeaths = 2
SPECIFICATION MCSpec
INVARIANTS
    TypeOK
    StateFollowsConnection
    GaveUpMeansDown
    BlockedByBroker
    ClosedForGood
    SuccessesBacked
    SuccessIsOwn
PROPERTIES
    ChannelsWhileConnected
    Recovers
    CallsReturn
CHECK_DEADLOCK FALSE
