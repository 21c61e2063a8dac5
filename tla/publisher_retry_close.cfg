CONSTANTS
    c1 = c1
    c2 = c2
    None = None
    Keeper = Keeper
    Call = {c1}
    MsgId = {c1}
    IdOf <- MCIdOf
    Mandatory = {}
    OwnCallback = {c1}
    MaxRetryAttempts = 1
    MaxConnectionRetries = 1
    MaxGen = 3
    Expiring = {}
    LongTimeouts = FALSE
    Cancellable = {}
    MayClose = TRUE
SPECIFICATION Spec
INVARIANTS
    Accounted
    ClosedForGood
PROPERTIES
    SwapsOnlyDeadChannels
    KeepsContract
CHECK_DEADLOCK FALSE
