CONSTANTS
    c1 = c1
    c2 = c2
    None = None
    Keeper = Keeper
    Call = {c1}
    MsgId = {c1}
    IdOf <- MCIdOf
    Mandatory = {c1}
    OwnCallback = {c1}
    MaxRetryAttempts = 1
    MaxConnectionRetries = 1
    MaxGen = 2
    Expiring = {c1}
    LongTimeouts = TRUE
    Cancellable = {c1}
    MayClose = FALSE
SPECIFICATION FairSpec
PROPERTIES
    EveryCallAnswered
CHECK_DEADLOCK FALSE
