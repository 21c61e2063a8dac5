CONSTANTS
    c1 = c1
    c2 = c2
    None = None
    Keeper = Keeper
    Call = {c1, c2}
    MsgId = {c1, c2}
    IdOf <- MCIdOf
    Mandatory = {c1}
    OwnCallback = {c1}
    MaxRetryAttempts = 0
    MaxConnectionRetries = 1
    MaxGen = 2
    Expiring = {c1}
    LongTimeouts = FALSE
    Cancellable = {}
    MayClose = FALSE
SPECIFICATION Spec
INVARIANTS
    TypeOK
    ConfirmsMatch
    OutcomesTrue
    SweptClean
    StatsConserved
PROPERTIES
    ReadersKeepToTheirGeneration
    KeepsContract
CHECK_DEADLOCK FALSE
