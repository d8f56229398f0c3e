\* One write lock for the whole database, waiting for it ends in an error.
SPECIFICATION FairSpec
CONSTANTS
    Users <- OneUser
    Keys <- OneKey
    Chats = {"chat"}
    Streams = {"stream"}
    Embeds = {"embed"}
    TopUps = {"topup"}
    Owner <- MixOwner
    KeyOf <- MixKey
    Locks <- OneLock
    LockOf <- DatabaseLock
    BusyTimeout = TRUE
    InitialBalance <- MixBalance
    Estimates = {2}
    Actuals = {0, 1, 3}
    Amounts = {1}
    NoSession = "none"
INVARIANTS
    TypeOK
    NoOverdraft
    SettledCharge
    ServedIsBilled
    EmbedChargedOnlyIfServed
PROPERTIES
    RequestCommitsAreCharges
    StatementIsContinuous
    RequestsFinish
