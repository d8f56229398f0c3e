\* A stream alone.
SPECIFICATION Spec
CONSTANTS
    Users <- OneUser
    Keys <- OneKey
    Chats = {}
    Streams = {"stream"}
    Embeds = {}
    TopUps = {}
    Owner <- StreamOwner
    KeyOf <- StreamKey
    Locks <- OneLock
    LockOf <- DatabaseLock
    BusyTimeout = TRUE
    InitialBalance <- MixBalance
    Estimates = {0, 2}
    Actuals = {0, 1, 3}
    Amounts = {1}
    NoSession = "none"
INVARIANT StreamServedIsBilled
