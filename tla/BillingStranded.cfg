\* A chat alone.
SPECIFICATION Spec
CONSTANTS
    Users <- OneUser
    Keys <- OneKey
    Chats = {"chat"}
    Streams = {}
    Embeds = {}
    TopUps = {}
    Owner <- ChatOwner
    KeyOf <- ChatKey
    Locks <- OneLock
    LockOf <- DatabaseLock
    BusyTimeout = TRUE
    InitialBalance <- MixBalance
    Estimates = {0, 2}
    Actuals = {0, 1, 3}
    Amounts = {1}
    NoSession = "none"
INVARIANT ChatChargedOnlyIfServed
