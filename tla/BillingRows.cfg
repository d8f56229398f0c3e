\* One lock per row, a wait lasts until the row is free, which an abandoned stream may
\* delay for ever; no top-ups.
SPECIFICATION Spec
CONSTANTS
    Users <- TwoUsers
    Keys <- ThreeKeys
    Chats = {"c1", "c2"}
    Streams = {"s1"}
    Embeds = {"e1"}
    TopUps = {}
    Owner <- RowOwner
    KeyOf <- RowKey
    Locks <- RowLocks
    LockOf <- RowLock
    BusyTimeout = FALSE
    InitialBalance <- RowBalance
    Estimates = {2}
    Actuals = {1, 3}
    Amounts = {1}
    NoSession = "none"
INVARIANTS
    LedgerExplainsBalance
    WaitsEnd
PROPERTIES
    ImplementsAccount
