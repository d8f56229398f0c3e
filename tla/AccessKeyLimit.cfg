\* Two creations of one user who may have one key.
SPECIFICATION Spec
CONSTANTS
    Roots <- OneRoot
    Registrations = {}
    Profiles = {}
    AdminEdits = {}
    KeyCreations = {"create1", "create2"}
    KeyDeletions = {}
    Calls = {}
    Emails <- Addresses
    AdminEmail = "admin@"
    MaxKeys = 1
    MaxRestarts = 0
    Workloads <- TwoCreations
    NoRow = NoRow
    Logins = {}
    Renewals = {}
    UserPages = {}
    AdminPages = {}
    VisitorsOf <- Nobody
    AccessLifetime = 1
    RefreshLifetime = 1
    MaxTime = 0
INVARIANTS
    KeyLimit
