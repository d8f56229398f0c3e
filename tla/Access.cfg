\* Five workloads, one restart: users of two addresses with two edits by administrators;
\* two creations at a limit of one key, a deletion and two calls; the owner of a key who is
\* disabled; an administrator who is demoted between logins; and renewals of tokens.
SPECIFICATION Spec
CONSTANTS
    Roots <- TwoRoots
    Registrations = {"register"}
    Profiles = {"profile"}
    AdminEdits = {"edit1", "edit2"}
    KeyCreations = {"create1", "create2"}
    KeyDeletions = {"delete"}
    Calls = {"call1", "call2"}
    Emails <- Addresses
    AdminEmail = "admin@"
    MaxKeys = 1
    MaxRestarts = 1
    Workloads <- SmallWorkloads
    NoRow = NoRow
    Logins = {"login1", "login2"}
    Renewals = {"renew1", "renew2"}
    UserPages = {"page"}
    AdminPages = {"adminpage"}
    VisitorsOf <- VisitorsWith
    AccessLifetime = 1
    RefreshLifetime = 1
    MaxTime = 3
INVARIANTS
    TypeOK
    UniqueEmail
    StartupFailsOnlyAfterDemotion
PROPERTIES
    SessionsEnd
    AdminPagesLag
    ColumnsArePreserved
    DeletedKeyIsRefused
    DisabledUserIsShutOut
