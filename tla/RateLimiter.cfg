\* A window of two seconds, each of two ticks.
SPECIFICATION Spec
CONSTANTS
    u1 = u1
    u2 = u2
    Users <- TwoUsers
    PerUser = 3
    Global = 3
    Second = 2
    Window = 4
    Horizon = 6
    GlobalKey = global
    NoPromise = none
SYMMETRY Symmetry
INVARIANTS
    TypeOK
    WindowCap
    GlobalCountsAdmitted
    HonestReset
PROPERTIES
    HalfQuota
