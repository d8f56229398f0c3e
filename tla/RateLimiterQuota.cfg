\* Is the whole quota of a user usable?
SPECIFICATION Spec
CONSTANTS
    u1 = u1
    u2 = u2
    Users <- TwoUsers
    PerUser = 3
    Global = 4
    Second = 2
    Window = 4
    Horizon = 6
    GlobalKey = global
    NoPromise = none
SYMMETRY Symmetry
PROPERTY FullQuota
