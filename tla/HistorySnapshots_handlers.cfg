\* Two requests of two viewers of one login beside its logout and the termination of the session, with histories of two sizes.
SPECIFICATION Spec
CONSTANTS
    Requests = {p1, p2}
    Users = {u1}
    Viewers = {v1, v2}
    Refs = {s1}
    Sizes <- TwoSizes
    IdleTTL = 0
    PerViewer = 2
    PerUser = 2
    PerProcess = 2
    ProcessMaxBytes = 3
    ProcessMaxNodes = 3
    MaxTime = 1
    MaxSnapshots = 3
    MaxGenerations = 2
SYMMETRY Symmetry
CHECK_DEADLOCK FALSE
INVARIANT
    BudgetsKept
PROPERTIES
    
    OnlyReleased
    RefusedByActiveOnly
