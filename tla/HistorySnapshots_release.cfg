\* As races, against what the README says of logout and termination.
SPECIFICATION Spec
CONSTANTS
    Requests = {p1, p2}
    Users = {u1}
    Viewers = {v1}
    Refs = {s1}
    Sizes <- OneSize
    IdleTTL = 1
    PerViewer = 2
    PerUser = 2
    PerProcess = 2
    ProcessMaxBytes = 2
    ProcessMaxNodes = 2
    MaxTime = 2
    MaxSnapshots = 2
    MaxGenerations = 2
SYMMETRY Symmetry
CHECK_DEADLOCK FALSE
INVARIANTS ReleaseIsFinal
