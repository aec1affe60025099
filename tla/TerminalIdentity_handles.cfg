\* Two requests of every kind on one name, through a replaced session and a replaced tmux server.
SPECIFICATION Spec
CONSTANTS
    Requests = {q1, q2}
    Names = {n1, n2}
    Refs = {s1, s2}
    RawPanes = {1, 2}
    Users = {u1}
    Actions = {a1}
    None = None
    PerUser = 1
    MaxServers = 2
    MaxHandles = 2
    MaxTokens = 1
SYMMETRY Symmetry
CHECK_DEADLOCK FALSE
INVARIANT
    StoreIsSound
PROPERTIES
    
    TokensAreSafe
