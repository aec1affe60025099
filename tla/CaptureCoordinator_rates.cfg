SPECIFICATION FairSpec
CONSTANTS
    Requests = {r1, r2}
    Users = {u1}
    Scopes = {s1, s2}
    Calls = {c1, c2}
    NoCall = NoCall
    MaxProcessCaptures = 2
    MaxLoginCaptures = 2
    MaxWaiters = 1
    Limit = 2
    Window = 3
    MaxScopes = 1
    MaxTime = 5
INVARIANT RateBound
PROPERTY EveryRequestAnswered
