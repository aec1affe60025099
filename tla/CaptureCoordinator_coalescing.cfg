SPECIFICATION Spec
CONSTANTS
    Requests = {r1, r2, r3}
    Users = {u1, u2}
    Scopes = {s1, s2}
    Calls = {c1, c2, c3}
    NoCall = NoCall
    MaxProcessCaptures = 2
    MaxLoginCaptures = 1
    MaxWaiters = 1
    Limit = 1
    Window = 0
    MaxScopes = 4
    MaxTime = 0
SYMMETRY Symmetry
INVARIANTS TypeOK Accounting OneCapturePerScope Budgets WaitersCounted ScopedAnswer
