\* Two web creates at a limit of two beside one creation by the CLI; two handlers and the CLI at two sessions with one place for a viewer; two clients and two logins at a limit of two failures; two servers and four starts; two clients, two sockets and two links of the user; three processes that share two pids; a client with two sessions and two signals.
SPECIFICATION Spec
CONSTANTS
    SessionNames = {n1, n2, n3, n4}
    Creates = {w1, w2}
    MaxSessions = 2
    MaxCLI = 1
    ResizeRefs = {r1, r2}
    ViewerIDs = {v1, v2}
    Handlers = {h1, h2}
    CLI = cli
    ViewerTTL = 1
    PerSession = 1
    PerProcess = 1
    MaxTime = 2
    Clients = {k1, k2}
    LoginRequests = {q1, q2}
    LoginLimit = 2
    LoginWindow = 1
    MaxLoginTime = 2
    Servers = {p1, p2}
    CookieTTL = 1
    Tolerance = 1
    MaxStarts = 4
    MaxCookieTime = 3
    AgentClients = {a1, a2}
    AgentSockets = {x1, x2}
    UserLinks = {l1, l2}
    StableLink = stable
    Pids = {11, 12}
    MaxProcesses = 3
    SelectorNames = {m1, m2}
    SignalCapacity = 2
SYMMETRY Symmetry
CHECK_DEADLOCK FALSE
INVARIANTS
    WebLimitHolds
    NothingLeftBehind
    LoginsSurvive
    StopIsExact
PROPERTIES
    
    LimiterExact
    LinkAlwaysGood
    DetachReturns
