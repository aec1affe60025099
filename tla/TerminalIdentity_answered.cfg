\* A History page, a termination and a third request on one session with one pane.
SPECIFICATION FairSpec
CONSTANTS
    Requests = {q1, q2, q3}
    Names = {n1}
    Refs = {s1}
    RawPanes = {1}
    Users = {u1}
    Actions = {a1}
    None = None
    PerUser = 1
    MaxServers = 1
    MaxHandles = 4
    MaxTokens = 0
CHECK_DEADLOCK FALSE
PROPERTY TerminalRequestAnswered
