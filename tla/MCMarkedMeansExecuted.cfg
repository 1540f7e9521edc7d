CONSTANTS
    r1 = r1
    h1 = h1
    h2 = h2
    j1 = j1
    j2 = j2
    j3 = j3
    w1 = w1
    w2 = w2
    all = all
    free = free
    enterprise = enterprise
    Request = {r1}
    Hook = {h1, h2}
    EventOf <- Events
    WorkspaceOf <- Workspaces
    KnownEvent = {"approved", "denied"}
    EventsOf <- Subscribed
    ScopeOf <- Scopes
    AllWorkspaces = all
    MaxRetries = 3
    Job = {j1, j2, j3}
    KindOf <- Kinds
    MaxTries = 2
    Worker = {w1, w2}
    Tier = {free, enterprise}
    LimitOf <- Limits
    Unlimited = all
    Window = 2
    MaxGranted = 2
    Starter = {p1, p2}
    Shipped <- MoreReleases
SPECIFICATION Spec
INVARIANT MarkedMeansExecuted
CHECK_DEADLOCK FALSE
